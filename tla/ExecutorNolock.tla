--------------------------- MODULE ExecutorNolock ---------------------------
(***************************************************************************)
(* __executor_launch_staged_nolock (executor.c): the staged loop of an     *)
(* executor launched with isa_6502_opcode_exec_mode_no_locking, as         *)
(* system_6502 does for "--execution-mode=nolocks" while its TUI thread    *)
(* goes on calling executor_set_*.  The setters still exclude each other   *)
(* with state_lock, the loop no longer excludes them: every "flags |=" and *)
(* "flags &=" is a load and a store with other threads in between, and a   *)
(* setter's assignments are seen one at a time.                            *)
(*                                                                         *)
(* __executor_launch_staged_verbose_nolock is the same loop with progress  *)
(* callbacks between its statements.                                       *)
(***************************************************************************)
EXTENDS ExecutorBase

CONSTANTS
  InstrCycles,   \* the cycle counts of the instruction set, Endless among them
  StaleStages    \* values the uninitialised next_stage may hold

ASSUME InstrCyclesAssumption == InstrCycles \subseteq Nat \ {1}
ASSUME StaleStagesAssumption == StaleStages \subseteq {"next_cycle", "end"}

VARIABLES
  keep,      \* the mask of the launching thread's "flags &= ~..." in progress
  seen,      \* the value it loaded for it
  again,     \* the same mask is applied a second time
  after,     \* where the launching thread goes then
  call       \* the call a client is executing: what it does, and how far it is

rmwVars == <<keep, seen, again, after>>
nolockVars == <<vars, rmwVars, call>>

(* One cycle of a transfer, which clears dma in the mask instead of flags. *)
Masked == INSTANCE ExecutorBase WITH flags <- keep

NoCall == [op |-> "none", at |-> "none", loaded |-> {}]
Signals == {"nmi", "irq", "stop"}
Labels == {"idle", "loop", "check", "dma", "irq", "nmi", "clear", "load", "store",
           "returned", "crashed"}

-----------------------------------------------------------------------------
(* The clients.                                                             *)

CpuRest == UNCHANGED <<cache_disable, cpuVars, parity, next_stage, saved_stage,
                       transferVars, rmwVars>>
CpuUntouched == CpuRest /\ UNCHANGED intr_disable

(* pthread_mutex_lock, then the load of flags: half of "flags |=" in a      *)
(* signal's setter, and the test of the dma flag in the other two, after    *)
(* which a request that finds one pending unlocks again.                    *)
ClientEnter(c) ==
  /\ calls < CallBound /\ calls' = calls + 1
  /\ lock = Free
  /\ \/ \E s \in Signals :
          call' = [op |-> s, at |-> "store", loaded |-> flags] /\ lock' = c
     \/ "dma" \notin flags /\ \E range \in DmaRanges, copyout \in BOOLEAN :
          /\ call' = [op |-> "dma", at |-> "flag", loaded |-> flags,
                      range |-> range, copyout |-> copyout]
          /\ lock' = c
     \/ "dma" \in flags /\ UNCHANGED <<call, lock>>
  /\ UNCHANGED <<signalVars, requestVars>> /\ CpuUntouched

(* The store of "flags |= signal", and unlocking. *)
StoreSignal(c) ==
  /\ lock = c /\ call.at = "store"
  /\ flags' = call.loaded \cup {call.op}
  /\ owed' = owed \cup {call.op}
  /\ call' = NoCall /\ lock' = Free
  /\ UNCHANGED <<requestVars, calls>> /\ CpuUntouched

(* executor_hard_reset resets the registers and loads the flags, ...        *)
EnterReset(c) ==
  /\ calls < CallBound /\ calls' = calls + 1
  /\ lock = Free /\ lock' = c
  /\ intr_disable' = FALSE
  /\ call' = [op |-> "reset", at |-> "reset", loaded |-> flags]
  /\ UNCHANGED <<signalVars, requestVars>> /\ CpuRest

(* ... then stores them with every signal and request dropped.              *)
StoreReset(c) ==
  /\ lock = c /\ call.at = "reset"
  /\ flags' = {} /\ owed' = {}
  /\ call' = NoCall /\ lock' = Free
  /\ UNCHANGED <<requestVars, calls>> /\ CpuUntouched

(* executor_set_dma_copyin/_copyout store the flag first, ... *)
StoreDmaFlag(c) ==
  /\ lock = c /\ call.at = "flag"
  /\ flags' = call.loaded \cup {"dma"}
  /\ call' = [call EXCEPT !.at = "range"]
  /\ UNCHANGED <<owed, lock, requestVars, calls>> /\ CpuUntouched

(* ... then the range, ... *)
StoreDmaRange(c) ==
  /\ lock = c /\ call.at = "range"
  /\ dma_range' = call.range
  /\ call' = [call EXCEPT !.at = "provider"]
  /\ UNCHANGED <<signalVars, lock, dma_consumer, calls>> /\ CpuUntouched

(* ... then dma_provider, NULL for a copyout, ... *)
StoreDmaProvider(c) ==
  /\ lock = c /\ call.at = "provider"
  /\ call' = [call EXCEPT !.at = "consumer"]
  /\ UNCHANGED <<signalVars, lock, requestVars, calls>> /\ CpuUntouched

(* ... and dma_consumer, NULL for a copyin; the context is not told apart.  *)
StoreDmaConsumer(c) ==
  /\ lock = c /\ call.at = "consumer"
  /\ dma_consumer' = call.copyout
  /\ call' = NoCall /\ lock' = Free
  /\ UNCHANGED <<signalVars, dma_range, calls>> /\ CpuUntouched

ClientStep(c) ==
  \/ StoreSignal(c) \/ StoreReset(c)
  \/ StoreDmaFlag(c) \/ StoreDmaRange(c) \/ StoreDmaProvider(c) \/ StoreDmaConsumer(c)

-----------------------------------------------------------------------------
(* The launching thread.                                                    *)

ClientRestN == UNCHANGED <<lock, calls, call>>
BusRest == UNCHANGED <<requestVars, cache_disable, transferVars>> /\ ClientRestN

(* Begin "flags &= ~bits", to go on at label. *)
Clear(bits, label) ==
  /\ keep' = Flags \ bits /\ after' = label /\ again' = FALSE
  /\ pc' = "load"
  /\ UNCHANGED <<flags, seen>>

Load ==
  /\ pc = "load" /\ pc' = "store"
  /\ seen' = flags
  /\ UNCHANGED <<signalVars, keep, again, after, intr_disable, parity, cycle, cycles_needed,
                 next_stage, saved_stage>> /\ BusRest

Store ==
  /\ pc = "store"
  /\ flags' = seen \cap keep /\ seen' = {}
  /\ IF again
       THEN pc' = "load" /\ UNCHANGED <<keep, after>>
       ELSE pc' = after /\ keep' = Flags /\ after' = "idle"
  /\ again' = FALSE
  /\ owed' = IF keep = {} THEN {} ELSE owed   \* a launch drops what came before it
  /\ UNCHANGED <<intr_disable, parity, cycle, cycles_needed, next_stage,
                 saved_stage>> /\ BusRest

(* From "idle" the executor is launched once; the flags raised before are  *)
(* dropped.                                                                *)
Launch ==
  /\ pc = "idle"
  /\ Clear(Flags, "loop")
  /\ UNCHANGED <<owed, intr_disable, parity, cycle, cycles_needed, next_stage, saved_stage>>
  /\ BusRest

Return ==
  /\ owed' = owed \ {"stop"}
  /\ Clear({"stop"}, "returned")
  /\ UNCHANGED <<intr_disable, next_stage, saved_stage, cycles_needed>> /\ BusRest

LeaveLoop ==
  /\ pc = "loop"
  /\ Return
  /\ UNCHANGED <<parity, cycle>>

FetchIllegal ==
  /\ pc = "loop" /\ "stop" \notin flags
  /\ cycle' = 1 /\ parity' = 1 - parity
  /\ Return

Fetch ==
  /\ pc = "loop" /\ "stop" \notin flags
  /\ cycle' = 1 /\ parity' = 1 - parity
  /\ cycles_needed' \in InstrCycles
  /\ next_stage' \in StaleStages
  /\ pc' = "check"
  /\ UNCHANGED <<signalVars, rmwVars, intr_disable, saved_stage>> /\ BusRest

StartDma ==
  /\ pc = "check" /\ "dma" \in flags
  /\ BeginTransfer
  /\ pc' = "dma"
  /\ UNCHANGED <<cycle, cycles_needed, rmwVars, call>>

(* The do loop's condition. *)
Continue == IF next_stage' = "end" THEN "irq" ELSE IF is_in_dma' THEN "dma" ELSE "check"

(* A cycle of the transfer asks a callback for a byte or hands it one: the *)
(* consumer on odd cycles of a copyout, the provider on even ones of a     *)
(* copyin.                                                                 *)
CallsBack == is_dma_started /\ (is_dma_copyout <=> parity = 1)

(* The callback its direction needs is set.  dma_provider is NULL exactly   *)
(* when dma_consumer is not, but between the assignments of the two.        *)
HasCallback ==
  IF is_dma_copyout
    THEN dma_consumer
    ELSE IF call.at = "consumer" THEN ~ call.copyout ELSE ~ dma_consumer

(* A transfer that finds the other direction's parameters calls through a   *)
(* null pointer.                                                            *)
CallsNull ==
  /\ pc = "dma" /\ CallsBack /\ ~ HasCallback
  /\ pc' = "crashed"
  /\ UNCHANGED <<signalVars, rmwVars, intr_disable, parity, cycle, cycles_needed, next_stage,
                 saved_stage>> /\ BusRest

(* The end of a transfer clears dma, and does so twice if a consumer        *)
(* refuses the last byte.                                                   *)
DmaStep ==
  /\ pc = "dma" /\ (CallsBack => HasCallback)
  /\ Masked!DmaCycle
  /\ IF "dma" \in keep'
       THEN pc' = Continue /\ UNCHANGED <<again, after>>
       ELSE /\ pc' = "load" /\ after' = Continue
            /\ again' = (is_dma_copyout /\ dma_refused' /\ dma_range'.addr_lo >= dma_addr_hi)
  /\ UNCHANGED <<flags, seen, cycle, cycles_needed, call>>

ExecCycle ==
  /\ pc = "check" /\ "dma" \notin flags
  /\ cycle' = NextCycle /\ parity' = 1 - parity
  /\ next_stage' = IF cycle' = cycles_needed THEN "end" ELSE "next_cycle"
  /\ intr_disable' \in (IF next_stage' = "end" THEN BOOLEAN ELSE {intr_disable})
  /\ UNCHANGED <<signalVars, rmwVars, saved_stage, cycles_needed>> /\ BusRest
  /\ pc' = Continue

ServiceIrq ==
  /\ pc = "irq" /\ pc' = "nmi"
  /\ intr_disable' = (intr_disable \/ "irq" \in flags)
  /\ owed' = IF "irq" \in flags THEN owed \ {"irq"} ELSE owed
  /\ UNCHANGED <<flags, rmwVars, parity, cycle, cycles_needed, next_stage, saved_stage>>
  /\ BusRest

ServiceNmi ==
  /\ pc = "nmi" /\ pc' = "clear"
  /\ IF "nmi" \in flags
       THEN /\ intr_disable' = TRUE /\ parity' = 1 - parity
            /\ owed' = owed \ {"nmi"}
       ELSE UNCHANGED <<intr_disable, parity, owed>>
  /\ UNCHANGED <<flags, rmwVars, cycle, cycles_needed, next_stage, saved_stage>> /\ BusRest

ClearInterrupts ==
  /\ pc = "clear"
  /\ Clear(Interrupts, "loop")
  /\ UNCHANGED <<owed, intr_disable, parity, cycle, cycles_needed, next_stage, saved_stage>>
  /\ BusRest

CpuStep ==
  \/ Load \/ Store \/ LeaveLoop \/ FetchIllegal \/ Fetch
  \/ StartDma \/ CallsNull \/ DmaStep \/ ExecCycle
  \/ ServiceIrq \/ ServiceNmi \/ ClearInterrupts

Init ==
  /\ BaseInit
  /\ keep = Flags /\ seen = {} /\ again = FALSE /\ after = "idle"
  /\ call = NoCall

Next ==
  \/ Launch
  \/ CpuStep
  \/ \E c \in Clients : ClientEnter(c) \/ EnterReset(c) \/ ClientStep(c)

Spec == Init /\ [][Next]_nolockVars

-----------------------------------------------------------------------------
(* Properties.                                                              *)

TypeOK ==
  /\ flags \subseteq Flags /\ owed \subseteq Signals
  /\ keep \subseteq Flags /\ seen \subseteq Flags /\ again \in BOOLEAN
  /\ lock \in Clients \cup {Free}
  /\ dma_range \in [addr_lo : Addr, addr_len : Addr] /\ dma_consumer \in BOOLEAN
  /\ pc \in Labels /\ after \in Labels /\ parity \in {0, 1}
  /\ next_stage \in Stages /\ saved_stage \in Stages
  /\ dma_addr_hi \in Addr /\ dma_byte_index \in Addr /\ dma_next_byte \in Byte
  /\ dma_asked \in [addr_lo : Addr, addr_len : Addr]
  /\ moved \in Seq(Addr \X Byte)

(* Even with torn requests and lost flags an instruction is not cut short:  *)
(* its function has been called for every cycle or not at all.              *)
AllOrNothing == pc \in {"irq", "nmi", "clear"} => cycle \in {1, cycles_needed}

(* A transfer's own locals keep it whole: however the flags are lost or     *)
(* restored by racing stores, the bus's caches are off exactly while a      *)
(* transfer is in progress.                                                 *)
CacheRestored ==
  \A b \in BOOLEAN : (cache_disable <=> b) => [](cache_disable <=> is_in_dma \/ b)

(* executor.h:210: executor_set_exec_stop is to "signal the executor that   *)
(* it should halt execution", and likewise for IRQ and NMI.  A signal whose *)
(* setter has returned stays raised until the loop has looked at it.        *)
SignalsHeld == pc \notin {"idle", "load", "store", "returned"} => owed \subseteq flags

(* executor.h:220: a transfer into RAM is fed by "a function that           *)
(* progressively supplies the bytes".  The transfer that runs has the       *)
(* callback its direction needs.                                            *)
NeverCallsNull == pc # "crashed"

-----------------------------------------------------------------------------
(* The inductive strengthening of the invariants above.                     *)

(* The locals TypeOK leaves out, which no other thread writes.              *)
LocalsInv ==
  /\ intr_disable \in BOOLEAN /\ cache_disable \in BOOLEAN /\ saved_cache \in BOOLEAN
  /\ is_in_dma \in BOOLEAN /\ is_dma_started \in BOOLEAN /\ is_dma_copyout \in BOOLEAN
  /\ dma_refused \in BOOLEAN
  /\ cycle \in Nat /\ cycles_needed \in Nat

(* What a client has in hand in the middle of its call. *)
CallInv ==
  \/ call = NoCall
  \/ call \in [op : Signals, at : {"store"}, loaded : SUBSET Flags]
  \/ call \in [op : {"reset"}, at : {"reset"}, loaded : SUBSET Flags]
  \/ call \in [op : {"dma"}, at : {"flag", "range", "provider", "consumer"}, loaded : SUBSET Flags,
               range : DmaRanges, copyout : BOOLEAN]

(* A mask is in use only between a load and its store, and then the loop    *)
(* goes on where the clearing of those flags belongs.                       *)
MaskInv ==
  IF pc \in {"load", "store"}
    THEN after \in {"loop", "returned", "irq", "check"}
    ELSE keep = Flags

(* The place in the loop, a clearing of flags counting as where it leads.   *)
Place == IF pc \in {"load", "store"} THEN after ELSE pc

(* An instruction that has begun and not ended.                             *)
InMiddle ==
  IF cycles_needed = Endless THEN cycle \in {1, 2} ELSE cycle \in 1 .. cycles_needed - 1

(* Which stage the instruction is in, wherever next_stage has been put.     *)
StageInv ==
  /\ is_in_dma <=> pc \in {"dma", "crashed"}
  /\ Place \in {"check", "dma"} => InMiddle
  /\ Place = "check" /\ next_stage = "end" => cycle = 1
  /\ Place = "dma" => next_stage = "exec_dma" /\ (saved_stage = "end" => cycle = 1)
  /\ Place \in {"irq", "nmi", "clear"} => cycle \in {1, cycles_needed}

IInv == TypeOK /\ LocalsInv /\ CallInv /\ MaskInv /\ StageInv
=============================================================================
