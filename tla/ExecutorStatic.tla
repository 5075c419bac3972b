--------------------------- MODULE ExecutorStatic ---------------------------
(***************************************************************************)
(* __executor_launch_static (executor.c): the loop that executes each      *)
(* instruction in a single call.  One cycle of a transfer is done per      *)
(* iteration, after the opcode that iteration fetched, so that a transfer  *)
(* and the fetches share the cycles whose parity decides between reading   *)
(* and writing.  __executor_launch_static_verbose is the same loop with    *)
(* progress callbacks between its statements.                              *)
(*                                                                         *)
(* cycle and cycles_needed of the staged loop are not used.                *)
(***************************************************************************)
EXTENDS ExecutorBase

VARIABLE disturbed    \* history: the executor was reset during the last transfer

staticVars == <<vars, disturbed>>

Unlocked == {"idle", "window", "intr_window"}
Labels == Unlocked \cup {"loop", "top", "check", "dma", "boundary", "irq", "nmi", "clear",
                         "returned"}

StageRest == UNCHANGED <<cycle, cycles_needed, next_stage, saved_stage>>
LoopRest == UNCHANGED <<requestVars, cache_disable, transferVars, calls>> /\ StageRest

Launch ==
  /\ pc \in {"idle", "returned"} /\ lock = Free
  /\ lock' = Cpu
  /\ flags' = {} /\ owed' = {}
  /\ parity' = 0
  /\ pc' = "loop"
  /\ is_in_dma' = FALSE
  /\ UNCHANGED <<intr_disable, disturbed, requestVars, cache_disable, calls,
                 is_dma_started, is_dma_copyout, saved_cache, dma_addr_hi, dma_byte_index,
                 dma_next_byte, moved, dma_asked, dma_refused>>
  /\ StageRest

Return ==
  /\ flags' = flags \ {"stop"}
  /\ pc' = "returned"
  /\ UNCHANGED <<owed, lock, intr_disable, disturbed>> /\ LoopRest

(* The while condition is tested on every instruction and therefore in the *)
(* middle of a transfer too.                                               *)
LeaveLoop ==
  /\ pc = "loop"
  /\ Return
  /\ UNCHANGED parity

FetchIllegal ==
  /\ pc = "loop" /\ "stop" \notin flags
  /\ parity' = 1 - parity
  /\ Return

(* Mutant: the loop's condition forgets the stop flag. *)
Bug_Fetch ==
  /\ pc = "loop"
  /\ parity' = 1 - parity
  /\ pc' = IF is_in_dma THEN "dma" ELSE "top"
  /\ UNCHANGED <<signalVars, lock, intr_disable, disturbed>> /\ LoopRest

(* An opcode fetched during a transfer is dropped, PC already past it. *)
Fetch ==
  /\ pc = "loop" /\ "stop" \notin flags
  /\ parity' = 1 - parity
  /\ pc' = IF is_in_dma THEN "dma" ELSE "top"
  /\ UNCHANGED <<signalVars, lock, intr_disable, disturbed>> /\ LoopRest

Unlock(from, to) ==
  /\ pc = from /\ pc' = to
  /\ lock' = Free
  /\ UNCHANGED <<signalVars, intr_disable, parity, disturbed>> /\ LoopRest

Relock(from, to) ==
  /\ pc = from /\ pc' = to
  /\ lock = Free /\ lock' = Cpu
  /\ UNCHANGED <<signalVars, intr_disable, parity, disturbed>> /\ LoopRest

OpenWindow  == Unlock("top", "window")
CloseWindow == Relock("window", "check")

(* The opcode just fetched is dropped in favour of the transfer. *)
StartDma ==
  /\ pc = "check" /\ "dma" \in flags
  /\ BeginTransfer
  /\ pc' = "dma"
  /\ disturbed' = FALSE
  /\ UNCHANGED <<cycle, cycles_needed>>

DmaStep ==
  /\ pc = "dma"
  /\ DmaCycle
  /\ pc' = "boundary"
  /\ UNCHANGED <<cycle, cycles_needed, disturbed>>

(* The opcode's static function runs to its end; cycle_count, with the      *)
(* fetch counted once more, is added to total_cycles.                       *)
Execute ==
  /\ pc = "check" /\ "dma" \notin flags
  /\ pc' = "boundary"
  /\ parity' \in {0, 1}
  /\ intr_disable' \in BOOLEAN
  /\ UNCHANGED <<signalVars, lock, disturbed>> /\ LoopRest

OpenIntrWindow  == Unlock("boundary", "intr_window")
CloseIntrWindow == Relock("intr_window", "irq")

(* The same handlers as in the staged loop: four calls for an IRQ, five     *)
(* for an NMI.                                                              *)
ServiceIrq ==
  /\ pc = "irq" /\ pc' = "nmi"
  /\ intr_disable' = (intr_disable \/ "irq" \in flags)
  /\ owed' = owed \ {"irq"}
  /\ UNCHANGED <<flags, lock, parity, disturbed>> /\ LoopRest

(* Mutant: the lock is let go between the check and the clearing. *)
Bug_ServiceNmi_Unlocks ==
  /\ pc = "nmi" /\ pc' = "clear"
  /\ IF "nmi" \in flags
       THEN /\ intr_disable' = TRUE /\ parity' = 1 - parity
            /\ owed' = owed \ {"nmi"}
       ELSE UNCHANGED <<intr_disable, parity, owed>>
  /\ lock' = Free
  /\ UNCHANGED <<flags, disturbed>> /\ LoopRest

(* Mutant: I masks an NMI as it does an IRQ. *)
Bug_ServiceNmi_Masked ==
  /\ pc = "nmi" /\ pc' = "clear"
  /\ IF "nmi" \in flags /\ ~ intr_disable
       THEN /\ intr_disable' = TRUE /\ parity' = 1 - parity
            /\ owed' = owed \ {"nmi"}
       ELSE UNCHANGED <<intr_disable, parity, owed>>
  /\ UNCHANGED <<flags, lock, disturbed>> /\ LoopRest

ServiceNmi ==
  /\ pc = "nmi" /\ pc' = "clear"
  /\ IF "nmi" \in flags
       THEN /\ intr_disable' = TRUE /\ parity' = 1 - parity
            /\ owed' = owed \ {"nmi"}
       ELSE UNCHANGED <<intr_disable, parity, owed>>
  /\ UNCHANGED <<flags, lock, disturbed>> /\ LoopRest

ClearInterrupts ==
  /\ pc = "clear" /\ pc' = "loop"
  /\ flags' = flags \ Interrupts
  /\ UNCHANGED <<owed, lock, intr_disable, parity, disturbed>> /\ LoopRest

CpuStep ==
  \/ LeaveLoop \/ FetchIllegal \/ Fetch
  \/ OpenWindow \/ CloseWindow \/ StartDma \/ DmaStep \/ Execute
  \/ OpenIntrWindow \/ CloseIntrWindow \/ ServiceIrq \/ ServiceNmi \/ ClearInterrupts

(* A call of another thread; a reset is noted when a transfer is going on. *)
ClientStep(c) ==
  /\ ClientCall(c)
  /\ disturbed' = (disturbed \/ (is_in_dma /\ "dma" \notin flags'))

Init == BaseInit /\ disturbed = FALSE

Next ==
  \/ Launch
  \/ CpuStep
  \/ \E c \in Clients : (ClientLock(c) /\ UNCHANGED disturbed) \/ ClientStep(c)

(* As in the staged loop: the thread that launched keeps running, and one  *)
(* inside an executor_set_* call finishes it.                              *)
Fairness ==
  /\ WF_staticVars(CpuStep)
  /\ \A c \in Clients : WF_staticVars(ClientStep(c))

Spec == Init /\ [][Next]_staticVars
FairSpec == Spec /\ Fairness

-----------------------------------------------------------------------------
(* Properties.                                                              *)

TypeOK ==
  /\ flags \subseteq Flags /\ owed \subseteq Interrupts
  /\ lock \in Clients \cup {Cpu, Free}
  /\ dma_range \in [addr_lo : Addr, addr_len : Addr] /\ dma_consumer \in BOOLEAN
  /\ intr_disable \in BOOLEAN /\ cache_disable \in BOOLEAN
  /\ pc \in Labels /\ parity \in {0, 1} /\ cycle = 0 /\ cycles_needed = 0
  /\ next_stage \in Stages /\ saved_stage \in Stages
  /\ is_in_dma \in BOOLEAN /\ is_dma_started \in BOOLEAN /\ is_dma_copyout \in BOOLEAN
  /\ saved_cache \in BOOLEAN /\ dma_refused \in BOOLEAN
  /\ dma_addr_hi \in Addr /\ dma_byte_index \in Addr /\ dma_next_byte \in Byte
  /\ dma_asked \in [addr_lo : Addr, addr_len : Addr]
  /\ moved \in Seq(Addr \X Byte)
  /\ calls \in Nat
  /\ disturbed \in BOOLEAN

(* Interrupts raised in the middle of a transfer, when the loop still comes *)
(* to its interrupt check, are not wiped out unseen either.                 *)
SignalsHeld == owed \subseteq flags

Running == pc \notin {"idle", "returned"}

(* The ranges whose end fits below $FFFF.                                   *)
Proper(range) == range.addr_len > 0 /\ range.addr_lo + range.addr_len <= AddrTop

(* The lock is let go in every iteration, so other threads' calls fall into *)
(* the middle of a transfer.  None of them but a reset can redirect it: a   *)
(* transfer into memory stores to consecutive cells of the range that was   *)
(* asked for, to each once and to none beyond it.                           *)
StoresInRange ==
  Proper(dma_asked) /\ ~ is_dma_copyout /\ ~ disturbed =>
    /\ Len(moved) <= dma_asked.addr_len
    /\ \A i \in 1 .. Len(moved) : moved[i][1] = dma_asked.addr_lo + i - 1

(* executor.h:220: the provider "progressively supplies the bytes to write  *)
(* into RAM".  No byte is stored, or handed to a consumer, that neither a   *)
(* provider nor memory supplied.                                            *)
BytesSupplied == \A i \in 1 .. Len(moved) : moved[i][2] # Unset

(* The bus's caches are off exactly while a transfer is in progress, in     *)
(* every state of a run, though interrupts are served during a transfer     *)
(* and the loop may leave in the middle of one.                             *)
CacheRestored ==
  \A b \in BOOLEAN : (cache_disable <=> b) => [](cache_disable <=> is_in_dma \/ b)

(* executor_set_exec_stop: the run ends, a transfer in progress or not.     *)
StopEndsRun == (Running /\ "stop" \in flags) ~> (pc = "returned" \/ "stop" \notin flags)

(* executor_set_nmi: an NMI raised during a run is taken before it ends,    *)
(* also while a transfer is in progress.                                    *)
NmiTaken == (Running /\ "nmi" \in owed) ~> ("nmi" \notin owed)

-----------------------------------------------------------------------------
(* The abstract service this loop implements.                               *)

InInstruction == pc \in {"top", "window", "check", "dma"}

Signals == INSTANCE SignalService
  WITH running  <- Running,
       inside   <- InInstruction,
       pending  <- owed,
       stopping <- "stop" \in flags,
       masked   <- intr_disable

(* One pass of the loop, whether it executes the opcode it fetched or drops *)
(* it for a cycle of a transfer, is an instruction to the callers: their    *)
(* calls act at once, and every interrupt raised during a run is taken      *)
(* between two passes before another one begins or the run ends.            *)
ServesSignals == Signals!Spec

-----------------------------------------------------------------------------
(* The inductive strengthening of the invariants above.                     *)

(* state_lock is the launching thread's except in the two windows. *)
LockInv == (lock = Cpu) <=> (pc \notin Unlocked)

(* A signal's flag and what is owed say the same, except while the loop is  *)
(* at its interrupt check, where what has been served or masked is owed no  *)
(* more and still has its flag; nothing is owed when the loop comes round.  *)
SignalInv ==
  /\ pc \notin {"nmi", "clear"} => owed = flags \cap Interrupts
  /\ pc = "nmi" => owed = (flags \cap Interrupts) \ {"irq"}
  /\ pc \in {"clear", "loop"} => owed = {}

(* Where in the loop a transfer can be in progress: not before the request  *)
(* is looked for, and always where its cycle is done.                       *)
PlaceInv ==
  /\ pc \in {"idle", "top", "window", "check"} => ~ is_in_dma
  /\ pc = "dma" => is_in_dma

(* While a transfer is in progress its flag keeps later requests away, and  *)
(* what the loop keeps of a transfer into memory agrees with the request.   *)
TransferInv ==
  /\ StoresInRange
  /\ is_in_dma /\ ~ disturbed => "dma" \in flags
  /\ is_in_dma /\ ~ disturbed /\ ~ is_dma_copyout /\ Proper(dma_asked) =>
       /\ dma_addr_hi = dma_asked.addr_lo + dma_asked.addr_len
       /\ Len(moved) < dma_asked.addr_len
       /\ dma_range.addr_lo = dma_asked.addr_lo + Len(moved)

IInv == TypeOK /\ LockInv /\ SignalInv /\ PlaceInv /\ TransferInv
=============================================================================
