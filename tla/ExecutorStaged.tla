--------------------------- MODULE ExecutorStaged ---------------------------
(***************************************************************************)
(* __executor_launch_staged (executor.c): the loop that calls an opcode's  *)
(* function once per clock cycle, holding state_lock except in two         *)
(* windows, before every cycle and before interrupts are looked at, in     *)
(* which other threads' executor_set_* calls get through.                  *)
(* __executor_launch_staged_verbose is the same loop with progress         *)
(* callbacks between its statements.                                       *)
(***************************************************************************)
EXTENDS ExecutorBase

CONSTANTS
  InstrCycles,   \* the cycle counts of the instruction set, Endless among them
  StaleStages    \* values the uninitialised next_stage may hold

ASSUME InstrCyclesAssumption == InstrCycles \subseteq Nat \ {1}
ASSUME StaleStagesAssumption == StaleStages \subseteq {"next_cycle", "end"}

(* Where the launching thread is.  It holds state_lock everywhere but in   *)
(* "idle", "window" and "intr_window".                                     *)
Unlocked == {"idle", "window", "intr_window"}
Labels == Unlocked \cup {"loop", "top", "check", "dma", "boundary", "irq", "nmi", "clear",
                         "returned"}

BusRest == UNCHANGED <<requestVars, cache_disable, transferVars, calls>>

(* Take the lock, drop the signals raised so far and load the PC.  After a *)
(* launch has returned, a second one comes back here.                      *)
Launch ==
  /\ pc \in {"idle", "returned"} /\ lock = Free
  /\ lock' = Cpu
  /\ flags' = {} /\ owed' = {}
  /\ parity' = 0
  /\ pc' = "loop"
  /\ UNCHANGED <<cycle, cycles_needed, intr_disable, next_stage, saved_stage>> /\ BusRest

Return ==
  /\ flags' = flags \ {"stop"}
  /\ pc' = "returned"
  /\ UNCHANGED <<owed, lock, intr_disable, next_stage, saved_stage, cycles_needed>> /\ BusRest

(* The while condition is false: told to stop, or PC has reached PC_end.   *)
LeaveLoop ==
  /\ pc = "loop"
  /\ Return
  /\ UNCHANGED <<parity, cycle>>

(* An opcode the table leaves undefined is fetched and ends the run. *)
FetchIllegal ==
  /\ pc = "loop" /\ "stop" \notin flags
  /\ cycle' = 1 /\ parity' = 1 - parity
  /\ Return

(* Mutant: the loop's condition forgets the stop flag. *)
Bug_Fetch ==
  /\ pc = "loop"
  /\ cycle' = 1 /\ parity' = 1 - parity
  /\ cycles_needed' \in InstrCycles
  /\ next_stage' \in StaleStages
  /\ pc' = "top"
  /\ UNCHANGED <<signalVars, lock, intr_disable, saved_stage>> /\ BusRest

(* next_stage is declared in the loop's body without an initialiser. *)
Fetch ==
  /\ pc = "loop" /\ "stop" \notin flags
  /\ cycle' = 1 /\ parity' = 1 - parity
  /\ cycles_needed' \in InstrCycles
  /\ next_stage' \in StaleStages
  /\ pc' = "top"
  /\ UNCHANGED <<signalVars, lock, intr_disable, saved_stage>> /\ BusRest

(* pthread_mutex_unlock and, when the lock can be had again, _lock. *)
Unlock(from, to) ==
  /\ pc = from /\ pc' = to
  /\ lock' = Free
  /\ UNCHANGED <<signalVars, intr_disable, parity, cycle, cycles_needed, next_stage,
                 saved_stage>> /\ BusRest

Relock(from, to) ==
  /\ pc = from /\ pc' = to
  /\ lock = Free /\ lock' = Cpu
  /\ UNCHANGED <<signalVars, intr_disable, parity, cycle, cycles_needed, next_stage,
                 saved_stage>> /\ BusRest

OpenWindow  == Unlock("top", "window")
CloseWindow == Relock("window", "check")

StartDma ==
  /\ pc = "check" /\ "dma" \in flags
  /\ BeginTransfer
  /\ pc' = "dma"
  /\ UNCHANGED <<cycle, cycles_needed>>

(* The do loop's condition. *)
NextIteration ==
  pc' = IF next_stage' = "end" THEN "boundary" ELSE IF is_in_dma' THEN "dma" ELSE "top"

DmaStep ==
  /\ pc = "dma"
  /\ DmaCycle
  /\ NextIteration
  /\ UNCHANGED <<cycle, cycles_needed>>

(* One call of the opcode's staged function, which an endless one never     *)
(* answers with end; in its last cycle the instruction may have changed bit *)
(* I (SEI, CLI, PLP, RTI, BRK).                                             *)
ExecCycle ==
  /\ pc = "check" /\ "dma" \notin flags
  /\ cycle' = NextCycle /\ parity' = 1 - parity
  /\ next_stage' = IF cycle' = cycles_needed THEN "end" ELSE "next_cycle"
  /\ intr_disable' \in (IF next_stage' = "end" THEN BOOLEAN ELSE {intr_disable})
  /\ UNCHANGED <<signalVars, lock, saved_stage, cycles_needed>> /\ BusRest
  /\ NextIteration

OpenIntrWindow  == Unlock("boundary", "intr_window")
CloseIntrWindow == Relock("intr_window", "irq")

(* ISA->irq pushes PC and SR and sets I in three calls; the fourth call    *)
(* finds I set and returns end, so total_cycles grows by four.             *)
ServiceIrq ==
  /\ pc = "irq" /\ pc' = "nmi"
  /\ IF "irq" \in flags /\ ~ intr_disable
       THEN intr_disable' = TRUE
       ELSE UNCHANGED intr_disable
  /\ owed' = IF "irq" \in flags THEN owed \ {"irq"} ELSE owed
  /\ UNCHANGED <<flags, lock, parity, cycle, cycles_needed, next_stage, saved_stage>>
  /\ BusRest

(* Mutant: the lock is let go between the check and the clearing. *)
Bug_ServiceNmi_Unlocks ==
  /\ pc = "nmi" /\ pc' = "clear"
  /\ IF "nmi" \in flags
       THEN /\ intr_disable' = TRUE /\ parity' = 1 - parity
            /\ owed' = owed \ {"nmi"}
       ELSE UNCHANGED <<intr_disable, parity, owed>>
  /\ lock' = Free
  /\ UNCHANGED <<flags, cycle, cycles_needed, next_stage, saved_stage>> /\ BusRest

(* Mutant: I masks an NMI as it does an IRQ. *)
Bug_ServiceNmi_Masked ==
  /\ pc = "nmi" /\ pc' = "clear"
  /\ IF "nmi" \in flags /\ ~ intr_disable
       THEN /\ intr_disable' = TRUE /\ parity' = 1 - parity
            /\ owed' = owed \ {"nmi"}
       ELSE UNCHANGED <<intr_disable, parity, owed>>
  /\ UNCHANGED <<flags, lock, cycle, cycles_needed, next_stage, saved_stage>> /\ BusRest

(* ISA->nmi takes five calls and leaves I set. *)
ServiceNmi ==
  /\ pc = "nmi" /\ pc' = "clear"
  /\ IF "nmi" \in flags
       THEN /\ intr_disable' = TRUE /\ parity' = 1 - parity
            /\ owed' = owed \ {"nmi"}
       ELSE UNCHANGED <<intr_disable, parity, owed>>
  /\ UNCHANGED <<flags, lock, cycle, cycles_needed, next_stage, saved_stage>> /\ BusRest

(* Both flags are dropped, an IRQ that I masked included. *)
ClearInterrupts ==
  /\ pc = "clear" /\ pc' = "loop"
  /\ flags' = flags \ Interrupts
  /\ UNCHANGED <<owed, lock, intr_disable, parity, cycle, cycles_needed, next_stage,
                 saved_stage>> /\ BusRest

CpuStep ==
  \/ LeaveLoop \/ FetchIllegal \/ Fetch
  \/ OpenWindow \/ CloseWindow \/ StartDma \/ DmaStep \/ ExecCycle
  \/ OpenIntrWindow \/ CloseIntrWindow \/ ServiceIrq \/ ServiceNmi \/ ClearInterrupts

Init == BaseInit

Next ==
  \/ Launch
  \/ CpuStep
  \/ \E c \in Clients : ClientLock(c) \/ ClientCall(c)

(* A launched executor keeps running, and a thread inside an executor_set_* *)
(* call finishes it.  Nothing says that a client ever makes another call.   *)
Fairness ==
  /\ WF_vars(CpuStep)
  /\ \A c \in Clients : WF_vars(ClientCall(c))

Spec == Init /\ [][Next]_vars
FairSpec == Spec /\ Fairness

-----------------------------------------------------------------------------
(* Properties.                                                              *)

TypeOK ==
  /\ flags \subseteq Flags /\ owed \subseteq Interrupts
  /\ lock \in Clients \cup {Cpu, Free}
  /\ dma_range \in [addr_lo : Addr, addr_len : Addr] /\ dma_consumer \in BOOLEAN
  /\ intr_disable \in BOOLEAN /\ cache_disable \in BOOLEAN
  /\ pc \in Labels /\ parity \in {0, 1} /\ cycle \in Nat /\ cycles_needed \in Nat
  /\ next_stage \in Stages /\ saved_stage \in Stages
  /\ is_in_dma \in BOOLEAN /\ is_dma_started \in BOOLEAN /\ is_dma_copyout \in BOOLEAN
  /\ saved_cache \in BOOLEAN /\ dma_refused \in BOOLEAN
  /\ dma_addr_hi \in Addr /\ dma_byte_index \in Addr /\ dma_next_byte \in Byte
  /\ dma_asked \in [addr_lo : Addr, addr_len : Addr]
  /\ moved \in Seq(Addr \X Byte)
  /\ calls \in Nat

(* An NMI or IRQ raised during a run keeps its flag until it has been       *)
(* served, found masked, or dropped by a reset or a new launch: clearing    *)
(* both flags at the end of the interrupt check never wipes out one that    *)
(* came in after the check (executor.c 534-561).                            *)
SignalsHeld == owed \subseteq flags

(* When the loop turns to interrupts, the opcode's function has been called *)
(* for every cycle or not at all; a transfer never cuts it short half-way.  *)
AllOrNothing ==
  pc \in {"boundary", "intr_window", "irq"} => cycle \in {1, cycles_needed}

(* isa_6502.h:160: in staged mode each clock cycle is a distinct call, "a 4 *)
(* cycle instruction will require 3 function calls to complete".            *)
EveryCycleRuns ==
  pc \in {"boundary", "intr_window", "irq"} => cycle = cycles_needed

(* The ranges whose end fits below $FFFF.                                   *)
Proper(range) == range.addr_len > 0 /\ range.addr_lo + range.addr_len <= AddrTop

(* What a transfer of a range should have moved as its i-th byte.           *)
ExpectedMove(i) ==
  IF is_dma_copyout
    THEN <<i - 1, [origin |-> "memory", at |-> dma_asked.addr_lo + i - 1]>>
    ELSE <<dma_asked.addr_lo + i - 1, [origin |-> "provider", at |-> i - 1]>>

(* The alternating read and write cycles move the bytes of the range in     *)
(* order, each once, each to where it belongs, and nothing beyond it.       *)
DmaFaithful ==
  Proper(dma_asked) =>
    /\ Len(moved) <= dma_asked.addr_len
    /\ \A i \in 1 .. Len(moved) : moved[i] = ExpectedMove(i)

(* A transfer nobody refuses ends only when its whole range has moved.      *)
EndsWhole ==
  is_in_dma /\ ~ is_in_dma' /\ ~ dma_refused' /\ Proper(dma_asked)
    => Len(moved') = dma_asked.addr_len
DmaWhole == [][EndsWhole]_vars

(* The bus's caches are off while a transfer runs, and however it ends they *)
(* are afterwards as they were before the first launch.                     *)
CacheRestored ==
  \A b \in BOOLEAN : (cache_disable <=> b) => [](cache_disable <=> is_in_dma \/ b)

(* CMakeLists.txt:15: "Executor is thread-safe".  A launch that has         *)
(* returned does not keep state_lock from the other threads.                *)
LaunchReleasesLock == pc = "returned" => lock # Cpu

Running == pc \notin {"idle", "returned"}

InInstruction == pc \in {"top", "window", "check", "dma"}

(* The program has come upon an opcode whose function never returns end:    *)
(* the do loop is not left again, and the flags not looked at.              *)
InEndless == InInstruction /\ cycles_needed = Endless

(* executor_set_exec_stop: the run ends, whatever the other threads do and  *)
(* a transfer in progress, unless the program hangs in an endless opcode.   *)
StopEndsRun ==
  \/ (Running /\ "stop" \in flags) ~> (pc = "returned" \/ "stop" \notin flags)
  \/ <>[]InEndless

(* executor_set_nmi: an NMI raised during a run is taken before it ends,    *)
(* with the same exception.                                                 *)
NmiTaken ==
  \/ (Running /\ "nmi" \in owed) ~> ("nmi" \notin owed)
  \/ <>[]InEndless

(* Violated.  executor.h:210: executor_set_exec_stop is to "signal the      *)
(* executor that it should halt execution", whatever the program.           *)
StopAlwaysEndsRun == (Running /\ "stop" \in flags) ~> (pc = "returned" \/ "stop" \notin flags)

(* A request for a transfer is over before the run ends, or waits at its    *)
(* end when it came after the last instruction's last cycle.                *)
DmaDrains == (Running /\ "dma" \in flags) ~> ("dma" \notin flags \/ pc = "returned")

-----------------------------------------------------------------------------
(* The abstract services this loop implements.                              *)

Signals == INSTANCE SignalService
  WITH running  <- Running,
       inside   <- InInstruction,
       pending  <- owed,
       stopping <- "stop" \in flags,
       masked   <- intr_disable

(* With state_lock, its two windows and the labels of the loop hidden, the  *)
(* calls of other threads act at once, every interrupt raised during a run  *)
(* is taken between two instructions before another one begins or the run   *)
(* ends, and nothing begins once a stop has been seen.                      *)
ServesSignals == Signals!Spec

(* The request under way, as it was when the transfer began. *)
Asked == [range |-> dma_asked, copyout |-> is_dma_copyout]

Requests ==
  IF is_in_dma
    THEN {Asked}
    ELSE IF "dma" \in flags
           THEN {[range |-> dma_range, copyout |-> dma_consumer]}
           ELSE {}

(* The instruction in progress, until the loop turns to interrupts. *)
InProgress ==
  IF InInstruction \/ pc = "boundary"
    THEN [ran |-> cycle, needed |-> cycles_needed]
    ELSE [ran |-> 0, needed |-> 0]

Transfers == INSTANCE TransferService
  WITH instr    <- InProgress,
       requests <- Requests,
       busy     <- is_in_dma

(* With stalls, reads and writes hidden, a request accepted is carried out  *)
(* before the instruction's next cycle as the caller gave it, whatever its  *)
(* range, byte after byte to the end of the range or a refusal, and the     *)
(* instruction it interrupts runs on or is dropped at its fetch.            *)
ServesTransfers == Transfers!Spec

-----------------------------------------------------------------------------
(* The inductive strengthening of the invariants above.                     *)

(* state_lock is the launching thread's except in the two windows. *)
LockInv == (lock = Cpu) <=> (pc \notin Unlocked)

(* A signal's flag and what is owed say the same, except while the loop is  *)
(* at its interrupt check, where what has been served or masked is owed no  *)
(* more and still has its flag; nothing is owed when the loop comes round.  *)
SignalInv ==
  /\ pc \notin {"nmi", "clear"} => owed = flags \cap Interrupts
  /\ pc = "nmi" => owed = (flags \cap Interrupts) \ {"irq"}
  /\ pc \in {"clear", "loop"} => owed = {}

(* An instruction that has begun and not ended. *)
InMiddle ==
  IF cycles_needed = Endless THEN cycle \in {1, 2} ELSE cycle \in 1 .. cycles_needed - 1

(* Which stage the instruction is in, wherever next_stage has been put. *)
StageInv ==
  /\ is_in_dma <=> pc = "dma"
  /\ InInstruction => InMiddle
  /\ pc \in {"top", "window", "check"} /\ next_stage = "end" => cycle = 1
  /\ pc = "dma" => next_stage = "exec_dma" /\ (saved_stage = "end" => cycle = 1)
  /\ AllOrNothing

(* How far the transfer has come, of whatever range: n bytes moved, and on  *)
(* an odd cycle one more on its way.                                        *)
TransferInv ==
  /\ Len(moved) <= Transfers!Span(dma_asked)
  /\ \A i \in 1 .. Len(moved) : moved[i] = Transfers!MoveOf(Asked, i - 1)
  /\ is_in_dma =>
       LET n == Len(moved)
           at == Transfers!AddrAt(dma_asked, n)
       IN /\ dma_addr_hi = get_end(dma_asked)
          /\ n < Transfers!Span(dma_asked)
          /\ is_dma_started \/ (parity = 1 /\ n = 0)
          /\ ~ is_dma_started \/ parity = 0 =>
               dma_byte_index = n /\ dma_range.addr_lo = at
          /\ is_dma_started /\ parity = 1 =>
               IF is_dma_copyout
                 THEN /\ dma_byte_index = n /\ dma_range.addr_lo = NextAddr(at)
                      /\ dma_next_byte = [origin |-> "memory", at |-> at]
                 ELSE /\ dma_byte_index = NextAddr(n) /\ dma_range.addr_lo = at
                      /\ dma_next_byte = [origin |-> "provider", at |-> n]

IInv == TypeOK /\ LockInv /\ SignalInv /\ StageInv /\ TransferInv
=============================================================================
