--------------------------- MODULE SignalService ---------------------------
(***************************************************************************)
(* What executor_set_irq, executor_set_nmi, executor_set_exec_stop and     *)
(* executor_hard_reset promise their callers, with neither state_lock nor  *)
(* the windows of a launch loop in sight: a call takes effect at once, an  *)
(* interrupt stays pending until it is taken between two instructions, and *)
(* neither a new instruction nor the end of the run comes before that.     *)
(* ExecutorStaged and ExecutorStatic implement it.                         *)
(***************************************************************************)

VARIABLES
  running,     \* a launch has been made and has not returned
  inside,      \* an instruction has begun and is not over
  pending,     \* the interrupts raised and not taken yet
  stopping,    \* a stop has been asked for
  masked       \* bit I of SR

service == <<running, inside, pending, stopping, masked>>

Init ==
  /\ running = FALSE /\ inside = FALSE
  /\ pending = {} /\ stopping = FALSE
  /\ masked = FALSE

(* A launch forgets what was raised before it. *)
Launch ==
  /\ ~ running /\ running' = TRUE
  /\ pending' = {} /\ stopping' = FALSE
  /\ UNCHANGED <<inside, masked>>

(* The callers' side: at any moment, also in the middle of an instruction. *)
Raise(interrupt) ==
  /\ pending' = pending \cup {interrupt}
  /\ UNCHANGED <<running, inside, stopping, masked>>

AskStop ==
  /\ stopping' = TRUE
  /\ UNCHANGED <<running, inside, pending, masked>>

Reset ==
  /\ pending' = {} /\ stopping' = FALSE /\ masked' = FALSE
  /\ UNCHANGED <<running, inside>>

(* No instruction begins before every interrupt raised has been taken, nor *)
(* after a stop has been seen.                                             *)
Begin ==
  /\ running /\ ~ inside /\ inside' = TRUE
  /\ pending = {} /\ ~ stopping
  /\ UNCHANGED <<running, pending, stopping, masked>>

Finish ==
  /\ inside /\ inside' = FALSE
  /\ masked' \in BOOLEAN
  /\ UNCHANGED <<running, pending, stopping>>

(* An interrupt is taken between instructions, the IRQ first.  Either way  *)
(* I is set afterwards: by the handler, or already when an IRQ is found    *)
(* masked and dropped.                                                     *)
Take(interrupt) ==
  /\ running /\ ~ inside
  /\ interrupt \in pending
  /\ interrupt = "nmi" => "irq" \notin pending
  /\ pending' = pending \ {interrupt}
  /\ masked' = TRUE
  /\ UNCHANGED <<running, inside, stopping>>

(* The run ends between instructions and owes no interrupt. *)
Return ==
  /\ running /\ running' = FALSE
  /\ ~ inside /\ pending = {}
  /\ stopping' = FALSE
  /\ UNCHANGED <<inside, pending, masked>>

Next ==
  \/ Launch \/ Begin \/ Finish \/ Return
  \/ \E interrupt \in {"irq", "nmi"} : Raise(interrupt) \/ Take(interrupt)
  \/ AskStop \/ Reset

Spec == Init /\ [][Next]_service
=============================================================================
