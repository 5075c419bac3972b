-------------------------- MODULE MCExecutorNolock --------------------------
(* Small instances of ExecutorNolock for TLC.                               *)
EXTENDS ExecutorNolock

MCOneRange == { [addr_lo |-> 0, addr_len |-> 2] }

MCInstrCycles == {3, Endless}
=============================================================================
