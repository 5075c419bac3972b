-------------------------- MODULE MCExecutorStaged --------------------------
(* Small instances of ExecutorStaged for TLC.                               *)
EXTENDS ExecutorStaged

(* With AddrTop = 3: an ordinary range, one that runs up to the last         *)
(* address, and one that starts there and wraps.                            *)
MCDmaRanges == { [addr_lo |-> 1, addr_len |-> 2], [addr_lo |-> 2, addr_len |-> 2],
                 [addr_lo |-> 3, addr_len |-> 1] }

MCOneRange == { [addr_lo |-> 1, addr_len |-> 2] }

MCInstrCycles == {2, 3, Endless}
=============================================================================
