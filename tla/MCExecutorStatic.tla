-------------------------- MODULE MCExecutorStatic --------------------------
(* Small instances of ExecutorStatic for TLC.                               *)
EXTENDS ExecutorStatic

(* With AddrTop = 3: an ordinary range, one that runs up to the last         *)
(* address, one that starts there and wraps, and an empty one.              *)
MCDmaRanges == { [addr_lo |-> 1, addr_len |-> 2], [addr_lo |-> 2, addr_len |-> 2],
                 [addr_lo |-> 3, addr_len |-> 1], [addr_lo |-> 1, addr_len |-> 0] }

MCOneRange == { [addr_lo |-> 1, addr_len |-> 2] }
=============================================================================
