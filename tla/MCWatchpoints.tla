--------------------------- MODULE MCWatchpoints ---------------------------
(***************************************************************************)
(* Three watched addresses, so that a tree has nodes with no, one and two  *)
(* branches, and three callbacks, so that chains have three members.       *)
(***************************************************************************)
EXTENDS Watchpoints

CallbackSymmetry == Permutations(Callbacks)
MCRequests == {{"read"}, {"write", "merge"}}
MCWatchRanges == {with_lo_and_len(1, 2), undef}
=============================================================================
