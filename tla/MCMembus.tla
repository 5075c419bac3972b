------------------------------ MODULE MCMembus ------------------------------
(***************************************************************************)
(* A bus with twelve addresses and pages of two: 64 KiB of RAM below pages *)
(* that overlap each other, a mirror of one of them, a write-only byte, a  *)
(* read-only page over a vector, a word and a mirror of it one address     *)
(* below, watchpoints and an observer.                                     *)
(***************************************************************************)
EXTENDS Membus

D(kind, at, n, mode, of) == [kind |-> kind, at |-> at, n |-> n, mode |-> mode, of |-> of]
MCModule == {"ram", "shadow", "page", "rom", "latch", "word", "mirror", "twin", "watch", "observer"}
MCDecl ==
  [ram      |-> D("std64k", 0, 0, "rw", "ram"),
   shadow   |-> D("std64k", 0, 0, "rw", "shadow"),
   page     |-> D("paged", 1, 2, "rw", "page"),
   rom      |-> D("paged", 5, 3, "ro", "rom"),
   latch    |-> D("byte", 3, 0, "wo", "latch"),
   word     |-> D("word", 4, 0, "rw", "word"),
   mirror   |-> D("mirror", 4, 0, "rw", "page"),
   twin     |-> D("mirror", 3, 0, "rw", "word"),
   watch    |-> D("watchpoints", 3, 4, "wo", "watch"),
   observer |-> D("observer", 0, 0, "rw", "observer")]

MCPreOp == -9
MCPostOp == 9
MCRegistrations ==
  {<<1, "ram">>, <<0, "page">>, <<0, "mirror">>, <<0, "latch">>, <<0, "rom">>, <<1, "word">>, <<1, "watch">>,
   <<0, "observer">>, <<MCPreOp, "observer">>, <<MCPostOp, "shadow">>,
   <<MCPostOp, "twin">>}
MCAccessed == {3, 11}
MCWritten == {1}
MCWords == {<<1, 2>>}
MCFillRanges == {with_lo_and_len(2, 3), with_lo_and_len(9, 4)}
MCContents == {<<2, 1, 2, 1>>}
MCHeld == {"page", "mirror"}
=============================================================================
