----------------------------- MODULE AddrRange -----------------------------
(***************************************************************************)
(* memory_addr_range_t: a first address and a length, both 16 bits wide.   *)
(* AddrTop stands for $FFFF.                                               *)
(***************************************************************************)
EXTENDS Integers

CONSTANT AddrTop
ASSUME RangeTopAssumption == AddrTop \in Nat \ {0}

Addr == 0 .. AddrTop
Size == AddrTop + 1
AddrRanges == [addr_lo : Addr, addr_len : Addr]

(* An unsigned 16-bit result of a sum of two 16-bit values, or of such a    *)
(* sum less one.                                                            *)
Wrap(n) == IF n < 0 THEN n + Size ELSE IF n >= Size THEN n - Size ELSE n

undef == [addr_lo |-> 0, addr_len |-> 0]
with_lo_and_len(lo, len) == [addr_lo |-> lo, addr_len |-> len]
with_lo_and_hi(lo, hi) == [addr_lo |-> lo, addr_len |-> Wrap(hi - lo + 1)]

(* The comparison is one of wider integers: a range that passes the end of  *)
(* memory is cut off there.                                                 *)
does_include(r, a) ==
  r.addr_len # 0 /\ a >= r.addr_lo /\ a < r.addr_lo + r.addr_len

-----------------------------------------------------------------------------
(* The last address, in 16 bits. *)
Final(r) == Wrap(r.addr_lo + r.addr_len - 1)
Lesser(a, b) == IF a <= b THEN a ELSE b
Greater(a, b) == IF a <= b THEN b ELSE a

do_intersect(r1, r2) ==
  /\ r1.addr_len # 0 /\ r2.addr_len # 0
  /\ IF r2.addr_lo <= r1.addr_lo THEN Final(r2) >= r1.addr_lo ELSE Final(r1) >= r2.addr_lo

intersection(r1, r2) ==
  IF do_intersect(r1, r2)
    THEN with_lo_and_hi(Greater(r1.addr_lo, r2.addr_lo), Lesser(Final(r1), Final(r2)))
    ELSE undef

union(r1, r2) ==
  IF do_intersect(r1, r2)
    THEN with_lo_and_hi(Lesser(r1.addr_lo, r2.addr_lo), Greater(Final(r1), Final(r2)))
    ELSE undef

-----------------------------------------------------------------------------
(* What the functions are about: sets of addresses. *)
Addrs(r) == {a \in Addr : does_include(r, a)}
Fits(r) == r.addr_lo + r.addr_len <= Size
=============================================================================
