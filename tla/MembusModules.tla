--------------------------- MODULE MembusModules ---------------------------
(***************************************************************************)
(* The modules a memory bus is put together from: RAM of 64 KiB, pages, a  *)
(* byte, a word, a mirror of another module, a set of watchpoints, and an  *)
(* observer, a module of the program's own that only looks on.             *)
(***************************************************************************)
EXTENDS AddrRange, FiniteSets

CONSTANTS Module,      \* the modules of a program
          Decl,        \* what each was allocated with
          PageSize     \* 256 in the code

Kinds == {"std64k", "paged", "byte", "word", "mirror", "watchpoints", "observer"}
Modes == {"rw", "ro", "wo"}
Pages == Size \div PageSize

(* at is the address, the first page, or nothing; n is the number of pages  *)
(* or addresses asked for; of is the original of a mirror, which is no mirror itself.    *)
ASSUME DeclAssumption ==
  /\ Decl \in [Module -> [kind : Kinds, at : Addr, n : Addr, mode : Modes, of : Module]]
  /\ \A m \in Module : Decl[m].kind = "mirror" => Decl[Decl[m].of].kind # "mirror"
  /\ \A m \in Module : Decl[m].kind = "paged" => Decl[m].at < Pages /\ Decl[m].n \in 1 .. Pages - 1
ASSUME PageAssumption == PageSize \in 1 .. Size /\ Pages * PageSize = Size

Kind(m) == Decl[m].kind

(* The range of a module that is no mirror. *)
OwnSpan(m) ==
  CASE Kind(m) \in {"std64k", "observer"} -> with_lo_and_len(0, AddrTop)
    [] Kind(m) = "watchpoints" ->
         IF Decl[m].n = 0 THEN with_lo_and_len(0, AddrTop) ELSE with_lo_and_len(Decl[m].at, Decl[m].n)
    [] Kind(m) = "paged" ->
         LET n_pages == IF Decl[m].at + Decl[m].n > Pages THEN Pages - Decl[m].at ELSE Decl[m].n
         IN  with_lo_and_len(Decl[m].at * PageSize, n_pages * PageSize)
    [] Kind(m) = "byte" -> with_lo_and_len(Decl[m].at, 1)
    [] Kind(m) = "word" -> with_lo_and_len(Decl[m].at, 2)

(* A mirror that would pass the end of memory is not allocated. *)
MirrorEnd(m) == Decl[m].at + OwnSpan(Decl[m].of).addr_len - 1
Allocated == {m \in Module : Kind(m) = "mirror" => MirrorEnd(m) <= AddrTop}
Span(m) ==
  IF Kind(m) = "mirror" THEN with_lo_and_hi(Decl[m].at, MirrorEnd(m)) ELSE OwnSpan(m)
Spans == [m \in Allocated |-> Span(m)]
Lo(m) == Spans[m].addr_lo
Covers(m, a) == does_include(Spans[m], a)

(* Whose bytes an access through m means, and which of them. *)
Target(m) == IF Kind(m) = "mirror" THEN Decl[m].of ELSE m
Offset(m, a) ==
  IF Kind(Target(m)) = "std64k" THEN a - Lo(m) + Lo(Target(m)) ELSE a - Lo(m)

Stores(m) == Kind(m) \in {"std64k", "paged", "byte", "word"}
Offsets(m) == IF Kind(m) = "std64k" THEN Addr ELSE 0 .. OwnSpan(m).addr_len - 1
Cells == UNION {{m} \X Offsets(m) : m \in {x \in Module : Stores(x)}}
Cell(m, a) == <<Target(m), Offset(m, a)>>

(* What malloc leaves behind; the values a byte and a word start with.      *)
Uninitialised == -1
FirstByte(c) ==
  CASE Kind(c[1]) = "byte" -> 202
    [] Kind(c[1]) = "word" -> IF c[2] = 0 THEN 206 ELSE 250
    [] OTHER -> Uninitialised

(* What the callbacks return.  The 64 KiB of RAM have no mode.              *)
ReadResult(m) ==
  LET t == Target(m) IN
  IF Kind(t) = "observer" THEN "observed"
  ELSE IF Kind(t) # "std64k" /\ Decl[t].mode = "wo" THEN "not_accepted" ELSE "accepted"
WriteResult(m) ==
  LET t == Target(m) IN
  IF Kind(t) = "observer" THEN "observed"
  ELSE IF Kind(t) # "std64k" /\ Decl[t].mode = "ro" THEN "not_accepted" ELSE "accepted"

Result(op, m) == IF op = "read" THEN ReadResult(m) ELSE WriteResult(m)

(* A read callback's *value: watchpoints leave it as it is.                 *)
ReadByte(m, a, bytes, value) ==
  IF Stores(Target(m)) /\ ReadResult(m) = "accepted" THEN bytes[Cell(m, a)] ELSE value

(* A word's write callback keeps nothing of the other byte. *)
WriteByte(m, a, bytes, value) ==
  IF Stores(Target(m)) /\ WriteResult(m) = "accepted"
    THEN IF Kind(Target(m)) = "word"
           THEN [bytes EXCEPT ![<<Target(m), 1 - Offset(m, a)>>] = 0, ![Cell(m, a)] = value]
           ELSE [bytes EXCEPT ![Cell(m, a)] = value]
    ELSE bytes

(* membus_module_release: what is freed and what is left of the counts.     *)
(* The free callback of a mirror releases its original.                     *)
Decrement(refs, m) == [refs EXCEPT ![m] = @ - 1]

(* Mutant: the free callback of a mirror forgets its original. *)
Bug_Released(refs, freed, m) ==
  LET r1 == Decrement(refs, m)
  IN  [refs |-> r1, freed |-> IF r1[m] = 0 THEN freed \cup {m} ELSE freed]
Released(refs, freed, m) ==
  LET r1 == Decrement(refs, m)
      gone == r1[m] = 0
      t == Target(m)
      r2 == IF gone /\ t # m THEN Decrement(r1, t) ELSE r1
      f1 == IF gone THEN freed \cup {m} ELSE freed
  IN  [refs |-> r2,
       freed |-> IF gone /\ t # m /\ r2[t] = 0 THEN f1 \cup {t} ELSE f1]
=============================================================================
