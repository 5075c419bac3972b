------------------------------- MODULE Membus -------------------------------
(***************************************************************************)
(* The memory bus of membus.c: modules registered in tiers, reads and      *)
(* writes that walk them, the vectors as a fallback, the caches of recent  *)
(* bytes, and the modules' reference counts.  Every public call but        *)
(* membus_register_module, membus_free and the reference counting holds    *)
(* rw_lock from its first access to its last, and is one step.             *)
(***************************************************************************)
EXTENDS MembusModules, Sequences, SequencesExt

CONSTANTS PreOp, PostOp,    \* INT_MIN and INT_MAX, the two special tiers
          Registrations,    \* <<tier, module>> pairs a program may register
          Accessed,         \* addresses it reads and writes one by one
          Written,          \* bytes it writes
          FillRanges,       \* ranges it fills, copies, loads and saves
          Words,            \* words it fills with
          Contents,         \* buffers and files it copies and loads
          CacheLen,         \* 8 in the code
          IdxTop,           \* 255 in the code: the indexes are bytes
          Held,             \* modules it takes references of
          FirstIdx,         \* cache indexes malloc leaves behind
          StepBound         \* BOUND: public calls made

Byte == 0 .. 255

ASSUME ModuleAssumption == IsFiniteSet(Module)
\* there are three vectors of two bytes, at the end of memory
ASSUME VectorsAssumption == AddrTop >= 5
ASSUME CacheAssumption == CacheLen \in Nat \ {0} /\ IdxTop \in Nat /\ (IdxTop + 1) % CacheLen = 0
ASSUME FirstIdxAssumption == FirstIdx \subseteq 0 .. IdxTop
ASSUME RegistrationsAssumption ==
  /\ Registrations \subseteq Int \X Allocated
  \* read callbacks get a null pointer in this tier
  /\ \A reg \in Registrations : reg[1] = PreOp => Kind(reg[2]) = "observer"

ASSUME AccessAssumption ==
  /\ Accessed \subseteq Addr /\ FillRanges \subseteq AddrRanges
  /\ Written \subseteq Byte /\ Words \subseteq Byte \X Byte /\ Contents \subseteq Seq(Byte)
\* what was never allocated cannot be held
ASSUME HeldAssumption == Held \subseteq Allocated
ASSUME StepBoundAssumption == StepBound \in Nat

VARIABLES
  modules,          \* tiers in their order: [tier, chain]
  pre_op, post_op,  \* the chains of the special tiers
  ref_count, freed,
  holds,            \* references the program took with membus_module_retain
  bytes,            \* what the modules store
  vectors,          \* nmi_vector, res_vector and irq_vector by address
  cache_disable, rcache, rcache_idx, wcache, wcache_idx,
  is_up,            \* not yet membus_free'd
  steps,
  (* history *)
  registered,       \* registrations, in the order they were made
  last,             \* the byte last written to each cell and vector, or Unknown
  dropped,          \* how often each module was in a tier that was lost
  pushed_r, pushed_w  \* bytes in the caches not popped yet, the latest last

cacheVars == <<cache_disable, rcache, rcache_idx, wcache, wcache_idx, pushed_r, pushed_w>>
busVars == <<modules, pre_op, post_op, registered>>
refVars == <<ref_count, freed, holds, dropped>>
memVars == <<bytes, vectors, last>>
vars == <<busVars, refVars, memVars, cacheVars, is_up, steps>>

VectorAddrs == (AddrTop - 5) .. AddrTop
FirstVector(a) == <<240, 15, 15, 240, 254, 202>>[a - AddrTop + 6]
Unknown == -2
NoModule == "vector"
ASSUME NamesAssumption == NoModule \notin Module /\ PreOp # PostOp

-----------------------------------------------------------------------------
(* The walk along a chain stops at the first module that begins after the   *)
(* address; modules that begin before it may still not reach it.            *)
Reached(chain, a) ==
  {j \in DOMAIN chain : Covers(chain[j], a) /\ \A k \in 1 .. j : Lo(chain[k]) <= a}

(* The module whose answer ends the walk is the first, in the first tier    *)
(* that has one, that does more than observe.                               *)
Hits(a, op) ==
  [i \in DOMAIN modules |->
     {j \in Reached(modules[i].chain, a) : Result(op, modules[i].chain[j]) # "observed"}]
FirstOf(hits) ==
  LET tiers == {i \in DOMAIN hits : hits[i] # {}}
  IN  IF tiers = {} THEN <<>>
      ELSE LET i == Min(tiers) IN << modules[i].chain[Min(hits[i])] >>

(* It, if it accepts the access, or nobody. *)
Accepting(a, op) ==
  LET by == FirstOf(Hits(a, op))
  IN  IF by # <<>> /\ Result(op, by[1]) = "accepted" THEN by ELSE <<>>

(* __membus_read_addr: the value, if there was one. *)
ValueBy(by, a) ==
  IF by # <<>> THEN << ReadByte(by[1], a, bytes, 0) >>
  ELSE IF a \in VectorAddrs THEN << vectors[a] >> ELSE <<>>
Read(a) == ValueBy(Accepting(a, "read"), a)

(* Mutant: the post-op modules hear of accepted writes only. *)
Bug_PostOps(a, b, v) ==
  IF Accepting(a, "write") = <<>> THEN b
  ELSE FoldLeft(LAMBDA x, m : IF Covers(m, a) THEN WriteByte(m, a, x, v) ELSE x, b, post_op)
(* Every post-op module hears of every write, refused ones too. *)
PostOps(a, b, v) ==
  FoldLeft(LAMBDA x, m : IF Covers(m, a) THEN WriteByte(m, a, x, v) ELSE x, b, post_op)

(* The record w of a bus's memory after __membus_write_addr(a, v).  The     *)
(* history follows what a program may rely on: see RefWrite.                *)
Memory == [bytes |-> bytes, vectors |-> vectors, wcache |-> wcache,
           wcache_idx |-> wcache_idx, pushed_w |-> pushed_w]

(* The caches: the index is a byte and the slot its remainder. *)
Slot(idx) == idx % CacheLen
IncIdx(idx) == IF idx = IdxTop THEN 0 ELSE idx + 1

(* Mutant: a pop at index 0 does not wrap with the width of the index. *)
Bug_DecIdx(idx) == idx - 1
DecIdx(idx) == IF idx = 0 THEN IdxTop ELSE idx - 1

(* Mutant: the index moves before the byte is stored. *)
Bug_Push(cache, idx, v) == [cache EXCEPT ![Slot(IncIdx(idx))] = v]
Push(cache, idx, v) == [cache EXCEPT ![Slot(idx)] = v]

(* The bytes a program may still pop. *)
Stacked(stack, v) ==
  IF Len(stack) = CacheLen THEN Append(Tail(stack), v) ELSE Append(stack, v)

WriteBy(by, w, a, v) ==
  LET accepted == by # <<>>
      cached == (accepted \/ a \in VectorAddrs) /\ ~cache_disable
  IN  [bytes |-> PostOps(a, IF accepted THEN WriteByte(by[1], a, w.bytes, v) ELSE w.bytes, v),
       vectors |-> IF a \in VectorAddrs /\ ~accepted
                     THEN [w.vectors EXCEPT ![a] = v] ELSE w.vectors,
       wcache |-> IF cached THEN Push(w.wcache, w.wcache_idx, v) ELSE w.wcache,
       wcache_idx |-> IF cached THEN IncIdx(w.wcache_idx) ELSE w.wcache_idx,
       pushed_w |-> IF cached THEN Stacked(w.pushed_w, v) ELSE w.pushed_w]
WriteAddr(w, access) == WriteBy(Accepting(access[1], "write"), w, access[1], access[2])

-----------------------------------------------------------------------------
(* What a program may rely on.  An address means the cell of the module     *)
(* registered for it in the lowest tier, among those of one tier the one    *)
(* that begins first, among those the one registered last; observers do not *)
(* count.  An address no module answers for may be a vector.                *)
Before(i, j) ==
  LET m == registered[i]
      n == registered[j]
  IN  \/ m[1] < n[1]
      \/ m[1] = n[1] /\ Lo(m[2]) < Lo(n[2])
      \/ m[1] = n[1] /\ Lo(m[2]) = Lo(n[2]) /\ i > j
Candidates(a, op) ==
  {i \in DOMAIN registered :
     /\ registered[i][1] \notin {PreOp, PostOp}
     /\ Covers(registered[i][2], a)
     /\ Result(op, registered[i][2]) # "observed"}
First(C) == CHOOSE i \in C : \A j \in C \ {i} : Before(i, j)
CellOf(m, a, op) ==
  IF Result(op, m) # "accepted" THEN IF a \in VectorAddrs THEN {<<NoModule, a>>} ELSE {}
  ELSE IF Stores(Target(m)) THEN {Cell(m, a)} ELSE {}
MeantOf(C, a, op) ==
  IF C # {} THEN CellOf(registered[First(C)][2], a, op)
  ELSE IF a \in VectorAddrs THEN {<<NoModule, a>>} ELSE {}
Meant(a, op) == MeantOf(Candidates(a, op), a, op)

(* The other byte of a word is not known after a write; neither is either   *)
(* byte when the write reaches both, through two names of the word.         *)
Spoils(c, d) == c # d /\ c[1] = d[1] /\ c[1] # NoModule /\ Kind(c[1]) = "word"
Copies(a) ==
  LET onlookers == {m \in Module : \E i \in DOMAIN registered : registered[i] = <<PostOp, m>>}
  IN  {Cell(m, a) : m \in {x \in onlookers : /\ Covers(x, a) /\ Stores(Target(x))
                                             /\ WriteResult(x) = "accepted"}}
Kept(mem, cells, v) ==
  [c \in DOMAIN mem |->
     IF \E d \in cells : Spoils(c, d) THEN Unknown ELSE IF c \in cells THEN v ELSE mem[c]]
RefWrite(mem, access) == Kept(mem, Meant(access[1], "write") \cup Copies(access[1]), access[2])

-----------------------------------------------------------------------------
(* membus_register_module *)

(* Mutant: a chain keeps the order of registration. *)
Bug_Insert(chain, m) == Append(chain, m)
(* Before the first module that does not begin below m. *)
Insert(chain, m) ==
  LET below == {i \in DOMAIN chain : \A j \in 1 .. i : Lo(chain[j]) < Lo(m)}
  IN  InsertAt(chain, Cardinality(below) + 1, m)

(* A tier that becomes the first one is not linked to the tiers there were. *)
WithTier(tier, m) ==
  LET lower == Cardinality({i \in DOMAIN modules : modules[i].tier < tier})
      here == {i \in DOMAIN modules : modules[i].tier = tier}
      new == [tier |-> tier, chain |-> <<m>>]
  IN  IF here # {}
        THEN [i \in DOMAIN modules |->
                IF i \in here THEN [modules[i] EXCEPT !.chain = Insert(@, m)] ELSE modules[i]]
        ELSE IF lower > 0 THEN InsertAt(modules, lower + 1, new) ELSE <<new>>

Occurrences(chains, m) ==
  Cardinality(UNION {{i} \X {j \in DOMAIN chains[i] : chains[i][j] = m} : i \in DOMAIN chains})
TierChains(tiers) == [i \in DOMAIN tiers |-> tiers[i].chain]

Register(tier, m) ==
  /\ is_up /\ steps < StepBound /\ m \notin freed
  /\ ref_count' = [ref_count EXCEPT ![m] = @ + 1]
  /\ \/ tier = PreOp /\ pre_op' = Insert(pre_op, m) /\ UNCHANGED <<modules, post_op>>
     \/ tier = PostOp /\ post_op' = Insert(post_op, m) /\ UNCHANGED <<modules, pre_op>>
     \/ /\ tier \notin {PreOp, PostOp}
        /\ modules' = WithTier(tier, m) /\ UNCHANGED <<pre_op, post_op>>
  /\ registered' = Append(registered, <<tier, m>>)
  /\ dropped' = [x \in Module |->
                   dropped[x] + Occurrences(TierChains(modules), x)
                              + (IF x = m /\ modules' # modules THEN 1 ELSE 0)
                              - Occurrences(TierChains(modules'), x)]
  /\ steps' = steps + 1
  /\ UNCHANGED <<freed, holds, memVars, cacheVars, is_up>>

-----------------------------------------------------------------------------
(* Accesses *)

Cached(c, value) ==
  IF value # <<>> /\ ~cache_disable
    THEN [rcache |-> Push(c.rcache, c.rcache_idx, value[1]),
          rcache_idx |-> IncIdx(c.rcache_idx),
          pushed_r |-> Stacked(c.pushed_r, value[1])]
    ELSE c
ReadAddr(c, a) == Cached(c, Read(a))
ReadAll(addrs) ==
  /\ is_up /\ steps < StepBound
  /\ \E c \in {FoldLeft(ReadAddr, [rcache |-> rcache, rcache_idx |-> rcache_idx,
                                   pushed_r |-> pushed_r], addrs)} :
       rcache' = c.rcache /\ rcache_idx' = c.rcache_idx /\ pushed_r' = c.pushed_r
  /\ steps' = steps + 1
  /\ UNCHANGED <<busVars, refVars, memVars, cache_disable, wcache, wcache_idx, pushed_w, is_up>>

(* The accesses made, and those the call is there for. *)
WriteAll(accesses, intended) ==
  /\ is_up /\ steps < StepBound
  /\ \E w \in {FoldLeft(WriteAddr, Memory, accesses)} :
       /\ bytes' = w.bytes /\ vectors' = w.vectors
       /\ wcache' = w.wcache /\ wcache_idx' = w.wcache_idx /\ pushed_w' = w.pushed_w
  /\ last' = FoldLeft(RefWrite, last, intended)
  /\ steps' = steps + 1
  /\ UNCHANGED <<busVars, refVars, cache_disable, rcache, rcache_idx, pushed_r, is_up>>

(* addr_end of the calls on ranges: the fills and copies lose the last      *)
(* address of a range that passes the end of memory, the dump does not stop *)
(* there.                                                                   *)
End(r) == r.addr_lo + r.addr_len
FillEnd(r) == IF End(r) > Size THEN AddrTop ELSE End(r)
FileEnd(r) == Lesser(End(r), Size)
AddrsTo(r, end) == [i \in 1 .. end - r.addr_lo |-> Wrap(r.addr_lo + i - 1)]

membus_read_addr(a) == ReadAll(<<a>>)
membus_copy_out_bytes(r) == ReadAll(AddrsTo(r, FillEnd(r)))
membus_save(r) == ReadAll(AddrsTo(r, FileEnd(r)))
membus_fprintf(r) == ReadAll(AddrsTo(r, End(r)))

membus_write_addr(a, v) == WriteAll(<< <<a, v>> >>, << <<a, v>> >>)

(* data[i] goes to the i-th address; a call that leaves one out leaves it   *)
(* unknown.                                                                 *)
Filled(addrs, data) == [i \in DOMAIN addrs |-> <<addrs[i], data[i]>>]
FillAll(r, data) ==
  LET done == Filled(AddrsTo(r, FillEnd(r)), data)
  IN  WriteAll(done, IF FillEnd(r) = FileEnd(r) THEN done ELSE Append(done, <<AddrTop, Unknown>>))
membus_write_byte_to_range(r, v) == FillAll(r, [i \in 1 .. Size |-> v])
membus_write_word_to_range(r, lo, hi) ==
  FillAll(r, [i \in 1 .. Size |-> IF i % 2 = 1 THEN lo ELSE hi])
membus_copy_in_bytes(r, data) == Len(data) >= r.addr_len /\ FillAll(r, data)

(* membus_load_from_fd and _stream take as many bytes as the reads return,  *)
(* and ask for one more than the range holds.                               *)
membus_load(r, file) ==
  LET len == FileEnd(r) - r.addr_lo
      addrs == AddrsTo(r, FileEnd(r) + 1)
  IN  \E n \in 0 .. Lesser(Len(file), len + 1) :
        LET done == Filled(SubSeq(addrs, 1, n), file)
        IN  WriteAll(done, IF n <= len THEN done ELSE [done EXCEPT ![n] = <<@[1], Unknown>>])

-----------------------------------------------------------------------------
(* The caches' clients. *)
membus_rcache_pop ==
  /\ is_up /\ steps < StepBound /\ pushed_r # <<>>
  /\ rcache_idx' = DecIdx(rcache_idx) /\ pushed_r' = Front(pushed_r)
  /\ steps' = steps + 1
  /\ UNCHANGED <<busVars, refVars, memVars, cache_disable, rcache, wcache, wcache_idx, pushed_w, is_up>>
membus_wcache_pop ==
  /\ is_up /\ steps < StepBound /\ pushed_w # <<>>
  /\ wcache_idx' = DecIdx(wcache_idx) /\ pushed_w' = Front(pushed_w)
  /\ steps' = steps + 1
  /\ UNCHANGED <<busVars, refVars, memVars, cache_disable, wcache, rcache, rcache_idx, pushed_r, is_up>>
membus_set_cache_disable(should_disable) ==
  /\ is_up /\ steps < StepBound
  /\ cache_disable' = should_disable
  /\ steps' = steps + 1
  /\ UNCHANGED <<busVars, refVars, memVars, rcache, rcache_idx, wcache, wcache_idx, pushed_r,
                 pushed_w, is_up>>

-----------------------------------------------------------------------------
(* Reference counts *)
membus_module_retain(m) ==
  /\ steps < StepBound /\ m \notin freed
  /\ ref_count' = [ref_count EXCEPT ![m] = @ + 1]
  /\ holds' = [holds EXCEPT ![m] = @ + 1]
  /\ steps' = steps + 1
  /\ UNCHANGED <<busVars, freed, dropped, memVars, cacheVars, is_up>>

(* A program gives back what it took. *)
membus_module_release(m) ==
  /\ steps < StepBound /\ holds[m] > 0
  /\ LET r == Released(ref_count, freed, m) IN ref_count' = r.refs /\ freed' = r.freed
  /\ holds' = [holds EXCEPT ![m] = @ - 1]
  /\ steps' = steps + 1
  /\ UNCHANGED <<busVars, dropped, memVars, cacheVars, is_up>>

membus_free ==
  /\ is_up /\ steps < StepBound
  /\ LET r == FoldLeft(LAMBDA x, m : Released(x.refs, x.freed, m),
                       [refs |-> ref_count, freed |-> freed],
                       pre_op \o FlattenSeq(TierChains(modules)) \o post_op)
     IN  ref_count' = r.refs /\ freed' = r.freed
  /\ is_up' = FALSE /\ modules' = <<>> /\ pre_op' = <<>> /\ post_op' = <<>>
  /\ steps' = steps + 1
  /\ UNCHANGED <<registered, holds, dropped, memVars, cacheVars>>

(* membus_alloc, and the allocation of the modules: a mirror retains its    *)
(* original.  The caches and their indexes are not initialised.             *)
MirrorsOf == [m \in Module |-> {x \in Allocated : Kind(x) = "mirror" /\ Decl[x].of = m}]
Mirrors(m, gone) == Cardinality(MirrorsOf[m] \ gone)
Init ==
  /\ modules = <<>> /\ pre_op = <<>> /\ post_op = <<>>
  /\ registered = <<>>
  /\ ref_count = [m \in Module |-> Mirrors(m, {})]
  /\ freed = {} /\ holds = [m \in Module |-> 0] /\ dropped = [m \in Module |-> 0]
  /\ bytes = [c \in Cells |-> FirstByte(c)]
  /\ vectors = [a \in VectorAddrs |-> FirstVector(a)]
  /\ last = [c \in Cells \cup ({NoModule} \X VectorAddrs) |->
               IF c[1] = NoModule THEN FirstVector(c[2]) ELSE FirstByte(c)]
  /\ cache_disable = FALSE
  /\ rcache_idx \in FirstIdx /\ wcache_idx \in FirstIdx
  /\ rcache = [i \in 0 .. CacheLen - 1 |-> Uninitialised]
  /\ wcache = [i \in 0 .. CacheLen - 1 |-> Uninitialised]
  /\ pushed_r = <<>> /\ pushed_w = <<>>
  /\ is_up = TRUE /\ steps = 0

Next ==
  \/ \E reg \in Registrations : Register(reg[1], reg[2])
  \/ \E a \in Accessed : membus_read_addr(a)
  \/ \E a \in Accessed, v \in Written : membus_write_addr(a, v)
  \/ \E r \in FillRanges :
       \/ membus_copy_out_bytes(r) \/ membus_save(r) \/ membus_fprintf(r)
       \/ \E v \in Written : membus_write_byte_to_range(r, v)
       \/ \E w \in Words : membus_write_word_to_range(r, w[1], w[2])
       \/ \E data \in Contents : membus_copy_in_bytes(r, data) \/ membus_load(r, data)
  \/ membus_rcache_pop \/ membus_wcache_pop
  \/ \E should_disable \in BOOLEAN : membus_set_cache_disable(should_disable)
  \/ \E m \in Held : membus_module_retain(m) \/ membus_module_release(m)
  \/ membus_free

Spec == Init /\ [][Next]_vars

-----------------------------------------------------------------------------
(* Every variable has its type: in particular the indexes of the caches     *)
(* stay bytes and the reference counts never pass below zero.               *)
TypeOK ==
  /\ modules \in Seq([tier : Int, chain : Seq(Module)])
  /\ pre_op \in Seq(Module) /\ post_op \in Seq(Module)
  /\ ref_count \in [Module -> Nat] /\ freed \subseteq Module
  /\ holds \in [Module -> Nat] /\ dropped \in [Module -> Nat]
  /\ bytes \in [Cells -> Byte \cup {Uninitialised}]
  /\ vectors \in [VectorAddrs -> Byte]
  /\ cache_disable \in BOOLEAN /\ is_up \in BOOLEAN
  /\ rcache_idx \in 0 .. IdxTop /\ wcache_idx \in 0 .. IdxTop
  /\ rcache \in [0 .. CacheLen - 1 -> Byte \cup {Uninitialised}]
  /\ wcache \in [0 .. CacheLen - 1 -> Byte \cup {Uninitialised}]

(* Every module registered stays on the bus until membus_free               *)
(* (membus_register_module: tiers overlay each other).                      *)
TiersKept == \A m \in Module : dropped[m] = 0

(* An address reads as the byte last written to the cell it means, whatever *)
(* the order of the registrations and the calls that wrote it, mirrors,     *)
(* read-only and write-only modules and the vectors included                *)
(* (__membus_read_addr and __membus_write_addr).                            *)
ReadsBack ==
  is_up /\ TiersKept =>
    \A a \in Addr : \A c \in Meant(a, "read") : <<last[c]>> \in {<<Unknown>>, Read(a)}

(* A module of the post-op tier that stores bytes holds the last byte sent  *)
(* to each of its addresses, refused or not (the post_op loop of            *)
(* __membus_write_addr).                                                    *)
CopiesKept ==
  is_up /\ TiersKept =>
    \A i \in DOMAIN post_op :
      \A c \in {x \in Cells : x[1] = Target(post_op[i])} : last[c] \in {Unknown, bytes[c]}

(* The caches return the bytes read and written in the reverse order, as    *)
(* far as they reach, whatever index they started from                      *)
(* (membus_rcache_push, membus_rcache_pop and their twins).                 *)
PopsLatest ==
  /\ \A k \in 1 .. Len(pushed_r) : rcache[Slot(rcache_idx - k)] = pushed_r[Len(pushed_r) - k + 1]
  /\ \A k \in 1 .. Len(pushed_w) : wcache[Slot(wcache_idx - k)] = pushed_w[Len(pushed_w) - k + 1]

(* A module's count is that of its places on the bus, of the mirrors of it  *)
(* that live, and of the references the program took; so no module that one *)
(* of them can reach is freed, and a bus that lost no tier frees every      *)
(* module that nobody holds (membus_module_release, __membus_module_mirror_free). *)
RefsKept ==
  \A m \in Module :
    LET owners == Occurrences(<<pre_op, post_op>> \o TierChains(modules), m)
                    + dropped[m] + Mirrors(m, freed) + holds[m]
        used == \E i \in DOMAIN registered : registered[i][2] = m
    IN  /\ ref_count[m] = owners
        /\ m \in freed => owners = 0
        /\ used /\ owners = 0 => m \in freed

-----------------------------------------------------------------------------
(* The inductive strengthening of the invariants above.                     *)

(* Only modules that were allocated are on the bus; tiers are distinct.     *)
ChainsInv ==
  /\ modules \in Seq([tier : Int, chain : Seq(Allocated)])
  /\ pre_op \in Seq(Allocated) /\ post_op \in Seq(Allocated)
  /\ \A i, j \in DOMAIN modules : modules[i].tier = modules[j].tier => i = j
  /\ registered \in Seq(Registrations)

(* A cache holds what was pushed last, below its index. *)
Stack(stack, cache, idx) ==
  /\ stack \in Seq(Byte \cup {Uninitialised}) /\ Len(stack) <= CacheLen
  /\ \A k \in 1 .. Len(stack) : cache[Slot(idx - k)] = stack[Len(stack) - k + 1]
CachesInv == Stack(pushed_r, rcache, rcache_idx) /\ Stack(pushed_w, wcache, wcache_idx)

IInv == TypeOK /\ ChainsInv /\ CachesInv /\ RefsKept

(* A chain is that of the registrations of its tier, in the order that      *)
(* decides which of them an address means.                                  *)
InOrder(tier, chain) ==
  \E order \in [DOMAIN chain -> DOMAIN registered] :
    /\ \A j \in DOMAIN chain : registered[order[j]] = <<tier, chain[j]>>
    /\ \A j, k \in DOMAIN chain : j < k => Before(order[j], order[k])
    /\ \A i \in DOMAIN registered : registered[i][1] = tier => \E j \in DOMAIN chain : order[j] = i

(* The bus is what was registered, as long as no tier was lost. *)
OrderInv ==
  /\ \A i, j \in DOMAIN modules : i < j => modules[i].tier < modules[j].tier
  /\ \A i \in DOMAIN modules : modules[i].tier \notin {PreOp, PostOp} /\ modules[i].chain # <<>>
  /\ is_up /\ TiersKept =>
       /\ \A i \in DOMAIN modules : InOrder(modules[i].tier, modules[i].chain)
       /\ \A reg \in Range(registered) :
            reg[1] \in {PreOp, PostOp} \/ \E i \in DOMAIN modules : modules[i].tier = reg[1]
       /\ \A m \in Module : <<PostOp, m>> \in Range(registered) <=> m \in Range(post_op)

(* What a program may rely on is what the modules and the vectors hold. *)
Agrees(mem, cells, vecs) ==
  /\ \A c \in Cells : mem[c] \in {Unknown, cells[c]}
  /\ \A a \in VectorAddrs : mem[<<NoModule, a>>] \in {Unknown, vecs[a]}
LastInv ==
  /\ last \in [Cells \cup ({NoModule} \X VectorAddrs) -> Byte \cup {Uninitialised, Unknown}]
  /\ is_up /\ TiersKept => Agrees(last, bytes, vectors)
=============================================================================
