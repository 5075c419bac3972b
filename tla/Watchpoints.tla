---------------------------- MODULE Watchpoints ----------------------------
(***************************************************************************)
(* The watchpoints of one bus module (membus_module_watchpoints.c): a list *)
(* of generic ones, a list of ranges, and a binary tree of addresses whose *)
(* nodes head chains of watchpoints on one address.  The callbacks only    *)
(* look on.  A node is known by the order of its allocation; 0 is NULL.    *)
(***************************************************************************)
EXTENDS AddrRange, Sequences, SequencesExt

CONSTANTS Callbacks,    \* callback functions
          Requests,     \* event masks programs pass
          WatchAddrs,   \* addresses watched
          WatchRanges,  \* ranges watched
          AllocModes,   \* modes the module is allocated with
          NodeBound,    \* BOUND: watchpoints allocated
          StepBound     \* BOUND: calls made

Events == {"read", "write"}
Modes == {"rw", "ro", "wo"}
ASSUME RequestsAssumption == Requests \subseteq SUBSET (Events \cup {"merge"})
ASSUME AllocModesAssumption == AllocModes \subseteq Modes
ASSUME WatchedAssumption == WatchAddrs \subseteq Addr /\ WatchRanges \subseteq AddrRanges

VARIABLES
  heap,            \* nodes by the order of their allocation
  freed,
  generics, address_ranges,   \* the lists, as sequences of nodes
  addresses,       \* the root of the tree
  mode,            \* what the module was allocated with
  is_up, steps,
  (* history *)
  watched,         \* live watchpoints: the addresses and events asked for
  damaged          \* what the tree does from here on is not modelled

vars == <<heap, freed, generics, address_ranges, addresses, mode, is_up, steps, watched, damaged>>
lists == <<generics, address_ranges>>

Null == 0
Node(subtype, on_events, callback_fn, addr, addr_range, parent) ==
  [subtype |-> subtype, on_events |-> on_events, callback_fn |-> callback_fn, addr |-> addr,
   addr_range |-> addr_range, parent |-> parent, left |-> Null, right |-> Null, child |-> Null]
New == Len(heap) + 1
Live == DOMAIN heap \ freed

(* A store through a pointer that may be null, behind the test for it. *)
Set(h, n, field, v) == IF n = Null THEN h ELSE [h EXCEPT ![n][field] = v]

(* The mask kept of a request, given the mask there was. *)
Masked(old, on_events) ==
  (IF "merge" \in on_events THEN old ELSE {}) \cup (on_events \cap Events)

-----------------------------------------------------------------------------
(* The way down the tree towards an address: the node it ends at. *)
Branch(n, a) ==
  IF heap[n].addr > a THEN heap[n].left
  ELSE IF heap[n].addr < a THEN heap[n].right ELSE Null
Landing(a) ==
  LET down[k \in 0 .. Len(heap)] ==
        IF k = 0 THEN addresses
        ELSE LET n == down[k - 1] IN IF Branch(n, a) = Null THEN n ELSE Branch(n, a)
  IN  down[Len(heap)]
find_addr(a) ==
  IF addresses = Null THEN Null
  ELSE LET n == Landing(a) IN IF heap[n].addr = a THEN n ELSE Null

(* The nodes from n down along child. *)
Chain(n) ==
  LET c[k \in 0 .. Len(heap)] ==
        IF k = 0 THEN n ELSE IF c[k - 1] = Null THEN Null ELSE heap[c[k - 1]].child
      length == Cardinality({k \in 0 .. Len(heap) : c[k] # Null})
  IN  [k \in 1 .. length |-> c[k - 1]]

(* The watchpoints that an access of the address comes by, in their order. *)
Visited(a) == Chain(find_addr(a)) \o generics \o address_ranges
Meets(n, a) == heap[n].subtype = "range" => does_include(heap[n].addr_range, a)

(* Where in this walk the read or the write callback of the module calls.   *)
Called(walk, a, event) ==
  {i \in DOMAIN walk :
     /\ mode # (IF event = "read" THEN "wo" ELSE "ro")
     /\ Meets(walk[i], a) /\ event \in heap[walk[i]].on_events}

-----------------------------------------------------------------------------
(* Registration *)
MayRegister == is_up /\ ~damaged /\ steps < StepBound /\ Len(heap) < NodeBound

(* The callbacks of the lists are never compared and are left out. *)
register_generic(on_events) ==
  /\ MayRegister
  /\ heap' = Append(heap, Node("generic", on_events, Null, 0, undef, Null))
  /\ generics' = <<New>> \o generics
  /\ watched' = Append(watched, [at |-> Addr, on |-> on_events \cap Events])
  /\ steps' = steps + 1
  /\ UNCHANGED <<freed, address_ranges, addresses, mode, is_up, damaged>>

(* Mutant: an empty range is registered. *)
Bug_Registrable(r) == TRUE
Registrable(r) == r.addr_len # 0
register_addr_range(on_events, r) ==
  /\ MayRegister /\ Registrable(r)
  /\ heap' = Append(heap, Node("range", on_events, Null, 0, r, Null))
  /\ address_ranges' = <<New>> \o address_ranges
  /\ watched' = Append(watched, [at |-> Addrs(r), on |-> on_events \cap Events])
  /\ steps' = steps + 1
  /\ UNCHANGED <<freed, generics, addresses, mode, is_up, damaged>>

(* The first node of the tree keeps its mask as it was passed. *)
RegisterRoot(on_events, f, a) ==
  /\ MayRegister /\ addresses = Null
  /\ heap' = Append(heap, Node("address", on_events, f, a, undef, Null))
  /\ addresses' = New
  /\ watched' = Append(watched, [at |-> {a}, on |-> on_events \cap Events])
  /\ steps' = steps + 1
  /\ UNCHANGED <<freed, lists, mode, is_up, damaged>>

(* A new node, at the end of the chain of its address or as a leaf. *)
RegisterNode(on_events, f, a) ==
  /\ MayRegister /\ addresses # Null
  /\ \A i \in DOMAIN Chain(find_addr(a)) : heap[Chain(find_addr(a))[i]].callback_fn # f
  /\ LET at == Landing(a)
         same == heap[at].addr = a
         above == IF same THEN Last(Chain(at)) ELSE at
         side == IF same THEN "child" ELSE IF heap[at].addr > a THEN "left" ELSE "right"
         node == Node("address", Masked({}, on_events), f, a, undef, above)
     IN  heap' = Append(Set(heap, above, side, New), node)
  /\ watched' = Append(watched, [at |-> {a}, on |-> on_events \cap Events])
  /\ steps' = steps + 1
  /\ UNCHANGED <<freed, lists, addresses, mode, is_up, damaged>>

(* The address has a watchpoint with this callback. *)
RegisterAgain(on_events, f, a) ==
  /\ is_up /\ ~damaged /\ steps < StepBound
  /\ \E i \in DOMAIN Chain(find_addr(a)) :
       LET n == Chain(find_addr(a))[i]
       IN  /\ heap[n].callback_fn = f
           /\ heap' = Set(heap, n, "on_events", Masked(heap[n].on_events, on_events))
           /\ watched' = [watched EXCEPT ![n].on = Masked(@, on_events)]
  /\ steps' = steps + 1
  /\ UNCHANGED <<freed, lists, addresses, mode, is_up, damaged>>

register_addr(on_events, f, a) ==
  RegisterRoot(on_events, f, a) \/ RegisterNode(on_events, f, a) \/ RegisterAgain(on_events, f, a)

set_events(n, on_events) ==
  /\ is_up /\ ~damaged /\ steps < StepBound
  /\ heap' = Set(heap, n, "on_events", Masked(heap[n].on_events, on_events))
  /\ watched' = [watched EXCEPT ![n].on = Masked(@, on_events)]
  /\ steps' = steps + 1
  /\ UNCHANGED <<freed, lists, addresses, mode, is_up, damaged>>

-----------------------------------------------------------------------------
(* Removal *)
Forget(n) == freed' = freed \cup {n} /\ watched' = [watched EXCEPT ![n].on = {}]

(* A node of one of the lists, if it is there. *)
Unlinked(list, n) ==
  LET at == {i \in DOMAIN list : list[i] = n}
  IN  IF at = {} THEN list ELSE RemoveAt(list, CHOOSE i \in at : TRUE)
UnregisterListed(n) ==
  /\ is_up /\ ~damaged /\ steps < StepBound /\ heap[n].subtype \in {"generic", "range"}
  /\ generics' = Unlinked(generics, n)
  /\ address_ranges' = Unlinked(address_ranges, n)
  /\ Forget(n)
  /\ steps' = steps + 1
  /\ UNCHANGED <<heap, addresses, mode, is_up, damaged>>

(* The end of the spine of left or of right branches from n. *)
Outermost(n, side) ==
  LET out[k \in 0 .. Len(heap)] ==
        IF k = 0 THEN n
        ELSE LET x == out[k - 1] IN IF heap[x][side] = Null THEN x ELSE heap[x][side]
  IN  out[Len(heap)]

(* Mutant: the right branch keeps its parent. *)
Bug_Adopt(h, by, n) ==
  LET h1 == Set(Set(h, by, "left", h[n].left), h[n].left, "parent", by)
  IN  Set(h1, by, "right", h[n].right)
(* The branches of n become those of by. *)
Adopt(h, by, n) ==
  LET h1 == Set(Set(h, by, "left", h[n].left), h[n].left, "parent", by)
  IN  Set(Set(h1, by, "right", h[n].right), h[n].right, "parent", by)

(* Mutant: the second watchpoint of the address does not take over. *)
Bug_Replacement(n, side) ==
  IF heap[n].left # Null THEN heap[n].left ELSE heap[n].right
(* Who takes the place of n: the next watchpoint of its address, the end of *)
(* one of its two branches, the one branch it has, or nobody.               *)
Replacement(n, side) ==
  IF heap[n].child # Null THEN heap[n].child
  ELSE IF heap[n].left # Null /\ heap[n].right # Null
    THEN IF side = "right" THEN Outermost(heap[n].left, "left")
         ELSE Outermost(heap[n].right, "right")
  ELSE IF heap[n].left # Null THEN heap[n].left ELSE heap[n].right

(* n is further down the chain of its address. *)
InChain(n) == heap[n].parent # Null /\ heap[heap[n].parent].child = n

(* A node of the tree.  One that has two branches and no second watchpoint  *)
(* on its address is replaced by a node that stays where it is as well: the *)
(* branches then form a cycle, and searches through it do not end.          *)
UnregisterBranch(n) ==
  LET up == heap[n].parent
      side == IF up = Null THEN "root" ELSE IF heap[up].left = n THEN "left" ELSE "right"
      by == Replacement(n, side)
      two == heap[n].left # Null /\ heap[n].right # Null
      h1 == IF heap[n].child # Null \/ two THEN Adopt(heap, by, n) ELSE heap
      h2 == Set(h1, by, "parent", up)
  IN  /\ is_up /\ ~damaged /\ steps < StepBound /\ heap[n].subtype = "address"
      /\ up \notin freed
      /\ ~InChain(n)
      /\ heap' = IF side = "root" THEN h2 ELSE Set(h2, up, side, by)
      /\ addresses' = IF side = "root" THEN by ELSE addresses
      /\ damaged' = (heap[n].child = Null /\ two)
      /\ Forget(n)
      /\ steps' = steps + 1
      /\ UNCHANGED <<lists, mode, is_up>>

(* A node further down a chain: the next one keeps n as its parent. *)
UnregisterChained(n) ==
  LET up == heap[n].parent
  IN  /\ is_up /\ ~damaged /\ steps < StepBound /\ heap[n].subtype = "address"
      /\ up \notin freed
      /\ InChain(n)
      /\ heap' = Set(heap, up, "child", heap[n].child)
      /\ Forget(n)
      /\ steps' = steps + 1
      /\ UNCHANGED <<addresses, lists, mode, is_up, damaged>>

(* The parent is read after it was freed. *)
UnregisterStale(n) ==
  /\ is_up /\ ~damaged /\ steps < StepBound
  /\ heap[n].subtype = "address" /\ heap[n].parent \in freed
  /\ damaged' = TRUE
  /\ Forget(n)
  /\ steps' = steps + 1
  /\ UNCHANGED <<heap, addresses, lists, mode, is_up>>

-----------------------------------------------------------------------------
(* The nodes of the tree, without the chains. *)
TreeNodes ==
  LET below[k \in 0 .. Len(heap)] ==
        IF k = 0 THEN {addresses}
        ELSE below[k - 1] \cup UNION {{heap[n].left, heap[n].right} : n \in below[k - 1] \ {Null}}
  IN  below[Len(heap)] \ {Null}
NodesOf(chains) == UNION {Range(c) : c \in chains}

(* Mutant: the chains are left to themselves. *)
Bug_TreeFreed == TreeNodes
TreeFreed == NodesOf({Chain(n) : n \in TreeNodes})

module_watchpoints_free ==
  /\ is_up /\ ~damaged /\ steps < StepBound
  /\ freed' = freed \cup TreeFreed \cup NodesOf({generics, address_ranges})
  /\ is_up' = FALSE
  /\ steps' = steps + 1
  /\ UNCHANGED <<heap, lists, addresses, mode, watched, damaged>>

(* membus_module_watchpoints_alloc, on memory that happens to be zero: it   *)
(* sets none of the three roots.                                            *)
Init ==
  /\ heap = <<>> /\ freed = {} /\ generics = <<>> /\ address_ranges = <<>>
  /\ addresses = Null /\ mode \in AllocModes
  /\ is_up = TRUE /\ steps = 0 /\ watched = <<>> /\ damaged = FALSE

Next ==
  \/ \E e \in Requests :
       \/ register_generic(e)
       \/ \E r \in WatchRanges : register_addr_range(e, r)
       \/ \E a \in WatchAddrs, f \in Callbacks : register_addr(e, f, a)
  \/ \E n \in Live :
       \/ \E e \in Requests : set_events(n, e)
       \/ UnregisterListed(n) \/ UnregisterBranch(n) \/ UnregisterChained(n) \/ UnregisterStale(n)
  \/ module_watchpoints_free

Spec == Init /\ [][Next]_vars

-----------------------------------------------------------------------------
Pointers == 0 .. Len(heap)
(* Every variable has its type; a range watchpoint is never an empty one    *)
(* (__membus_watchpoint_addr_range_register).                               *)
TypeOK ==
  /\ heap \in Seq([subtype : {"generic", "address", "range"},
                   on_events : SUBSET (Events \cup {"merge"}), callback_fn : Callbacks \cup {Null},
                   addr : Addr, addr_range : AddrRanges,
                   parent : Pointers, left : Pointers, right : Pointers, child : Pointers])
  /\ freed \subseteq DOMAIN heap /\ addresses \in Pointers
  /\ generics \in Seq(DOMAIN heap) /\ address_ranges \in Seq(DOMAIN heap)
  /\ mode \in Modes /\ is_up \in BOOLEAN /\ damaged \in BOOLEAN
  /\ \A n \in DOMAIN heap : heap[n].subtype = "range" => heap[n].addr_range.addr_len # 0

(* A read or a write of an address calls back exactly the watchpoints that  *)
(* are registered for it and for the event, each of them once, after any    *)
(* registrations, merges and removals that left the tree in order           *)
(* (__membus_module_watchpoints_read_addr and _write_addr).                 *)
DispatchExact ==
  is_up /\ ~damaged =>
    \A a \in Addr :
      LET walk == Visited(a)
      IN  \A e \in Events :
            LET due == {n \in DOMAIN watched : a \in watched[n].at /\ e \in watched[n].on}
                mute == mode = (IF e = "read" THEN "wo" ELSE "ro")
                called == Called(walk, a, e)
            IN  /\ {walk[i] : i \in called} = (IF mute THEN {} ELSE due)
                /\ \A i, j \in called : walk[i] = walk[j] => i = j

(* A node's parent leads back to it, unless that parent was freed, which    *)
(* only the removal inside a chain brings about                             *)
(* (__membus_watchpoint_addr_unregister decides by the parent's pointers).  *)
ParentsLeadBack ==
  is_up /\ ~damaged =>
    \A n \in {x \in Live : heap[x].subtype = "address"} :
      LET up == heap[n].parent
      IN  /\ up = Null <=> n = addresses
          /\ up # Null /\ up \notin freed =>
               Cardinality({s \in {"left", "right", "child"} : heap[up][s] = n}) = 1
          /\ up \in freed => n \notin TreeNodes

(* Freeing the module frees every watchpoint (__membus_module_watchpoints_free). *)
AllFreed == ~is_up => freed = DOMAIN heap

-----------------------------------------------------------------------------
(* The inductive strengthening of the invariants above.                     *)

Placed == {n \in Live : heap[n].subtype = "address"}
Sides == {"left", "right", "child"}

(* The nodes of the addresses hang together: each is the root or in exactly *)
(* one place under another, and knows its parent, unless that was freed.    *)
PointersInv ==
  /\ addresses \in Placed \cup {Null}
  /\ \A n \in Placed :
       /\ heap[n].parent = Null <=> n = addresses
       /\ n = addresses \/ \E m \in Placed, s \in Sides : heap[m][s] = n
       /\ \A s \in Sides :
            heap[n][s] # Null =>
              /\ heap[n][s] \in Placed
              /\ heap[heap[n][s]].parent \in {n} \cup (IF s = "child" THEN freed ELSE {})
              /\ \A m \in Placed, t \in Sides : heap[m][t] = heap[n][s] => m = n /\ t = s

(* Only the head of a chain has branches, and the others are younger. *)
ChainsInv ==
  \A n \in Placed :
    LET next == heap[n].child
    IN  next # Null => /\ next > n /\ heap[next].addr = heap[n].addr
                       /\ heap[next].left = Null /\ heap[next].right = Null

(* Searches go down from rank to rank, and those for the addresses of a     *)
(* region pass its node.                                                    *)
InSearchOrder(rank, region) ==
  \A n \in Placed :
    /\ rank[n] < Len(heap) /\ heap[n].addr \in region[n]
    /\ heap[n].left # Null =>
         /\ rank[n] < rank[heap[n].left]
         /\ \A a \in region[heap[n].left] : a \in region[n] /\ a < heap[n].addr
    /\ heap[n].right # Null =>
         /\ rank[n] < rank[heap[n].right]
         /\ \A a \in region[heap[n].right] : a \in region[n] /\ heap[n].addr < a
SearchInv ==
  \E rank \in [DOMAIN heap -> Nat], region \in [DOMAIN heap -> SUBSET Addr] :
    /\ InSearchOrder(rank, region)
    /\ addresses # Null => region[addresses] = Addr

(* The lists hold the live nodes of their kind, each once. *)
Listed(list, kind) ==
  IsInjective(list) /\ Range(list) = {n \in Live : heap[n].subtype = kind}
ListsInv == Listed(generics, "generic") /\ Listed(address_ranges, "range")

(* What was asked for is what the nodes have. *)
AskedFor(node) ==
  [at |-> IF node.subtype = "generic" THEN Addr
          ELSE IF node.subtype = "range" THEN Addrs(node.addr_range) ELSE {node.addr},
   on |-> node.on_events \cap Events]
WatchedInv ==
  watched = [n \in DOMAIN heap |->
               IF n \in freed THEN [AskedFor(heap[n]) EXCEPT !.on = {}] ELSE AskedFor(heap[n])]

IInv ==
  /\ TypeOK /\ AllFreed
  /\ is_up /\ ~damaged => PointersInv /\ ChainsInv /\ SearchInv /\ ListsInv /\ WatchedInv
=============================================================================
