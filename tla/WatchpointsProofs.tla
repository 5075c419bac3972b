------------------------- MODULE WatchpointsProofs -------------------------
(* Proofs about the watchpoints, for any addresses, callbacks and calls.    *)
EXTENDS Watchpoints, FiniteSetTheorems, WellFoundedInduction, SequenceTheorems, TLAPS

-----------------------------------------------------------------------------
(* Induction.                                                               *)

(* A set of naturals that is not empty has a least element.                 *)
LEMMA NatLeast ==
  ASSUME NEW T, T \subseteq Nat, T # {}
  PROVE  \E x \in T : \A y \in T : x <= y
  <1> DEFINE R == OpToRel(<, Nat)
  <1>1. \A x \in Nat, y \in Nat : <<y, x>> \in R <=> y < x
    BY DEF OpToRel
  <1>2. IsWellFoundedOn(R, Nat)
    BY NatLessThanWellFounded
  <1> HIDE DEF R
  <1>3. PICK x \in T : \A y \in T : ~ (<<y, x>> \in R)
    BY <1>2, WFMin
  <1>4. \A y \in T : ~ (y < x)
    BY <1>1, <1>3
  <1> QED
    BY <1>4

(* A set that has 0 and with every number the next has all of them.         *)
LEMMA NatInduct ==
  ASSUME NEW S, 0 \in S, \A n \in Nat : n \in S => n + 1 \in S
  PROVE  \A n \in Nat : n \in S
  <1> DEFINE T == Nat \ S
  <1> SUFFICES ASSUME T # {} PROVE FALSE
    OBVIOUS
  <1>1. PICK x \in T : \A y \in T : x <= y
    <2> T \subseteq Nat
      OBVIOUS
    <2> HIDE DEF T
    <2> QED
      BY NatLeast
  <1>2. x # 0 /\ x - 1 \in Nat
    BY <1>1
  <1>3. x - 1 \in S
    BY <1>1, <1>2
  <1> QED
    BY <1>1, <1>2, <1>3

(* A property of a first number and of the next of each, up to a last.      *)
LEMMA NatUpTo ==
  ASSUME NEW S, NEW N \in Nat, 0 \in S, \A k \in 1 .. N : k - 1 \in S => k \in S
  PROVE  \A k \in 0 .. N : k \in S
  <1> DEFINE T == {k \in Nat : k <= N => k \in S}
  <1>1. 0 \in T
    OBVIOUS
  <1>2. ASSUME NEW k \in Nat, k \in T PROVE k + 1 \in T
    <2> SUFFICES ASSUME k + 1 <= N PROVE k + 1 \in S
      OBVIOUS
    <2>1. k + 1 \in 1 .. N /\ (k + 1) - 1 = k /\ k \in S
      BY <1>2
    <2> QED
      BY <2>1
  <1>3. \A k \in Nat : k \in T
    <2> HIDE DEF T
    <2> QED
      BY <1>1, <1>2, NatInduct
  <1> QED
    BY <1>3

(* A walk of N steps from b is defined where each step stays in V.          *)
Walk(g, N, b, F) == g[0] = b /\ \A k \in 1 .. N : g[k] = F[g[k - 1]]
(* A function applied step after step has a value after any number of steps. *)
LEMMA WalkExists ==
  ASSUME NEW V, NEW N \in Nat, NEW b \in V, NEW F \in [V -> V]
  PROVE  \E g \in [0 .. N -> V] : Walk(g, N, b, F)
  <1> DEFINE Has(k) == \E g \in [0 .. k -> V] : Walk(g, k, b, F)
             S == {k \in Nat : Has(k)}
  <1>1. 0 \in S
    <2> DEFINE g == [k \in 0 .. 0 |-> b]
    <2>1. g \in [0 .. 0 -> V] /\ Walk(g, 0, b, F)
      BY DEF Walk
    <2> HIDE DEF g
    <2> QED
      BY <2>1
  <1>2. ASSUME NEW k \in Nat, k \in S PROVE k + 1 \in S
    <2>1. PICK g \in [0 .. k -> V] : Walk(g, k, b, F)
      BY <1>2
    <2> DEFINE h == [i \in 0 .. k + 1 |-> IF i = k + 1 THEN F[g[k]] ELSE g[i]]
    <2>2. h \in [0 .. k + 1 -> V]
      OBVIOUS
    <2>3. h[0] = b
      BY <2>1 DEF Walk
    <2>4. ASSUME NEW i \in 1 .. k + 1 PROVE h[i] = F[h[i - 1]]
      <3>1. CASE i = k + 1
        BY <3>1
      <3>2. CASE i # k + 1
        <4>1. i \in 1 .. k /\ i - 1 \in 0 .. k
          BY <3>2
        <4>2. g[i] = F[g[i - 1]]
          BY <2>1, <4>1 DEF Walk
        <4> QED
          BY <3>2, <4>1, <4>2
      <3> QED
        BY <3>1, <3>2
    <2>5. Walk(h, k + 1, b, F)
      <3> HIDE DEF h
      <3> QED
        BY <2>3, <2>4 DEF Walk
    <2> HIDE DEF h
    <2> QED
      BY <2>2, <2>5
  <1>3. N \in S
    <2> HIDE DEF S
    <2> QED
      BY <1>1, <1>2, NatInduct
  <1> QED
    BY <1>3

-----------------------------------------------------------------------------
(* Nodes and pointers.                                                      *)

(* A node whose pointers are below top. *)
NodeType(top) ==
  [subtype : {"generic", "address", "range"},
   on_events : SUBSET (Events \cup {"merge"}), callback_fn : Callbacks \cup {Null},
   addr : Addr, addr_range : AddrRanges,
   parent : 0 .. top, left : 0 .. top, right : 0 .. top, child : 0 .. top]
Links == {"parent", "left", "right", "child"}
Heap(h, top) == h \in Seq(NodeType(top))

(* What TypeOK says of the nodes.                                           *)
LEMMA HeapType ==
  ASSUME TypeOK
  PROVE  /\ Heap(heap, Len(heap)) /\ Len(heap) \in Nat /\ DOMAIN heap = 1 .. Len(heap)
         /\ freed \subseteq DOMAIN heap /\ Live \subseteq DOMAIN heap /\ Placed \subseteq Live
         /\ addresses \in 0 .. Len(heap)
  <1>1. heap \in Seq(NodeType(Len(heap)))
    BY DEF TypeOK, NodeType, Pointers
  <1> QED
    BY <1>1 DEF TypeOK, Heap, Live, Placed, Pointers

(* And of the nodes of the next state.                                      *)
LEMMA HeapTypeNext ==
  ASSUME TypeOK'
  PROVE  /\ Heap(heap', Len(heap')) /\ Len(heap') \in Nat /\ DOMAIN heap' = 1 .. Len(heap')
         /\ freed' \subseteq DOMAIN heap' /\ Live' \subseteq DOMAIN heap' /\ Placed' \subseteq Live'
         /\ addresses' \in 0 .. Len(heap')
  <1>1. heap' \in Seq(NodeType(Len(heap')))
    BY DEF TypeOK, NodeType, Pointers
  <1> QED
    BY <1>1 DEF TypeOK, Heap, Live, Placed, Pointers

(* The fields of a node.                                                    *)
LEMMA NodeFacts ==
  ASSUME NEW top \in Nat, NEW h, Heap(h, top), NEW n \in 1 .. Len(h)
  PROVE  /\ \A s \in Links : h[n][s] \in 0 .. top
         /\ h[n].parent \in 0 .. top /\ h[n].left \in 0 .. top
         /\ h[n].right \in 0 .. top /\ h[n].child \in 0 .. top
         /\ h[n].subtype \in {"generic", "address", "range"}
         /\ h[n].on_events \in SUBSET (Events \cup {"merge"})
         /\ h[n].callback_fn \in Callbacks \cup {Null}
         /\ h[n].addr \in Addr /\ h[n].addr_range \in AddrRanges
         /\ h[n].left = h[n]["left"] /\ h[n].right = h[n]["right"]
         /\ h[n].child = h[n]["child"] /\ h[n].parent = h[n]["parent"]
  <1>1. h[n] \in NodeType(top)
    BY DEF Heap
  <1> QED
    BY <1>1 DEF NodeType, Links

(* A store through a pointer changes one field of one node.                 *)
Stored(h, h2, n, field, v) ==
  /\ Len(h2) = Len(h)
  /\ \A m \in 1 .. Len(h) :
       /\ \A s \in Links : h2[m][s] = IF m = n /\ s = field THEN v ELSE h[m][s]
       /\ h2[m].subtype = h[m].subtype /\ h2[m].on_events = h[m].on_events
       /\ h2[m].callback_fn = h[m].callback_fn
       /\ h2[m].addr = h[m].addr /\ h2[m].addr_range = h[m].addr_range
(* Set is such a store, and keeps the type of the heap.                     *)
LEMMA SetFacts ==
  ASSUME NEW top \in Nat, NEW h, Heap(h, top), NEW n \in 0 .. Len(h), NEW field \in Links,
         NEW v \in 0 .. top
  PROVE  Heap(Set(h, n, field, v), top) /\ Stored(h, Set(h, n, field, v), n, field, v)
  <1>1. CASE n = 0
    BY <1>1 DEF Set, Null, Stored, Heap
  <1>2. CASE n # 0
    <2> DEFINE r == [h[n] EXCEPT ![field] = v]
    <2>1. n \in 1 .. Len(h) /\ h[n] \in NodeType(top)
      BY <1>2 DEF Heap
    <2>2. Set(h, n, field, v) = [h EXCEPT ![n] = r]
      BY <1>2 DEF Set, Null
    <2>3. /\ r \in NodeType(top)
          /\ \A s \in Links : r[s] = IF s = field THEN v ELSE h[n][s]
          /\ r.subtype = h[n].subtype /\ r.on_events = h[n].on_events
          /\ r.callback_fn = h[n].callback_fn
          /\ r.addr = h[n].addr /\ r.addr_range = h[n].addr_range
      <3>1. CASE field = "parent"
        BY <2>1, <3>1 DEF NodeType, Links
      <3>2. CASE field = "left"
        BY <2>1, <3>2 DEF NodeType, Links
      <3>3. CASE field = "right"
        BY <2>1, <3>3 DEF NodeType, Links
      <3>4. CASE field = "child"
        BY <2>1, <3>4 DEF NodeType, Links
      <3> QED
        BY <3>1, <3>2, <3>3, <3>4 DEF Links
    <2> HIDE DEF r
    <2>4. [h EXCEPT ![n] = r] \in Seq(NodeType(top)) /\ Len([h EXCEPT ![n] = r]) = Len(h)
      BY <2>1, <2>3 DEF Heap
    <2>5. \A m \in 1 .. Len(h) : [h EXCEPT ![n] = r][m] = IF m = n THEN r ELSE h[m]
      BY <2>1 DEF Heap
    <2> QED
      BY <2>1, <2>2, <2>3, <2>4, <2>5 DEF Stored, Heap
  <1> QED
    BY <1>1, <1>2

(* A change of a mask changes nothing else.                                 *)
LEMMA SetEvents ==
  ASSUME NEW top \in Nat, NEW h, Heap(h, top), NEW n \in 1 .. Len(h),
         NEW v \in SUBSET (Events \cup {"merge"})
  PROVE  LET h2 == Set(h, n, "on_events", v)
         IN  /\ Heap(h2, top) /\ Len(h2) = Len(h)
             /\ \A m \in 1 .. Len(h) :
                  /\ \A s \in Links : h2[m][s] = h[m][s]
                  /\ h2[m].on_events = IF m = n THEN v ELSE h[m].on_events
                  /\ h2[m].subtype = h[m].subtype /\ h2[m].callback_fn = h[m].callback_fn
                  /\ h2[m].addr = h[m].addr /\ h2[m].addr_range = h[m].addr_range
  <1> DEFINE r == [h[n] EXCEPT !["on_events"] = v]
  <1>1. h[n] \in NodeType(top) /\ n # 0
    BY DEF Heap
  <1>2. Set(h, n, "on_events", v) = [h EXCEPT ![n] = r]
    BY <1>1 DEF Set, Null
  <1>3. /\ r \in NodeType(top) /\ r.on_events = v
        /\ \A s \in Links : r[s] = h[n][s]
        /\ r.subtype = h[n].subtype /\ r.callback_fn = h[n].callback_fn
        /\ r.addr = h[n].addr /\ r.addr_range = h[n].addr_range
    BY <1>1 DEF NodeType, Links
  <1> HIDE DEF r
  <1>4. [h EXCEPT ![n] = r] \in Seq(NodeType(top)) /\ Len([h EXCEPT ![n] = r]) = Len(h)
    BY <1>1, <1>3 DEF Heap
  <1>5. \A m \in 1 .. Len(h) : [h EXCEPT ![n] = r][m] = IF m = n THEN r ELSE h[m]
    BY <1>1 DEF Heap
  <1> QED
    BY <1>1, <1>2, <1>3, <1>4, <1>5 DEF Heap

-----------------------------------------------------------------------------
(* Searches of the tree.                                                    *)

(* Where the pointers of a node lead.                                       *)
LEMMA LinkFacts ==
  ASSUME TypeOK, PointersInv, NEW n \in Placed
  PROVE  /\ n \in Live /\ n \in 1 .. Len(heap) /\ n # Null /\ n \notin freed
         /\ heap[n].subtype = "address" /\ heap[n].addr \in Addr
         /\ heap[n].left = heap[n]["left"] /\ heap[n].right = heap[n]["right"]
         /\ heap[n].child = heap[n]["child"] /\ heap[n].parent \in 0 .. Len(heap)
         /\ heap[n].left \in Placed \cup {Null} /\ heap[n].right \in Placed \cup {Null}
         /\ heap[n].child \in Placed \cup {Null}
  <1>1. n \in Live /\ n \in 1 .. Len(heap) /\ n # Null /\ n \notin freed /\ heap[n].subtype = "address"
    BY HeapType DEF Placed, Null, Live
  <1>2. /\ heap[n].addr \in Addr /\ heap[n].left = heap[n]["left"] /\ heap[n].right = heap[n]["right"]
        /\ heap[n].child = heap[n]["child"] /\ heap[n].parent \in 0 .. Len(heap)
    BY <1>1, HeapType, NodeFacts
  <1>3. \A s \in Sides : heap[n][s] \in Placed \cup {Null}
    BY DEF PointersInv
  <1> QED
    BY <1>1, <1>2, <1>3 DEF Sides

(* A step towards an address leads from node to node.                       *)
LEMMA BranchFacts ==
  ASSUME TypeOK, PointersInv, NEW n \in Placed, NEW a
  PROVE  Branch(n, a) \in Placed \cup {Null}
  BY LinkFacts DEF Branch

(* The way down towards an address, and where it ends.                      *)
Next1(n, a) == IF Branch(n, a) = Null THEN n ELSE Branch(n, a)
Down(down, a) ==
  /\ down \in [0 .. Len(heap) -> Placed]
  /\ down[0] = addresses
  /\ \A k \in 1 .. Len(heap) : down[k] = Next1(down[k - 1], a)
(* Landing is the end of the way down, along which all are nodes of the tree. *)
LEMMA DownFacts ==
  ASSUME TypeOK, PointersInv, addresses # Null, NEW a
  PROVE  \E down : Down(down, a) /\ Landing(a) = down[Len(heap)]
  <1> DEFINE N == Len(heap)
             F == [n \in Placed |-> Next1(n, a)]
             Body(g) == [k \in 0 .. N |->
                           IF k = 0 THEN addresses
                           ELSE IF Branch(g[k - 1], a) = Null THEN g[k - 1] ELSE Branch(g[k - 1], a)]
             down == CHOOSE g : g = Body(g)
  <1>1. N \in Nat /\ addresses \in Placed
    BY HeapType DEF PointersInv
  <1>2. F \in [Placed -> Placed]
    BY BranchFacts DEF Next1
  <1>3. Landing(a) = down[N]
    BY DEF Landing
  <1>4. PICK g \in [0 .. N -> Placed] : Walk(g, N, addresses, F)
    <2> HIDE DEF F, N
    <2> QED
      BY <1>1, <1>2, WalkExists
  <1>5. g = Body(g)
    <2>1. ASSUME NEW k \in 0 .. N
          PROVE  g[k] = IF k = 0 THEN addresses
                        ELSE IF Branch(g[k - 1], a) = Null THEN g[k - 1] ELSE Branch(g[k - 1], a)
      <3>1. CASE k = 0
        BY <1>4, <3>1 DEF Walk
      <3>2. CASE k # 0
        <4>1. k \in 1 .. N /\ k - 1 \in 0 .. N
          BY <1>1, <3>2
        <4>2. g[k] = F[g[k - 1]] /\ g[k - 1] \in Placed
          BY <1>4, <4>1 DEF Walk
        <4> QED
          BY <3>2, <4>2 DEF Next1
      <3> QED
        BY <3>1, <3>2
    <2> HIDE DEF F, N
    <2> QED
      BY <2>1
  <1>6. down = Body(down)
    <2> HIDE DEF Body
    <2> QED
      BY <1>5
  <1> HIDE DEF down
  <1>7. down[0] = addresses
    BY <1>1, <1>6
  <1>8. ASSUME NEW k \in 1 .. N PROVE down[k] = Next1(down[k - 1], a)
    <2>1. k \in 0 .. N /\ k # 0
      BY <1>1
    <2>2. down[k] = IF Branch(down[k - 1], a) = Null THEN down[k - 1] ELSE Branch(down[k - 1], a)
      BY <1>6, <2>1
    <2> QED
      BY <2>2 DEF Next1
  <1>9. \A k \in 0 .. N : down[k] \in Placed
    <2> DEFINE S == {k \in 0 .. N : down[k] \in Placed}
    <2>1. 0 \in S
      BY <1>1, <1>7
    <2>2. ASSUME NEW k \in 1 .. N, k - 1 \in S PROVE k \in S
      <3>1. Next1(down[k - 1], a) \in Placed
        BY <2>2, BranchFacts DEF Next1
      <3> QED
        BY <1>1, <1>8, <3>1
    <2>3. \A k \in 0 .. N : k \in S
      <3> HIDE DEF S, N
      <3> QED
        BY <1>1, <2>1, <2>2, NatUpTo
    <2> QED
      BY <2>3
  <1>10. down \in [0 .. N -> Placed]
    BY <1>6, <1>9
  <1> QED
    BY <1>3, <1>7, <1>8, <1>10 DEF Down

(* The chain of a node: itself, and the nodes below it along child, each    *)
(* once.                                                                    *)
IsChain(c, n) ==
  /\ c \in Seq(Placed) /\ c # <<>> /\ c[1] = n /\ heap[c[Len(c)]].child = Null
  /\ \A i \in 1 .. Len(c) - 1 : c[i + 1] = heap[c[i]].child
  /\ \A i, j \in DOMAIN c : i < j => c[i] < c[j]
  /\ \A i \in DOMAIN c : heap[c[i]].addr = heap[n].addr
(* Chain of a node is its chain.                                            *)
LEMMA ChainFacts ==
  ASSUME TypeOK, PointersInv, ChainsInv, NEW n \in Placed
  PROVE  IsChain(Chain(n), n)
  <1> DEFINE N == Len(heap)
             V == Placed \cup {Null}
             F == [m \in V |-> IF m = Null THEN Null ELSE heap[m].child]
             Body(g) == [k \in 0 .. N |->
                           IF k = 0 THEN n ELSE IF g[k - 1] = Null THEN Null ELSE heap[g[k - 1]].child]
             c == CHOOSE g : g = Body(g)
             there == {k \in 0 .. N : c[k] # Null}
  <1>1. N \in Nat /\ n \in V /\ n \in 1 .. N
    BY HeapType, LinkFacts
  <1>2. F \in [V -> V]
    BY LinkFacts
  <1>3. Chain(n) = [k \in 1 .. Cardinality(there) |-> c[k - 1]]
    BY DEF Chain
  <1>4. PICK g \in [0 .. N -> V] : Walk(g, N, n, F)
    <2> HIDE DEF F, N, V
    <2> QED
      BY <1>1, <1>2, WalkExists
  <1>5. g = Body(g)
    <2>1. ASSUME NEW k \in 0 .. N
          PROVE  g[k] = IF k = 0 THEN n ELSE IF g[k - 1] = Null THEN Null ELSE heap[g[k - 1]].child
      <3>1. CASE k = 0
        BY <1>4, <3>1 DEF Walk
      <3>2. CASE k # 0
        <4>1. k \in 1 .. N /\ k - 1 \in 0 .. N
          BY <1>1, <3>2
        <4>2. g[k] = F[g[k - 1]] /\ g[k - 1] \in V
          <5> HIDE DEF F, V
          <5> QED
            BY <1>4, <4>1 DEF Walk
        <4> QED
          BY <3>2, <4>2
      <3> QED
        BY <3>1, <3>2
    <2> HIDE DEF F, N
    <2> QED
      BY <2>1
  <1>6. c = Body(c)
    <2> HIDE DEF Body
    <2> QED
      BY <1>5
  <1> HIDE DEF c
  <1>7. c[0] = n
    BY <1>1, <1>6
  <1>8. ASSUME NEW k \in 1 .. N
        PROVE  c[k] = IF c[k - 1] = Null THEN Null ELSE heap[c[k - 1]].child
    <2>1. k \in 0 .. N /\ k # 0
      BY <1>1
    <2> QED
      BY <1>6, <2>1
  <1>9. ASSUME NEW k \in 1 .. N, c[k - 1] \in Placed, c[k] # Null
        PROVE  /\ c[k] \in Placed /\ c[k] > c[k - 1]
               /\ heap[c[k]].addr = heap[c[k - 1]].addr
    <2>1. c[k] = heap[c[k - 1]].child
      BY <1>8, <1>9, LinkFacts
    <2> QED
      BY <1>9, <2>1, LinkFacts DEF ChainsInv
  <1>10. \A k \in 0 .. N : c[k] # Null => /\ c[k] \in Placed /\ c[k] > k
                                          /\ heap[c[k]].addr = heap[n].addr
                                          /\ k > 0 => c[k - 1] # Null
    <2> DEFINE S == {k \in 0 .. N : c[k] # Null => /\ c[k] \in Placed /\ c[k] > k
                                                   /\ heap[c[k]].addr = heap[n].addr
                                                   /\ k > 0 => c[k - 1] # Null}
    <2>1. 0 \in S
      BY <1>1, <1>7
    <2>2. ASSUME NEW k \in 1 .. N, k - 1 \in S PROVE k \in S
      <3> SUFFICES ASSUME c[k] # Null
                   PROVE  c[k] \in Placed /\ c[k] > k /\ heap[c[k]].addr = heap[n].addr /\ c[k - 1] # Null
        BY <1>1
      <3>1. c[k - 1] # Null
        BY <1>8
      <3>2. c[k - 1] \in Placed /\ c[k - 1] > k - 1 /\ heap[c[k - 1]].addr = heap[n].addr
        BY <2>2, <3>1
      <3>3. c[k] \in Placed /\ c[k] > c[k - 1] /\ heap[c[k]].addr = heap[c[k - 1]].addr
        BY <1>9, <3>2
      <3>4. c[k] \in 1 .. N /\ c[k - 1] \in 1 .. N
        BY <3>2, <3>3, LinkFacts
      <3> QED
        BY <1>1, <3>1, <3>2, <3>3, <3>4
    <2>3. \A k \in 0 .. N : k \in S
      <3> HIDE DEF S, N
      <3> QED
        BY <1>1, <2>1, <2>2, NatUpTo
    <2> QED
      BY <2>3
  <1>11. c[N] = Null
    <2> SUFFICES ASSUME c[N] # Null PROVE FALSE
      OBVIOUS
    <2>1. c[N] \in Placed /\ c[N] > N
      BY <1>1, <1>10
    <2> QED
      BY <1>1, <2>1, LinkFacts
  <1>12. PICK L \in 1 .. N : c[L] = Null /\ \A k \in 0 .. L - 1 : c[k] # Null
    <2> DEFINE T == {k \in 0 .. N : c[k] = Null}
    <2>1. T \subseteq Nat /\ T # {}
      BY <1>1, <1>11
    <2>2. PICK L \in T : \A k \in T : L <= k
      <3> HIDE DEF T
      <3> QED
        BY <2>1, NatLeast
    <2>3. L # 0
      BY <1>1, <1>7, <2>2 DEF Null
    <2> QED
      BY <1>1, <2>2, <2>3
  <1>13. \A k \in 0 .. N : k >= L => c[k] = Null
    <2> DEFINE S == {k \in 0 .. N : k >= L => c[k] = Null}
    <2>1. 0 \in S
      BY <1>1
    <2>2. ASSUME NEW k \in 1 .. N, k - 1 \in S PROVE k \in S
      BY <1>1, <1>8, <1>12, <2>2
    <2>3. \A k \in 0 .. N : k \in S
      <3> HIDE DEF S, N
      <3> QED
        BY <1>1, <2>1, <2>2, NatUpTo
    <2> QED
      BY <2>3
  <1>14. there = 0 .. L - 1
    BY <1>1, <1>12, <1>13
  <1>15. Cardinality(there) = L
    <2>1. Cardinality(0 .. L - 1) = L
      <3>1. 0 \in Int /\ L - 1 \in Int /\ L \in 1 .. N
        BY <1>1
      <3> QED
        BY <1>1, <3>1, FS_Interval
    <2> QED
      BY <1>14, <2>1
  <1> DEFINE ch == [k \in 1 .. L |-> c[k - 1]]
  <1>16. Chain(n) = ch
    BY <1>3, <1>15
  <1>17. ASSUME NEW k \in 1 .. L PROVE /\ k - 1 \in 0 .. N /\ c[k - 1] \in Placed
                                       /\ heap[c[k - 1]].addr = heap[n].addr
    <2>1. k - 1 \in 0 .. N /\ c[k - 1] # Null
      BY <1>1, <1>12
    <2> QED
      BY <1>10, <2>1
  <1>18. ch \in Seq(Placed) /\ Len(ch) = L /\ DOMAIN ch = 1 .. L
    <2>1. L \in Nat
      BY <1>1
    <2>2. \A k \in 1 .. L : ch[k] \in Placed
      BY <1>17
    <2>3. ch \in [1 .. L -> Placed]
      BY <2>2
    <2> HIDE DEF ch
    <2> QED
      BY <2>1, <2>3
  <1>19. ch # <<>> /\ ch[1] = n /\ heap[ch[L]].child = Null
    <2>1. heap[c[L - 1]].child = Null
      BY <1>1, <1>8, <1>12
    <2> QED
      BY <1>1, <1>7, <1>18, <2>1
  <1>20. ASSUME NEW i \in 1 .. L - 1 PROVE ch[i + 1] = heap[ch[i]].child /\ ch[i] < ch[i + 1]
    <2>1. i \in 1 .. N /\ i \in 0 .. L - 1 /\ i - 1 \in 0 .. L - 1 /\ i \in 1 .. L /\ i + 1 \in 1 .. L
      BY <1>1
    <2>2. c[i] = heap[c[i - 1]].child /\ c[i] # Null /\ c[i - 1] # Null /\ c[i - 1] \in Placed
      BY <1>8, <1>12, <1>17, <2>1
    <2>3. c[i] > c[i - 1] /\ c[i] \in 1 .. N /\ c[i - 1] \in 1 .. N
      BY <1>9, <2>1, <2>2, LinkFacts
    <2>4. ch[i] = c[i - 1] /\ ch[i + 1] = c[i]
      BY <1>1, <2>1
    <2> QED
      BY <2>2, <2>3, <2>4
  <1> HIDE DEF ch
  <1>21. ASSUME NEW i \in 1 .. L PROVE \A j \in 0 .. L : i < j => ch[i] < ch[j]
    <2> DEFINE S == {j \in 0 .. L : i < j => ch[i] < ch[j]}
    <2>1. 0 \in S
      BY <1>1
    <2>2. ASSUME NEW j \in 1 .. L, j - 1 \in S PROVE j \in S
      <3> SUFFICES ASSUME i < j PROVE ch[i] < ch[j]
        BY <1>1
      <3>1. j - 1 \in 1 .. L - 1 /\ (j - 1) + 1 = j
        BY <1>1
      <3>2. ch[j - 1] < ch[j]
        BY <1>20, <3>1
      <3>3. ch[i] \in 1 .. N /\ ch[j] \in 1 .. N /\ ch[j - 1] \in 1 .. N
        <4>1. ch[i] \in Placed /\ ch[j] \in Placed /\ ch[j - 1] \in Placed
          BY <1>1, <1>18, <3>1
        <4> QED
          BY <4>1, LinkFacts
      <3> QED
        BY <1>1, <2>2, <3>1, <3>2, <3>3
    <2>3. \A j \in 0 .. L : j \in S
      <3>1. L \in Nat
        BY <1>1
      <3> HIDE DEF S
      <3> QED
        BY <2>1, <2>2, <3>1, NatUpTo
    <2> QED
      BY <2>3
  <1>22. \A i \in DOMAIN ch : heap[ch[i]].addr = heap[n].addr
    <2> SUFFICES ASSUME NEW i \in 1 .. L PROVE heap[ch[i]].addr = heap[n].addr
      BY <1>18
    <2> QED
      BY <1>17 DEF ch
  <1> QED
    BY <1>1, <1>16, <1>18, <1>19, <1>20, <1>21, <1>22 DEF IsChain

(* A step of a search climbs.                                               *)
Searchable(rank, region) ==
  /\ rank \in [DOMAIN heap -> Nat] /\ region \in [DOMAIN heap -> SUBSET Addr]
  /\ InSearchOrder(rank, region) /\ (addresses # Null => region[addresses] = Addr)
(* A step to a branch leads to a higher rank.                               *)
LEMMA RankClimbs ==
  ASSUME TypeOK, PointersInv, NEW rank, NEW region, Searchable(rank, region),
         NEW n \in Placed, NEW a
  PROVE  /\ rank[n] \in Nat /\ rank[n] < Len(heap)
         /\ Branch(n, a) # Null => /\ Branch(n, a) \in Placed /\ rank[Branch(n, a)] \in Nat
                                   /\ rank[n] < rank[Branch(n, a)]
  <1>1. \A m \in Placed : rank[m] \in Nat
    BY LinkFacts, HeapType DEF Searchable
  <1>2. rank[n] < Len(heap) /\ (heap[n].left # Null => rank[n] < rank[heap[n].left])
        /\ (heap[n].right # Null => rank[n] < rank[heap[n].right])
    BY DEF Searchable, InSearchOrder
  <1> QED
    BY <1>1, <1>2, BranchFacts DEF Branch

(* A search ends where it can go no further.                                *)
LEMMA LandingEnds ==
  ASSUME TypeOK, PointersInv, NEW rank, NEW region, Searchable(rank, region), addresses # Null,
         NEW a
  PROVE  Landing(a) \in Placed /\ Branch(Landing(a), a) = Null
  <1> DEFINE N == Len(heap)
  <1>1. PICK down : Down(down, a) /\ Landing(a) = down[N]
    BY DownFacts
  <1>2. N \in Nat /\ \A k \in 0 .. N : down[k] \in Placed
    BY <1>1, HeapType DEF Down
  <1> DEFINE S == {k \in 0 .. N : Branch(down[k], a) = Null \/ rank[down[k]] >= k}
  <1>3. 0 \in S
    <2>1. 0 \in 0 .. N /\ rank[down[0]] \in Nat
      BY <1>2, RankClimbs
    <2> QED
      BY <2>1
  <1>4. ASSUME NEW k \in 1 .. N, k - 1 \in S PROVE k \in S
    <2> DEFINE m == down[k - 1]
    <2>1. k \in 0 .. N /\ m \in Placed /\ k - 1 \in Nat
      BY <1>2
    <2>2. down[k] = IF Branch(m, a) = Null THEN m ELSE Branch(m, a)
      BY <1>1 DEF Down, Next1
    <2>3. CASE Branch(m, a) = Null
      BY <2>1, <2>2, <2>3
    <2>4. CASE Branch(m, a) # Null
      <3>1. rank[m] >= k - 1
        BY <1>4, <2>4
      <3>2. rank[m] \in Nat /\ rank[down[k]] \in Nat /\ rank[m] < rank[down[k]]
        BY <2>1, <2>2, <2>4, RankClimbs
      <3>3. rank[down[k]] >= k
        BY <2>1, <3>1, <3>2
      <3> QED
        BY <2>1, <3>3
    <2> QED
      BY <2>3, <2>4
  <1>5. N \in S
    <2>1. \A k \in 0 .. N : k \in S
      <3> HIDE DEF S, N
      <3> QED
        BY <1>2, <1>3, <1>4, NatUpTo
    <2> QED
      BY <1>2, <2>1
  <1>6. down[N] \in Placed /\ rank[down[N]] \in Nat /\ rank[down[N]] < N
    <2>1. N \in 0 .. N /\ down[N] \in Placed
      BY <1>2
    <2> QED
      BY <2>1, RankClimbs
  <1> QED
    BY <1>1, <1>2, <1>5, <1>6

(* The heads of the chains: the root and the branches.                      *)
Head1(n) == n = addresses \/ \E m \in Placed : heap[m].left = n \/ heap[m].right = n
Chained(n) == \E m \in Placed : heap[m].child = n
(* Every node is a head or further down a chain.                            *)
LEMMA HeadOrChained ==
  ASSUME TypeOK, PointersInv, NEW n \in Placed
  PROVE  Head1(n) \/ Chained(n)
  <1>1. n = addresses \/ \E m \in Placed, s \in Sides : heap[m][s] = n
    BY DEF PointersInv
  <1> QED
    BY <1>1, LinkFacts DEF Head1, Chained, Sides

(* A node with branches is a head.                                          *)
LEMMA BranchedIsHead ==
  ASSUME TypeOK, PointersInv, ChainsInv, NEW n \in Placed, heap[n].left # Null \/ heap[n].right # Null
  PROVE  Head1(n)
  <1>1. ~ Chained(n)
    BY LinkFacts DEF Chained, ChainsInv
  <1> QED
    BY <1>1, HeadOrChained

(* There is a root where there are nodes.                                   *)
LEMMA RootThere ==
  ASSUME TypeOK, PointersInv, ChainsInv, NEW rank, NEW region, Searchable(rank, region),
         NEW n \in Placed
  PROVE  addresses # Null
  <1> SUFFICES ASSUME addresses = Null PROVE FALSE
    OBVIOUS
  <1>1. \A m \in Placed : m # addresses /\ m \in Nat /\ rank[m] \in Nat
    <2> TAKE m \in Placed
    <2>1. m \in 1 .. Len(heap) /\ m # Null
      BY LinkFacts
    <2> QED
      BY <2>1, HeapType DEF Searchable
  <1>2. PICK x \in Placed : \A y \in Placed : x <= y
    BY <1>1, NatLeast
  <1>3. ~ Chained(x)
    <2> SUFFICES ASSUME NEW m \in Placed, heap[m].child = x PROVE FALSE
      BY DEF Chained
    <2>1. x > m
      BY <1>1, LinkFacts DEF ChainsInv
    <2> QED
      BY <1>1, <1>2, <2>1
  <1> DEFINE T == {rank[m] : m \in {y \in Placed : Head1(y)}}
  <1>4. T \subseteq Nat /\ T # {}
    BY <1>1, <1>3, HeadOrChained
  <1>5. PICK r \in T : \A t \in T : r <= t
    <2> HIDE DEF T
    <2> QED
      BY <1>4, NatLeast
  <1>6. PICK y \in Placed : Head1(y) /\ rank[y] = r
    BY <1>5
  <1>7. PICK m \in Placed : heap[m].left = y \/ heap[m].right = y
    BY <1>1, <1>6 DEF Head1
  <1>8. rank[m] < rank[y] /\ (heap[m].left # Null \/ heap[m].right # Null)
    BY <1>1, <1>7, LinkFacts DEF Searchable, InSearchOrder
  <1>9. rank[m] \in T
    BY <1>8, BranchedIsHead
  <1> QED
    BY <1>1, <1>5, <1>6, <1>8, <1>9

(* A search for an address of a head's region passes the head.              *)
LEMMA SearchPasses ==
  ASSUME TypeOK, PointersInv, ChainsInv, NEW rank, NEW region, Searchable(rank, region),
         NEW a \in Addr, NEW down, Down(down, a), NEW n \in Placed, Head1(n), a \in region[n]
  PROVE  \E k \in 0 .. Len(heap) : k <= rank[n] /\ down[k] = n
  <1> DEFINE N == Len(heap)
             Passed(m) == \E k \in 0 .. N : k <= rank[m] /\ down[k] = m
             S == {r \in Nat : \A m \in Placed : Head1(m) /\ a \in region[m] /\ rank[m] < r => Passed(m)}
  <1>1. N \in Nat /\ \A m \in Placed : rank[m] \in Nat /\ rank[m] < N /\ m # Null
    BY HeapType, LinkFacts, RankClimbs
  <1>2. 0 \in S
    BY <1>1
  <1>3. ASSUME NEW r \in Nat, r \in S PROVE r + 1 \in S
    <2> SUFFICES ASSUME NEW m \in Placed, Head1(m), a \in region[m], rank[m] < r + 1 PROVE Passed(m)
      <3> HIDE DEF Passed
      <3> QED
        OBVIOUS
    <2>1. CASE m = addresses
      BY <1>1, <2>1 DEF Down
    <2>2. CASE m # addresses
      <3>1. PICK up \in Placed : heap[up].left = m \/ heap[up].right = m
        BY <2>2 DEF Head1
      <3>2. rank[up] < rank[m] /\ a \in region[up] /\ Branch(up, a) = m
        <4>1. CASE heap[up].left = m
          <5>1. rank[up] < rank[m] /\ a \in region[up] /\ a < heap[up].addr
            BY <1>1, <4>1 DEF Searchable, InSearchOrder
          <5> QED
            BY <4>1, <5>1 DEF Branch
        <4>2. CASE heap[up].right = m
          <5>1. rank[up] < rank[m] /\ a \in region[up] /\ heap[up].addr < a
            BY <1>1, <4>2 DEF Searchable, InSearchOrder
          <5>2. heap[up].addr \in Int /\ a \in Int
            BY LinkFacts DEF Addr
          <5> QED
            BY <4>2, <5>1, <5>2 DEF Branch
        <4> QED
          BY <3>1, <4>1, <4>2
      <3>3. Head1(up)
        BY <1>1, <3>1, BranchedIsHead
      <3>4. Passed(up)
        <4>1. rank[up] < r
          BY <1>1, <3>2
        <4> HIDE DEF Passed
        <4> QED
          BY <1>3, <3>2, <3>3, <4>1
      <3>5. PICK k \in 0 .. N : k <= rank[up] /\ down[k] = up
        BY <3>4
      <3>6. k + 1 \in 1 .. N /\ k + 1 <= rank[m] /\ (k + 1) - 1 = k
        BY <1>1, <3>2, <3>5
      <3>7. down[k + 1] = m
        BY <1>1, <3>2, <3>5, <3>6 DEF Down, Next1
      <3> QED
        BY <1>1, <3>6, <3>7
    <2> QED
      BY <2>1, <2>2
  <1>4. \A r \in Nat : r \in S
    <2> HIDE DEF S
    <2> QED
      BY <1>2, <1>3, NatInduct
  <1>5. N \in S /\ rank[n] < N
    BY <1>1, <1>4
  <1> QED
    BY <1>5

(* The search for its own address finds a head.                             *)
LEMMA FindsHead ==
  ASSUME TypeOK, PointersInv, ChainsInv, NEW rank, NEW region, Searchable(rank, region),
         NEW n \in Placed, Head1(n)
  PROVE  find_addr(heap[n].addr) = n /\ Landing(heap[n].addr) = n
  <1> DEFINE N == Len(heap)
             a == heap[n].addr
  <1>1. addresses # Null /\ a \in Addr /\ a \in region[n] /\ N \in Nat
    BY RootThere, LinkFacts, HeapType DEF Searchable, InSearchOrder
  <1>2. PICK down : Down(down, a) /\ Landing(a) = down[N]
    BY <1>1, DownFacts
  <1>3. PICK k \in 0 .. N : down[k] = n
    BY <1>1, <1>2, SearchPasses
  <1>4. Branch(n, a) = Null
    BY <1>1 DEF Branch, Addr
  <1> DEFINE S == {j \in 0 .. N : j >= k => down[j] = n}
  <1> HIDE DEF a
  <1>5. 0 \in S
    BY <1>1, <1>3
  <1>6. ASSUME NEW j \in 1 .. N, j - 1 \in S PROVE j \in S
    <2>1. down[j] = Next1(down[j - 1], a)
      BY <1>2 DEF Down
    <2>2. CASE j = k
      BY <1>3, <2>2
    <2>3. CASE j # k
      BY <1>1, <1>3, <1>4, <1>6, <2>1, <2>3 DEF Next1
    <2> QED
      BY <2>2, <2>3
  <1>7. \A j \in 0 .. N : j \in S
    <2> HIDE DEF S, N
    <2> QED
      BY <1>1, <1>5, <1>6, NatUpTo
  <1>8. Landing(a) = n
    BY <1>1, <1>2, <1>7
  <1> QED
    BY <1>1, <1>8 DEF find_addr, a

(* A search that fails leads to no chain.                                   *)
LEMMA NoChain ==
  ASSUME TypeOK
  PROVE  Chain(Null) = <<>>
  <1> DEFINE N == Len(heap)
             Body(g) == [k \in 0 .. N |->
                           IF k = 0 THEN Null ELSE IF g[k - 1] = Null THEN Null ELSE heap[g[k - 1]].child]
             c == CHOOSE g : g = Body(g)
             there == {k \in 0 .. N : c[k] # Null}
             g0 == [k \in 0 .. N |-> Null]
  <1>1. N \in Nat
    BY HeapType
  <1>2. Chain(Null) = [k \in 1 .. Cardinality(there) |-> c[k - 1]]
    BY DEF Chain
  <1>3. g0 = Body(g0)
    <2>1. ASSUME NEW k \in 0 .. N, k # 0 PROVE g0[k - 1] = Null
      <3>1. k - 1 \in 0 .. N
        BY <1>1, <2>1
      <3> QED
        BY <3>1
    <2> HIDE DEF N
    <2> QED
      BY <2>1
  <1>4. c = Body(c)
    <2> HIDE DEF Body, g0
    <2> QED
      BY <1>3
  <1> HIDE DEF c
  <1> DEFINE S == {k \in 0 .. N : c[k] = Null}
  <1>5. 0 \in S
    BY <1>1, <1>4
  <1>6. ASSUME NEW k \in 1 .. N, k - 1 \in S PROVE k \in S
    <2>1. k \in 0 .. N /\ k # 0
      BY <1>1
    <2> QED
      BY <1>4, <1>6, <2>1
  <1>7. \A k \in 0 .. N : k \in S
    <2> HIDE DEF S, N
    <2> QED
      BY <1>1, <1>5, <1>6, NatUpTo
  <1>8. there = {}
    BY <1>7
  <1>9. Cardinality(there) = 0
    <2> HIDE DEF there
    <2> QED
      BY <1>8, FS_EmptySet
  <1> HIDE DEF there
  <1>10. Chain(Null) = [k \in 1 .. 0 |-> c[k - 1]]
    BY <1>2, <1>9
  <1> QED
    BY <1>10

(* The chain that a search finds holds the nodes of the address, each once. *)
LEMMA ChainOfAddr ==
  ASSUME TypeOK, PointersInv, ChainsInv, NEW rank, NEW region, Searchable(rank, region),
         NEW a \in Addr
  PROVE  /\ find_addr(a) # Null => /\ find_addr(a) \in Placed /\ heap[find_addr(a)].addr = a
                                   /\ find_addr(a) = Landing(a) /\ IsChain(Chain(find_addr(a)), find_addr(a))
         /\ Chain(find_addr(a)) \in Seq(Placed)
         /\ IsInjective(Chain(find_addr(a)))
         /\ Range(Chain(find_addr(a))) = {n \in Placed : heap[n].addr = a}
  <1> DEFINE f == find_addr(a)
             c == Chain(f)
             T == {n \in Placed : heap[n].addr = a /\ n \notin Range(c)}
  <1>1. f # Null => f \in Placed /\ heap[f].addr = a /\ f = Landing(a)
    BY LandingEnds DEF find_addr
  <1>2. f # Null => IsChain(c, f)
    BY <1>1, ChainFacts
  <1>3. f = Null => c = <<>>
    BY NoChain
  <1> HIDE DEF f, c
  <1>4. c \in Seq(Placed)
    <2>1. CASE f = Null
      <3>1. <<>> \in Seq(Placed)
        OBVIOUS
      <3> QED
        BY <1>3, <2>1, <3>1
    <2>2. CASE f # Null
      BY <1>2, <2>2 DEF IsChain
    <2> QED
      BY <2>1, <2>2
  <1>5. IsInjective(c)
    <2> SUFFICES ASSUME NEW i \in DOMAIN c, NEW j \in DOMAIN c, c[i] = c[j] PROVE i = j
      BY DEF IsInjective
    <2>1. f # Null /\ i \in Int /\ j \in Int
      BY <1>3, <1>4
    <2>2. \A k \in DOMAIN c : c[k] \in Int
      BY <1>4, LinkFacts
    <2>3. \A k, l \in DOMAIN c : k < l => c[k] < c[l]
      BY <1>2, <2>1 DEF IsChain
    <2>4. CASE i < j
      BY <2>2, <2>3, <2>4
    <2>5. CASE j < i
      BY <2>2, <2>3, <2>5
    <2> QED
      BY <2>1, <2>4, <2>5
  <1>6. Range(c) \subseteq {n \in Placed : heap[n].addr = a}
    BY <1>1, <1>2, <1>3, <1>4 DEF IsChain, Range
  <1>7. T = {}
    <2> SUFFICES ASSUME T # {} PROVE FALSE
      OBVIOUS
    <2>1. T \subseteq Nat
      BY LinkFacts, HeapType
    <2>2. PICK x \in T : \A y \in T : x <= y
      <3> HIDE DEF T
      <3> QED
        BY <2>1, NatLeast
    <2>3. x \in Placed /\ heap[x].addr = a /\ x # Null
      BY <2>2, LinkFacts
    <2>4. CASE Head1(x)
      <3>1. f = x
        BY <2>3, <2>4, FindsHead DEF f
      <3>2. c # <<>> /\ c[1] = x
        BY <1>2, <2>3, <3>1 DEF IsChain
      <3>3. x \in Range(c)
        BY <1>4, <3>2 DEF Range
      <3> QED
        BY <2>2, <3>3
    <2>5. CASE Chained(x)
      <3>1. PICK m \in Placed : heap[m].child = x
        BY <2>5 DEF Chained
      <3>2. x > m /\ heap[m].addr = a
        BY <2>3, <3>1 DEF ChainsInv
      <3>3. m \in Range(c)
        <4>1. m \in Int /\ x \in Int
          BY <2>3, LinkFacts
        <4> QED
          BY <2>2, <3>2, <4>1
      <3>4. PICK i \in DOMAIN c : c[i] = m
        BY <3>3 DEF Range
      <3>5. f # Null /\ IsChain(c, f)
        BY <1>2, <1>3, <3>4
      <3>6. i # Len(c)
        BY <2>3, <3>1, <3>4, <3>5 DEF IsChain
      <3>7. i \in 1 .. Len(c) - 1 /\ i + 1 \in DOMAIN c
        BY <1>4, <3>6
      <3>8. c[i + 1] = x
        BY <3>1, <3>4, <3>5, <3>7 DEF IsChain
      <3>9. x \in Range(c)
        BY <3>7, <3>8 DEF Range
      <3> QED
        BY <2>2, <3>9
    <2> QED
      BY <2>3, <2>4, <2>5, HeadOrChained
  <1>8. Range(c) = {n \in Placed : heap[n].addr = a}
    BY <1>6, <1>7
  <1> QED
    BY <1>1, <1>2, <1>4, <1>5, <1>8 DEF f, c

(* The nodes of the tree are heads, and every search ends at one.           *)
LEMMA TreeFacts ==
  ASSUME TypeOK, PointersInv
  PROVE  /\ \A n \in TreeNodes : n \in Placed /\ Head1(n)
         /\ addresses # Null => \A a : Landing(a) \in TreeNodes
  <1> DEFINE N == Len(heap)
             V == SUBSET (Placed \cup {Null})
             Grown(B) == B \cup UNION {{heap[n].left, heap[n].right} : n \in B \ {Null}}
             F == [B \in V |-> Grown(B)]
             Body(g) == [k \in 0 .. N |->
                           IF k = 0 THEN {addresses}
                           ELSE g[k - 1] \cup UNION {{heap[n].left, heap[n].right} : n \in g[k - 1] \ {Null}}]
             below == CHOOSE g : g = Body(g)
             b0 == {addresses}
  <1>1. N \in Nat /\ b0 \in V
    BY HeapType DEF PointersInv
  <1>2. F \in [V -> V]
    <2>1. \A B \in V : Grown(B) \in V
      BY LinkFacts
    <2> HIDE DEF Grown
    <2> QED
      BY <2>1
  <1>3. TreeNodes = below[N] \ {Null}
    BY DEF TreeNodes
  <1>4. PICK g \in [0 .. N -> V] : Walk(g, N, b0, F)
    <2> HIDE DEF F, N, V, b0
    <2> QED
      BY <1>1, <1>2, WalkExists
  <1>5. g = Body(g)
    <2>1. ASSUME NEW k \in 0 .. N
          PROVE  g[k] = IF k = 0 THEN {addresses} ELSE Grown(g[k - 1])
      <3>1. CASE k = 0
        BY <1>4, <3>1 DEF Walk
      <3>2. CASE k # 0
        <4>1. k \in 1 .. N /\ k - 1 \in 0 .. N
          BY <1>1, <3>2
        <4>2. g[k] = F[g[k - 1]] /\ g[k - 1] \in V
          <5> HIDE DEF F, V
          <5> QED
            BY <1>4, <4>1 DEF Walk
        <4> HIDE DEF Grown, V
        <4> QED
          BY <3>2, <4>2
      <3> QED
        BY <3>1, <3>2
    <2> HIDE DEF F, N
    <2> QED
      BY <2>1
  <1>6. below = Body(below)
    <2> HIDE DEF Body
    <2> QED
      BY <1>5
  <1> HIDE DEF below
  <1>7. below[0] = {addresses}
    BY <1>1, <1>6
  <1>8. ASSUME NEW k \in 1 .. N
        PROVE  below[k] = Grown(below[k - 1])
    <2>1. k \in 0 .. N /\ k # 0
      BY <1>1
    <2> QED
      BY <1>6, <2>1
  <1>9. \A n \in TreeNodes : n \in Placed /\ Head1(n)
    <2> DEFINE S == {k \in 0 .. N : \A n \in below[k] : n # Null => n \in Placed /\ Head1(n)}
    <2>1. 0 \in S
      BY <1>1, <1>7 DEF PointersInv, Head1
    <2>2. ASSUME NEW k \in 1 .. N, k - 1 \in S PROVE k \in S
      <3>1. ASSUME NEW n \in Grown(below[k - 1]), n # Null PROVE n \in Placed /\ Head1(n)
        <4>1. CASE n \in below[k - 1]
          BY <2>2, <3>1, <4>1
        <4>2. CASE n \notin below[k - 1]
          <5>1. PICK m \in below[k - 1] \ {Null} : n \in {heap[m].left, heap[m].right}
            BY <3>1, <4>2
          <5>2. m \in Placed
            BY <2>2
          <5> QED
            BY <3>1, <5>1, <5>2, LinkFacts DEF Head1
        <4> QED
          BY <4>1, <4>2
      <3> HIDE DEF Grown
      <3> QED
        BY <1>1, <1>8, <3>1
    <2>3. \A k \in 0 .. N : k \in S
      <3> HIDE DEF S, N
      <3> QED
        BY <1>1, <2>1, <2>2, NatUpTo
    <2> QED
      BY <1>1, <1>3, <2>3
  <1>10. ASSUME addresses # Null, NEW a PROVE Landing(a) \in TreeNodes
    <2>1. PICK down : Down(down, a) /\ Landing(a) = down[N]
      BY <1>10, DownFacts
    <2> DEFINE S == {k \in 0 .. N : down[k] \in below[k]}
    <2>2. 0 \in S
      BY <1>1, <1>7, <2>1 DEF Down
    <2>3. ASSUME NEW k \in 1 .. N, k - 1 \in S PROVE k \in S
      <3>1. k - 1 \in 0 .. N /\ down[k] = Next1(down[k - 1], a) /\ down[k - 1] \in Placed
        BY <1>1, <2>1 DEF Down
      <3>2. down[k - 1] # Null /\ down[k - 1] \in below[k - 1]
        BY <2>3, <3>1, LinkFacts
      <3>3. down[k] \in Grown(below[k - 1])
        BY <3>1, <3>2 DEF Next1, Branch
      <3> HIDE DEF Grown
      <3> QED
        BY <1>1, <1>8, <3>3
    <2>4. \A k \in 0 .. N : k \in S
      <3> HIDE DEF S, N
      <3> QED
        BY <1>1, <2>2, <2>3, NatUpTo
    <2>5. Landing(a) \in Placed /\ Landing(a) # Null
      BY <1>1, <2>1, LinkFacts DEF Down
    <2> QED
      BY <1>1, <1>3, <2>1, <2>4, <2>5
  <1> QED
    BY <1>9, <1>10

-----------------------------------------------------------------------------
(* What the invariant says of the module.                                   *)

(* An access comes by each live watchpoint but those of other addresses.    *)
LEMMA VisitFacts ==
  ASSUME TypeOK, PointersInv, ChainsInv, SearchInv, ListsInv, NEW a \in Addr
  PROVE  /\ Visited(a) \in Seq(Live)
         /\ \A i, j \in DOMAIN Visited(a) : Visited(a)[i] = Visited(a)[j] => i = j
         /\ \A n \in Live : (\E i \in DOMAIN Visited(a) : Visited(a)[i] = n)
                              <=> (heap[n].subtype = "address" => heap[n].addr = a)
  <1> DEFINE c == Chain(find_addr(a))
             walk == c \o generics \o address_ranges
  <1>1. PICK rank, region : Searchable(rank, region)
    BY DEF SearchInv, Searchable
  <1>2. c \in Seq(Placed) /\ IsInjective(c) /\ Range(c) = {n \in Placed : heap[n].addr = a}
    BY <1>1, ChainOfAddr
  <1>3. /\ \A i, j \in DOMAIN c : c[i] = c[j] => i = j
        /\ \A i \in DOMAIN c : c[i] \in Live /\ heap[c[i]].subtype = "address" /\ heap[c[i]].addr = a
        /\ \A n \in Live : heap[n].subtype = "address" /\ heap[n].addr = a => \E i \in DOMAIN c : c[i] = n
    BY <1>2 DEF IsInjective, Range, Placed
  <1>4. /\ \A i, j \in DOMAIN generics : generics[i] = generics[j] => i = j
        /\ \A i \in DOMAIN generics : generics[i] \in Live /\ heap[generics[i]].subtype = "generic"
        /\ \A n \in Live : heap[n].subtype = "generic" => \E i \in DOMAIN generics : generics[i] = n
    BY DEF ListsInv, Listed, IsInjective, Range
  <1>5. /\ \A i, j \in DOMAIN address_ranges : address_ranges[i] = address_ranges[j] => i = j
        /\ \A i \in DOMAIN address_ranges :
             address_ranges[i] \in Live /\ heap[address_ranges[i]].subtype = "range"
        /\ \A n \in Live : heap[n].subtype = "range" => \E i \in DOMAIN address_ranges : address_ranges[i] = n
    BY DEF ListsInv, Listed, IsInjective, Range
  <1> HIDE DEF c
  <1>6. c \in Seq(Live) /\ generics \in Seq(Live) /\ address_ranges \in Seq(Live)
    <2>1. c \in Seq(Placed) /\ generics \in Seq(DOMAIN heap) /\ address_ranges \in Seq(DOMAIN heap)
      BY <1>2 DEF TypeOK
    <2> QED
      BY <1>3, <1>4, <1>5, <2>1
  <1> DEFINE k == Len(c)
             l == Len(c) + Len(generics)
  <1>7. /\ walk \in Seq(Live) /\ DOMAIN walk = 1 .. l + Len(address_ranges)
        /\ k \in Nat /\ l \in Nat /\ Len(address_ranges) \in Nat /\ Len(generics) \in Nat
        /\ \A i \in DOMAIN c : i \in DOMAIN walk /\ i <= k /\ walk[i] = c[i]
        /\ \A i \in DOMAIN generics : k + i \in DOMAIN walk /\ walk[k + i] = generics[i]
        /\ \A i \in DOMAIN address_ranges : l + i \in DOMAIN walk /\ walk[l + i] = address_ranges[i]
        /\ \A i \in DOMAIN walk : \/ i \in DOMAIN c
                                  \/ i > k /\ i - k \in DOMAIN generics
                                  \/ i > l /\ i - l \in DOMAIN address_ranges
    BY <1>6
  <1> HIDE DEF walk
  <1>8. \A i \in DOMAIN walk :
          \/ i \in DOMAIN c /\ walk[i] = c[i] /\ heap[walk[i]].subtype = "address"
          \/ i - k \in DOMAIN generics /\ walk[i] = generics[i - k] /\ heap[walk[i]].subtype = "generic"
          \/ i - l \in DOMAIN address_ranges /\ walk[i] = address_ranges[i - l] /\ heap[walk[i]].subtype = "range"
    <2> TAKE i \in DOMAIN walk
    <2>0. i \in Int
      BY <1>7
    <2>1. CASE i \in DOMAIN c
      BY <1>3, <1>7, <2>1
    <2>2. CASE i - k \in DOMAIN generics
      <3>1. k + (i - k) = i
        BY <1>7, <2>0
      <3> QED
        BY <1>4, <1>7, <2>2, <3>1
    <2>3. CASE i - l \in DOMAIN address_ranges
      <3>1. l + (i - l) = i
        BY <1>7, <2>0
      <3> QED
        BY <1>5, <1>7, <2>3, <3>1
    <2> QED
      BY <1>7, <2>1, <2>2, <2>3
  <1>9. ASSUME NEW i \in DOMAIN walk, NEW j \in DOMAIN walk, walk[i] = walk[j] PROVE i = j
    <2>1. i \in Int /\ j \in Int /\ k \in Int /\ l \in Int
      BY <1>7
    <2>2. CASE heap[walk[i]].subtype = "address"
      BY <1>3, <1>8, <1>9, <2>2
    <2>3. CASE heap[walk[i]].subtype = "generic"
      <3>1. i - k \in DOMAIN generics /\ j - k \in DOMAIN generics /\ generics[i - k] = generics[j - k]
        BY <1>8, <1>9, <2>3
      <3>2. i - k = j - k
        BY <1>4, <3>1
      <3> QED
        BY <2>1, <3>2
    <2>4. CASE heap[walk[i]].subtype = "range"
      <3>1. /\ i - l \in DOMAIN address_ranges /\ j - l \in DOMAIN address_ranges
            /\ address_ranges[i - l] = address_ranges[j - l]
        BY <1>8, <1>9, <2>4
      <3>2. i - l = j - l
        BY <1>5, <3>1
      <3> QED
        BY <2>1, <3>2
    <2> QED
      BY <1>8, <2>2, <2>3, <2>4
  <1>10. ASSUME NEW n \in Live
         PROVE  (\E i \in DOMAIN walk : walk[i] = n)
                  <=> (heap[n].subtype = "address" => heap[n].addr = a)
    <2>1. heap[n].subtype \in {"generic", "address", "range"}
      BY HeapType, NodeFacts
    <2>2. ASSUME NEW i \in DOMAIN walk, walk[i] = n, heap[n].subtype = "address" PROVE heap[n].addr = a
      BY <1>3, <1>8, <2>2
    <2>3. CASE heap[n].subtype = "address" /\ heap[n].addr = a
      BY <1>3, <1>7, <2>3
    <2>4. CASE heap[n].subtype = "generic"
      BY <1>4, <1>7, <2>4
    <2>5. CASE heap[n].subtype = "range"
      BY <1>5, <1>7, <2>5
    <2> QED
      BY <2>1, <2>2, <2>3, <2>4, <2>5
  <1>11. Visited(a) = walk
    BY DEF Visited, walk, c
  <1> QED
    BY <1>7, <1>9, <1>10, <1>11

(* Those it calls are those due.                                            *)
LEMMA Dispatches ==
  ASSUME TypeOK, PointersInv, ChainsInv, SearchInv, ListsInv, WatchedInv
  PROVE  DispatchExact
  <1> SUFFICES ASSUME NEW a \in Addr, NEW e \in Events
               PROVE  LET due == {n \in DOMAIN watched : a \in watched[n].at /\ e \in watched[n].on}
                          mute == mode = (IF e = "read" THEN "wo" ELSE "ro")
                          called == Called(Visited(a), a, e)
                      IN  /\ {Visited(a)[i] : i \in called} = (IF mute THEN {} ELSE due)
                          /\ \A i, j \in called : Visited(a)[i] = Visited(a)[j] => i = j
    BY DEF DispatchExact
  <1> DEFINE due == {n \in DOMAIN watched : a \in watched[n].at /\ e \in watched[n].on}
             mute == mode = (IF e = "read" THEN "wo" ELSE "ro")
             walk == Visited(a)
             called == Called(walk, a, e)
  <1>1. /\ walk \in Seq(Live) /\ \A i, j \in DOMAIN walk : walk[i] = walk[j] => i = j
        /\ \A n \in Live : (\E i \in DOMAIN walk : walk[i] = n)
                              <=> (heap[n].subtype = "address" => heap[n].addr = a)
    BY VisitFacts
  <1> HIDE DEF walk
  <1>2. called = {i \in DOMAIN walk : ~ mute /\ Meets(walk[i], a) /\ e \in heap[walk[i]].on_events}
    BY DEF Called
  <1>3. ASSUME NEW n \in Live
        PROVE  n \in due <=> /\ heap[n].subtype = "address" => heap[n].addr = a
                             /\ Meets(n, a) /\ e \in heap[n].on_events
    <2>1. /\ n \in DOMAIN watched /\ n \notin freed /\ n \in 1 .. Len(heap)
          /\ watched[n] = [at |-> IF heap[n].subtype = "generic" THEN Addr
                                 ELSE IF heap[n].subtype = "range" THEN Addrs(heap[n].addr_range)
                                 ELSE {heap[n].addr},
                           on |-> heap[n].on_events \cap Events]
      BY HeapType DEF WatchedInv, AskedFor, Live
    <2>2. heap[n].subtype \in {"generic", "address", "range"}
      BY <2>1, HeapType, NodeFacts
    <2>3. n \in due <=> a \in watched[n].at /\ e \in heap[n].on_events
      BY <2>1
    <2>4. a \in watched[n].at <=> (heap[n].subtype = "address" => heap[n].addr = a) /\ Meets(n, a)
      <3>1. CASE heap[n].subtype = "generic"
        BY <2>1, <3>1 DEF Meets
      <3>2. CASE heap[n].subtype = "range"
        BY <2>1, <3>2 DEF Meets, Addrs
      <3>3. CASE heap[n].subtype = "address"
        BY <2>1, <3>3 DEF Meets
      <3> QED
        BY <2>2, <3>1, <3>2, <3>3
    <2> QED
      BY <2>3, <2>4
  <1>4. due \subseteq Live
    BY HeapType DEF WatchedInv, AskedFor, Live
  <1> HIDE DEF due, called, mute
  <1>5. \A i \in called : i \in DOMAIN walk /\ walk[i] \in Live
    BY <1>1, <1>2
  <1>6. {walk[i] : i \in called} = IF mute THEN {} ELSE due
    <2>1. CASE mute
      BY <1>2, <2>1
    <2>2. CASE ~ mute
      <3>1. ASSUME NEW i \in called PROVE walk[i] \in due
        BY <1>1, <1>2, <1>3, <1>5, <3>1
      <3>2. ASSUME NEW n \in due PROVE \E i \in called : walk[i] = n
        BY <1>1, <1>2, <1>3, <1>4, <2>2, <3>2
      <3> QED
        BY <2>2, <3>1, <3>2
    <2> QED
      BY <2>1, <2>2
  <1>7. \A i, j \in called : walk[i] = walk[j] => i = j
    BY <1>1, <1>5
  <1> QED
    BY <1>6, <1>7 DEF due, mute, called, walk

(* A node's parent leads back to it, unless it was freed.                   *)
LEMMA LeadsBack ==
  ASSUME TypeOK, PointersInv
  PROVE  ParentsLeadBack
  <1> SUFFICES ASSUME NEW n \in Placed
               PROVE  LET up == heap[n].parent
                      IN  /\ up = Null <=> n = addresses
                          /\ up # Null /\ up \notin freed =>
                               Cardinality({s \in {"left", "right", "child"} : heap[up][s] = n}) = 1
                          /\ up \in freed => n \notin TreeNodes
    BY DEF ParentsLeadBack, Placed
  <1> DEFINE up == heap[n].parent
  <1>1. up = Null <=> n = addresses
    BY DEF PointersInv
  <1>2. n # Null /\ Null \notin freed
    BY LinkFacts, HeapType DEF Null
  <1>3. ASSUME up # Null, up \notin freed
        PROVE  Cardinality({s \in {"left", "right", "child"} : heap[up][s] = n}) = 1
    <2>1. PICK m \in Placed, s \in Sides : heap[m][s] = n
      BY <1>1, <1>3 DEF PointersInv
    <2>2. up = m /\ \A t \in Sides : heap[m][t] = n => t = s
      BY <1>2, <1>3, <2>1 DEF PointersInv
    <2>3. {t \in {"left", "right", "child"} : heap[up][t] = n} = {s}
      BY <2>1, <2>2 DEF Sides
    <2> QED
      BY <2>3, FS_Singleton
  <1>4. ASSUME up \in freed PROVE n \notin TreeNodes
    <2> SUFFICES ASSUME Head1(n) PROVE FALSE
      BY TreeFacts
    <2>1. n # addresses
      BY <1>1, <1>2, <1>4
    <2>2. PICK m \in Placed, s \in {"left", "right"} : heap[m][s] = n
      BY <2>1, LinkFacts DEF Head1
    <2>3. up = m
      BY <1>2, <2>2 DEF PointersInv, Sides
    <2> QED
      BY <1>4, <2>3, LinkFacts
  <1> QED
    BY <1>1, <1>3, <1>4

-----------------------------------------------------------------------------
(* What a step keeps.                                                       *)

(* More nodes make more pointers.                                           *)
LEMMA Widened ==
  ASSUME NEW top \in Nat, NEW h, Heap(h, top)
  PROVE  Heap(h, top + 1)
  <1>1. NodeType(top) \subseteq NodeType(top + 1)
    <2> SUFFICES ASSUME NEW r \in NodeType(top) PROVE r \in NodeType(top + 1)
      OBVIOUS
    <2>1. 0 .. top \subseteq 0 .. top + 1
      OBVIOUS
    <2> QED
      BY <2>1 DEF NodeType
  <1> QED
    BY <1>1 DEF Heap

(* A node is allocated at the end of the heap.                              *)
LEMMA Allocates ==
  ASSUME NEW top \in Nat, NEW h, Heap(h, top), NEW node \in NodeType(top)
  PROVE  /\ Heap(Append(h, node), top) /\ Len(Append(h, node)) = Len(h) + 1
         /\ \A m \in 1 .. Len(h) : Append(h, node)[m] = h[m]
         /\ Append(h, node)[Len(h) + 1] = node
  BY DEF Heap

(* A new node has no branches.                                              *)
LEMMA NodeTyped ==
  ASSUME NEW top \in Nat, NEW s \in {"generic", "address", "range"},
         NEW e \in SUBSET (Events \cup {"merge"}), NEW f \in Callbacks \cup {Null}, NEW a \in Addr,
         NEW r \in AddrRanges, NEW p \in 0 .. top
  PROVE  LET node == Node(s, e, f, a, r, p)
         IN  /\ node \in NodeType(top)
             /\ node.subtype = s /\ node.on_events = e /\ node.addr = a /\ node.addr_range = r
             /\ node["parent"] = p /\ node["left"] = Null /\ node["right"] = Null /\ node["child"] = Null
  BY DEF Node, NodeType, Null

(* The heap gives the types of what points into it.                         *)
LEMMA TypeKept ==
  ASSUME TypeOK, Heap(heap', Len(heap')), Len(heap') \in Nat, Len(heap) <= Len(heap'),
         freed' \subseteq DOMAIN heap', addresses' \in 0 .. Len(heap'),
         generics' \in Seq(DOMAIN heap'), address_ranges' \in Seq(DOMAIN heap'),
         mode' = mode, is_up' \in BOOLEAN, damaged' \in BOOLEAN,
         \A n \in DOMAIN heap' : heap'[n].subtype = "range" => heap'[n].addr_range.addr_len # 0
  PROVE  TypeOK'
  BY DEF TypeOK, Heap, NodeType, Pointers

(* The tree is what it was where the pointers and addresses of its nodes    *)
(* are.                                                                     *)
SameNode(n) ==
  /\ \A s \in Links : heap'[n][s] = heap[n][s]
  /\ heap'[n].addr = heap[n].addr
(* The pointers, the chains and the searches are then in order still.       *)
LEMMA TreeKept ==
  ASSUME TypeOK, TypeOK', Placed' = Placed, addresses' = addresses, freed \subseteq freed',
         Len(heap) <= Len(heap'), \A n \in Placed : SameNode(n),
         PointersInv, ChainsInv, SearchInv
  PROVE  PointersInv' /\ ChainsInv' /\ SearchInv'
  <1>1. ASSUME NEW n \in Placed
        PROVE  /\ n \in 1 .. Len(heap) /\ n \in 1 .. Len(heap')
               /\ heap'[n].left = heap[n].left /\ heap'[n].right = heap[n].right
               /\ heap'[n].child = heap[n].child /\ heap'[n].parent = heap[n].parent
               /\ heap'[n].addr = heap[n].addr
               /\ \A s \in Sides : heap'[n][s] = heap[n][s]
    <2>1. n \in 1 .. Len(heap) /\ n \in 1 .. Len(heap') /\ Len(heap') \in Nat /\ Heap(heap', Len(heap'))
      <3>1. n \in 1 .. Len(heap)
        BY LinkFacts
      <3>2. Heap(heap', Len(heap')) /\ Len(heap') \in Nat
        BY HeapTypeNext
      <3> QED
        BY <3>1, <3>2, HeapType
    <2>2. SameNode(n)
      OBVIOUS
    <2> QED
      BY <2>1, <2>2, NodeFacts, HeapType DEF SameNode, Links, Sides
  <1>2. PointersInv'
    <2>1. addresses' \in Placed' \cup {Null}
      BY DEF PointersInv
    <2>2. ASSUME NEW n \in Placed
          PROVE  /\ heap'[n].parent = Null <=> n = addresses'
                 /\ n = addresses' \/ \E m \in Placed', s \in Sides : heap'[m][s] = n
      BY <1>1, <2>2 DEF PointersInv
    <2>3. ASSUME NEW n \in Placed, NEW s \in Sides, heap'[n][s] # Null
          PROVE  /\ heap'[n][s] \in Placed'
                 /\ heap'[heap'[n][s]].parent \in {n} \cup (IF s = "child" THEN freed' ELSE {})
                 /\ \A m \in Placed', t \in Sides : heap'[m][t] = heap'[n][s] => m = n /\ t = s
      <3> DEFINE x == heap[n][s]
      <3>1. heap'[n][s] = x /\ x # Null
        BY <1>1, <2>3
      <3>2. x \in Placed /\ heap[x].parent \in {n} \cup (IF s = "child" THEN freed ELSE {})
            /\ \A m \in Placed, t \in Sides : heap[m][t] = x => m = n /\ t = s
        BY <3>1 DEF PointersInv
      <3> HIDE DEF x
      <3> QED
        BY <1>1, <3>1, <3>2
    <2> QED
      BY <2>1, <2>2, <2>3 DEF PointersInv
  <1>3. ChainsInv'
    <2> SUFFICES ASSUME NEW n \in Placed, heap'[n].child # Null
                 PROVE  LET next == heap'[n].child
                        IN  /\ next > n /\ heap'[next].addr = heap'[n].addr
                            /\ heap'[next].left = Null /\ heap'[next].right = Null
      BY DEF ChainsInv
    <2>1. heap[n].child \in Placed
      BY <1>1, LinkFacts
    <2> QED
      BY <1>1, <2>1 DEF ChainsInv
  <1>4. SearchInv'
    <2>1. PICK rank, region : Searchable(rank, region)
      BY DEF SearchInv, Searchable
    <2> DEFINE Ranks == [n \in DOMAIN heap' |-> IF n \in Placed THEN rank[n] ELSE 0]
               Regions == [n \in DOMAIN heap' |-> IF n \in Placed THEN region[n] ELSE {}]
    <2>2. \A n \in Placed : rank[n] \in Nat /\ region[n] \in SUBSET Addr
      BY <2>1, HeapType, LinkFacts DEF Searchable
    <2>3. Ranks \in [DOMAIN heap' -> Nat] /\ Regions \in [DOMAIN heap' -> SUBSET Addr]
      BY <2>2
    <2>4. \A n \in Placed : Ranks[n] = rank[n] /\ Regions[n] = region[n]
      <3>1. \A n \in Placed : n \in DOMAIN heap'
        <4>1. DOMAIN heap' = 1 .. Len(heap')
          BY HeapTypeNext
        <4> QED
          BY <1>1, <4>1
      <3> QED
        BY <3>1
    <2> HIDE DEF Ranks, Regions
    <2>5. PICK rank2 \in [DOMAIN heap' -> Nat], region2 \in [DOMAIN heap' -> SUBSET Addr] :
            \A n \in Placed : rank2[n] = rank[n] /\ region2[n] = region[n]
      BY <2>3, <2>4
    <2>6. InSearchOrder(rank2, region2)'
      <3> SUFFICES ASSUME NEW n \in Placed
                   PROVE  /\ rank2[n] < Len(heap') /\ heap'[n].addr \in region2[n]
                          /\ heap'[n].left # Null =>
                               /\ rank2[n] < rank2[heap'[n].left]
                               /\ \A a \in region2[heap'[n].left] : a \in region2[n] /\ a < heap'[n].addr
                          /\ heap'[n].right # Null =>
                               /\ rank2[n] < rank2[heap'[n].right]
                               /\ \A a \in region2[heap'[n].right] : a \in region2[n] /\ heap'[n].addr < a
        BY DEF InSearchOrder
      <3>1. heap[n].left \in Placed \cup {Null} /\ heap[n].right \in Placed \cup {Null}
        BY LinkFacts
      <3>2. rank[n] < Len(heap) /\ rank[n] \in Nat /\ Len(heap) \in Nat /\ Len(heap') \in Nat
        <4>1. Len(heap') \in Nat
          BY HeapTypeNext
        <4> QED
          BY <2>1, <2>2, <4>1, HeapType DEF Searchable, InSearchOrder
      <3>3. rank2[n] < Len(heap')
        BY <2>5, <3>2
      <3>4. heap'[n].addr \in region2[n]
        BY <1>1, <2>1, <2>5 DEF Searchable, InSearchOrder
      <3>5. ASSUME heap'[n].left # Null
            PROVE  /\ rank2[n] < rank2[heap'[n].left]
                   /\ \A a \in region2[heap'[n].left] : a \in region2[n] /\ a < heap'[n].addr
        <4>1. heap'[n].left = heap[n].left /\ heap[n].left \in Placed
          BY <1>1, <3>1, <3>5
        <4>2. /\ rank[n] < rank[heap[n].left]
              /\ \A a \in region[heap[n].left] : a \in region[n] /\ a < heap[n].addr
          BY <2>1, <3>5, <4>1 DEF Searchable, InSearchOrder
        <4> QED
          BY <1>1, <2>5, <4>1, <4>2
      <3>6. ASSUME heap'[n].right # Null
            PROVE  /\ rank2[n] < rank2[heap'[n].right]
                   /\ \A a \in region2[heap'[n].right] : a \in region2[n] /\ heap'[n].addr < a
        <4>1. heap'[n].right = heap[n].right /\ heap[n].right \in Placed
          BY <1>1, <3>1, <3>6
        <4>2. /\ rank[n] < rank[heap[n].right]
              /\ \A a \in region[heap[n].right] : a \in region[n] /\ heap[n].addr < a
          BY <2>1, <3>6, <4>1 DEF Searchable, InSearchOrder
        <4> QED
          BY <1>1, <2>5, <4>1, <4>2
      <3> QED
        BY <3>3, <3>4, <3>5, <3>6
    <2>7. addresses' # Null => region2[addresses'] = Addr
      BY <2>1, <2>5 DEF PointersInv, Searchable
    <2> QED
      BY <2>6, <2>7 DEF SearchInv
  <1> QED
    BY <1>2, <1>3, <1>4

(* An allocation, and what the history makes of it.                         *)
SameKind(m) ==
  /\ heap'[m].subtype = heap[m].subtype /\ heap'[m].on_events = heap[m].on_events
  /\ heap'[m].addr = heap[m].addr /\ heap'[m].addr_range = heap[m].addr_range
Extended(node) ==
  /\ Heap(heap', Len(heap) + 1) /\ Len(heap') = Len(heap) + 1 /\ heap'[New] = node
  /\ \A m \in 1 .. Len(heap) : SameKind(m)
(* The history of a new node is what was asked for.                         *)
LEMMA WatchedExtended ==
  ASSUME TypeOK, WatchedInv, NEW node, Extended(node), freed' = freed,
         watched' = Append(watched, AskedFor(node))
  PROVE  WatchedInv' /\ Live' = Live \cup {New} /\ New \notin freed /\ DOMAIN heap' = DOMAIN heap \cup {New}
  <1> DEFINE N == Len(heap)
             W(n) == IF n \in freed THEN [AskedFor(heap[n]) EXCEPT !.on = {}] ELSE AskedFor(heap[n])
             W2(n) == IF n \in freed THEN [AskedFor(heap'[n]) EXCEPT !.on = {}] ELSE AskedFor(heap'[n])
  <1>1. /\ N \in Nat /\ DOMAIN heap = 1 .. N /\ freed \subseteq 1 .. N /\ New = N + 1
        /\ DOMAIN heap' = 1 .. N + 1
    BY HeapType DEF Extended, Heap, New
  <1>2. watched = [n \in 1 .. N |-> W(n)]
    BY <1>1 DEF WatchedInv
  <1>3. \A n \in 1 .. N : W2(n) = W(n)
    BY DEF Extended, SameKind, AskedFor
  <1>4. W2(N + 1) = AskedFor(node)
    BY <1>1 DEF Extended
  <1> HIDE DEF W, W2
  <1>5. watched' = [n \in 1 .. N + 1 |-> IF n = N + 1 THEN AskedFor(node) ELSE W(n)]
    BY <1>1, <1>2
  <1>6. watched' = [n \in 1 .. N + 1 |-> W2(n)]
    BY <1>1, <1>3, <1>4, <1>5
  <1>7. WatchedInv'
    BY <1>1, <1>6 DEF WatchedInv, W2
  <1> QED
    BY <1>1, <1>7 DEF Live

(* A removal, and what the history makes of it.                             *)
LEMMA WatchedForgets ==
  ASSUME TypeOK, WatchedInv, NEW n \in Live, Forget(n), DOMAIN heap' = DOMAIN heap,
         \A m \in DOMAIN heap : SameKind(m)
  PROVE  WatchedInv' /\ Live' = Live \ {n}
  <1> DEFINE W(h, f, m) == IF m \in f THEN [AskedFor(h[m]) EXCEPT !.on = {}] ELSE AskedFor(h[m])
  <1>1. n \in DOMAIN heap /\ freed' = freed \cup {n}
    BY DEF Live, Forget
  <1>2. watched = [m \in DOMAIN heap |-> W(heap, freed, m)]
    BY DEF WatchedInv
  <1>3. \A m \in DOMAIN heap : m # n => W(heap', freed', m) = W(heap, freed, m)
    BY <1>1 DEF SameKind, AskedFor
  <1>4. [W(heap, freed, n) EXCEPT !.on = {}] = W(heap', freed', n)
    BY <1>1 DEF SameKind, AskedFor
  <1> HIDE DEF W
  <1>5. watched' = [watched EXCEPT ![n].on = {}]
    BY DEF Forget
  <1>6. watched' = [m \in DOMAIN heap |-> W(heap', freed', m)]
    BY <1>1, <1>2, <1>3, <1>4, <1>5
  <1>7. WatchedInv'
    BY <1>6 DEF WatchedInv, W
  <1> QED
    BY <1>1, <1>7 DEF Live

(* The mask kept of a request: the history needs no merge bit.              *)
LEMMA MaskedFacts ==
  ASSUME NEW old \in SUBSET (Events \cup {"merge"}), NEW e \in Requests
  PROVE  /\ Masked(old, e) \in SUBSET (Events \cup {"merge"})
         /\ Masked(old \cap Events, e) = Masked(old, e) \cap Events
  BY RequestsAssumption DEF Masked

(* Taking a node out of a list.                                             *)
LEMMA Unlinks ==
  ASSUME NEW V, NEW list \in Seq(V), NEW n, IsInjective(list)
  PROVE  /\ Unlinked(list, n) \in Seq(V) /\ IsInjective(Unlinked(list, n))
         /\ Range(Unlinked(list, n)) = Range(list) \ {n}
  <1> DEFINE at == {i \in DOMAIN list : list[i] = n}
  <1>1. CASE at = {}
    <2>1. Unlinked(list, n) = list
      BY <1>1 DEF Unlinked
    <2>2. Range(list) \ {n} = Range(list)
      BY <1>1 DEF Range
    <2> QED
      BY <2>1, <2>2
  <1>2. CASE at # {}
    <2>1. PICK i \in at : Unlinked(list, n) = RemoveAt(list, i)
      BY <1>2 DEF Unlinked
    <2>2. i \in 1 .. Len(list) /\ list[i] = n /\ Len(list) \in Nat /\ DOMAIN list = 1 .. Len(list)
      BY <2>1
    <2> DEFINE r == RemoveAt(list, i)
    <2>3. /\ r \in Seq(V) /\ Len(r) = Len(list) - 1 /\ DOMAIN r = 1 .. Len(list) - 1
          /\ \A j \in 1 .. Len(list) - 1 : r[j] = IF j < i THEN list[j] ELSE list[j + 1]
      <3> DEFINE x == SubSeq(list, 1, i - 1)
                 y == SubSeq(list, i + 1, Len(list))
      <3>1. x \in Seq(V) /\ Len(x) = i - 1 /\ \A j \in 1 .. i - 1 : x[j] = list[j]
        BY <2>2
      <3>2. /\ y \in Seq(V) /\ Len(y) = Len(list) - i
            /\ \A j \in 1 .. Len(list) - i : y[j] = list[i + j]
        BY <2>2
      <3>3. r = x \o y
        BY DEF RemoveAt
      <3> HIDE DEF x, y
      <3>4. x \o y \in Seq(V) /\ Len(x \o y) = Len(list) - 1
        <4>1. x \o y \in Seq(V) /\ Len(x \o y) = Len(x) + Len(y)
          <5>1. x \in Seq(V) /\ y \in Seq(V)
            BY <3>1, <3>2
          <5> QED
            BY <5>1, ConcatProperties
        <4> QED
          BY <2>2, <3>1, <3>2, <4>1
      <3>5. ASSUME NEW j \in 1 .. Len(list) - 1
            PROVE  (x \o y)[j] = IF j < i THEN list[j] ELSE list[j + 1]
        <4>1. CASE j < i
          BY <2>2, <3>1, <3>2, <4>1
        <4>2. CASE ~ (j < i)
          <5>1. j - (i - 1) \in 1 .. Len(list) - i /\ i + (j - (i - 1)) = j + 1
            BY <2>2, <4>2
          <5>2. (x \o y)[j] = y[j - (i - 1)]
            BY <2>2, <3>1, <3>2, <4>2
          <5> QED
            BY <3>2, <4>2, <5>1, <5>2
        <4> QED
          BY <4>1, <4>2
      <3> QED
        BY <3>3, <3>4, <3>5
    <2> HIDE DEF r
    <2>4. \A j, k \in DOMAIN list : list[j] = list[k] => j = k
      BY DEF IsInjective
    <2>5. ASSUME NEW j \in DOMAIN r, NEW k \in DOMAIN r, r[j] = r[k] PROVE j = k
      <3>1. j \in 1 .. Len(list) /\ j + 1 \in 1 .. Len(list) /\ k \in 1 .. Len(list) /\ k + 1 \in 1 .. Len(list)
        BY <2>2, <2>3
      <3> QED
        BY <2>2, <2>3, <2>4, <2>5, <3>1
    <2>6. ASSUME NEW j \in DOMAIN r PROVE \E k \in DOMAIN list : r[j] = list[k] /\ list[k] # n
      <3>1. j \in 1 .. Len(list) /\ j + 1 \in 1 .. Len(list)
        BY <2>2, <2>3
      <3>2. CASE j < i
        <4>1. r[j] = list[j] /\ j # i
          BY <2>2, <2>3, <3>2
        <4> QED
          BY <2>2, <2>4, <3>1, <4>1
      <3>3. CASE ~ (j < i)
        <4>1. r[j] = list[j + 1] /\ j + 1 # i
          BY <2>2, <2>3, <3>1, <3>3
        <4> QED
          BY <2>2, <2>4, <3>1, <4>1
      <3> QED
        BY <3>2, <3>3
    <2>7. ASSUME NEW k \in DOMAIN list, list[k] # n PROVE \E j \in DOMAIN r : r[j] = list[k]
      <3>1. CASE k < i
        <4>1. k \in DOMAIN r /\ r[k] = list[k]
          BY <2>2, <2>3, <3>1
        <4> QED
          BY <4>1
      <3>2. CASE k > i
        <4>1. k - 1 \in DOMAIN r /\ ~ (k - 1 < i) /\ (k - 1) + 1 = k
          BY <2>2, <2>3, <3>2
        <4> QED
          BY <2>3, <4>1
      <3> QED
        BY <2>2, <2>7, <3>1, <3>2
    <2>8. Range(r) = Range(list) \ {n}
      BY <2>6, <2>7 DEF Range
    <2> QED
      BY <2>1, <2>3, <2>5, <2>8 DEF IsInjective, r
  <1> QED
    BY <1>1, <1>2

(* A list is one of live nodes in the front of which a new one is put.      *)
LEMMA Listens ==
  ASSUME NEW V, NEW list \in Seq(V), NEW x, IsInjective(list), x \notin Range(list)
  PROVE  /\ <<x>> \o list \in Seq(V \cup {x}) /\ IsInjective(<<x>> \o list)
         /\ Range(<<x>> \o list) = Range(list) \cup {x}
  <1> DEFINE r == <<x>> \o list
  <1>1. /\ r \in Seq(V \cup {x}) /\ Len(list) \in Nat /\ DOMAIN list = 1 .. Len(list)
        /\ DOMAIN r = 1 .. Len(list) + 1
        /\ \A i \in 1 .. Len(list) + 1 : r[i] = IF i = 1 THEN x ELSE list[i - 1]
    OBVIOUS
  <1> HIDE DEF r
  <1>2. \A i \in DOMAIN r : i # 1 => i - 1 \in DOMAIN list /\ r[i] = list[i - 1]
    BY <1>1
  <1>3. \A i \in DOMAIN list : i + 1 \in DOMAIN r /\ r[i + 1] = list[i]
    BY <1>1
  <1>4. 1 \in DOMAIN r /\ r[1] = x
    BY <1>1
  <1>5. \A i \in DOMAIN list : list[i] # x
    BY DEF Range
  <1>6. ASSUME NEW i \in DOMAIN r, NEW j \in DOMAIN r, r[i] = r[j] PROVE i = j
    <2>1. \A k, l \in DOMAIN list : list[k] = list[l] => k = l
      BY DEF IsInjective
    <2> QED
      BY <1>1, <1>2, <1>4, <1>5, <1>6, <2>1
  <1>7. Range(r) = Range(list) \cup {x}
    BY <1>2, <1>3, <1>4 DEF Range
  <1> QED
    BY <1>1, <1>6, <1>7 DEF IsInjective, r

-----------------------------------------------------------------------------
(* The lists and the masks.                                                 *)

Parts == PointersInv /\ ChainsInv /\ SearchInv /\ ListsInv /\ WatchedInv

(* A generic watchpoint or one of a range goes in front of its list.        *)
LEMMA ListedStep ==
  ASSUME TypeOK, Parts, is_up, ~ damaged, NEW node \in NodeType(Len(heap) + 1),
         node.subtype \in {"generic", "range"},
         node.subtype = "range" => node.addr_range.addr_len # 0,
         heap' = Append(heap, node), watched' = Append(watched, AskedFor(node)),
         generics' = IF node.subtype = "generic" THEN <<New>> \o generics ELSE generics,
         address_ranges' = IF node.subtype = "range" THEN <<New>> \o address_ranges ELSE address_ranges,
         UNCHANGED <<freed, addresses, mode, is_up, damaged>>
  PROVE  IInv'
  <1>1. Extended(node)
    <2>1. Heap(heap, Len(heap) + 1) /\ Len(heap) + 1 \in Nat
      BY HeapType, Widened
    <2> QED
      BY <2>1, Allocates DEF Extended, SameKind, New
  <1>2. WatchedInv' /\ Live' = Live \cup {New} /\ New \notin freed /\ DOMAIN heap' = DOMAIN heap \cup {New}
    BY <1>1, WatchedExtended DEF Parts
  <1>3. heap'[New] = node /\ \A m \in DOMAIN heap : heap'[m] = heap[m] /\ m # New
    <2>1. DOMAIN heap = 1 .. Len(heap) /\ Len(heap) \in Nat
      BY HeapType
    <2> QED
      BY <2>1 DEF New
  <1>4. Placed' = Placed
    BY <1>2, <1>3 DEF Placed, Live
  <1>5. /\ generics \in Seq(DOMAIN heap) /\ IsInjective(generics)
        /\ Range(generics) = {n \in Live : heap[n].subtype = "generic"}
        /\ address_ranges \in Seq(DOMAIN heap) /\ IsInjective(address_ranges)
        /\ Range(address_ranges) = {n \in Live : heap[n].subtype = "range"}
    BY DEF TypeOK, Parts, ListsInv, Listed
  <1>6. New \notin Live /\ Live \subseteq DOMAIN heap
    BY <1>3 DEF Live
  <1>7. /\ <<New>> \o generics \in Seq(DOMAIN heap') /\ IsInjective(<<New>> \o generics)
        /\ Range(<<New>> \o generics) = Range(generics) \cup {New}
    BY <1>2, <1>5, <1>6, Listens
  <1>8. /\ <<New>> \o address_ranges \in Seq(DOMAIN heap') /\ IsInjective(<<New>> \o address_ranges)
        /\ Range(<<New>> \o address_ranges) = Range(address_ranges) \cup {New}
    BY <1>2, <1>5, <1>6, Listens
  <1>9. generics \in Seq(DOMAIN heap') /\ address_ranges \in Seq(DOMAIN heap')
    <2>1. DOMAIN heap \subseteq DOMAIN heap'
      BY <1>2
    <2> QED
      BY <1>5, <2>1
  <1>10. ListsInv'
    <2>1. {n \in Live' : heap'[n].subtype = "generic"} =
            IF node.subtype = "generic" THEN {n \in Live : heap[n].subtype = "generic"} \cup {New}
            ELSE {n \in Live : heap[n].subtype = "generic"}
      BY <1>2, <1>3, <1>6
    <2>2. {n \in Live' : heap'[n].subtype = "range"} =
            IF node.subtype = "range" THEN {n \in Live : heap[n].subtype = "range"} \cup {New}
            ELSE {n \in Live : heap[n].subtype = "range"}
      BY <1>2, <1>3, <1>6
    <2> QED
      BY <1>5, <1>7, <1>8, <2>1, <2>2 DEF ListsInv, Listed
  <1>11. TypeOK'
    <2>1. Heap(heap', Len(heap')) /\ Len(heap') = Len(heap) + 1 /\ Len(heap) \in Nat
      BY <1>1, HeapType DEF Extended
    <2>2. /\ freed' \subseteq DOMAIN heap' /\ addresses' \in 0 .. Len(heap')
      BY <1>2, <2>1, HeapType
    <2>3. generics' \in Seq(DOMAIN heap') /\ address_ranges' \in Seq(DOMAIN heap')
      BY <1>7, <1>8, <1>9
    <2>4. \A n \in DOMAIN heap' : heap'[n].subtype = "range" => heap'[n].addr_range.addr_len # 0
      BY <1>2, <1>3 DEF TypeOK
    <2>5. is_up' \in BOOLEAN /\ damaged' \in BOOLEAN
      BY DEF TypeOK
    <2> QED
      BY <2>1, <2>2, <2>3, <2>4, <2>5, TypeKept
  <1>12. PointersInv' /\ ChainsInv' /\ SearchInv'
    <2>1. \A n \in Placed : SameNode(n)
      BY <1>3 DEF SameNode, Placed, Live
    <2>2. Len(heap) <= Len(heap')
      BY <1>1, HeapType DEF Extended
    <2> QED
      BY <1>4, <1>11, <2>1, <2>2, TreeKept DEF Parts
  <1> QED
    BY <1>2, <1>10, <1>11, <1>12 DEF IInv, AllFreed

(* __membus_watchpoint_generic_register                                     *)
LEMMA GenericStep ==
  ASSUME IInv, NEW e \in Requests, register_generic(e)
  PROVE  IInv'
  <1> DEFINE node == Node("generic", e, Null, 0, undef, Null)
  <1>1. TypeOK /\ Parts /\ is_up /\ ~ damaged
    BY DEF IInv, Parts, register_generic, MayRegister
  <1>2. /\ node \in NodeType(Len(heap) + 1) /\ node.subtype = "generic" /\ node.on_events = e
        /\ Len(heap) + 1 \in Nat
    <2>1. /\ 0 \in Addr /\ undef \in AddrRanges /\ Null \in 0 .. Len(heap) + 1 /\ Len(heap) + 1 \in Nat
          /\ e \in SUBSET (Events \cup {"merge"})
      BY <1>1, HeapType, RangeTopAssumption, RequestsAssumption DEF Addr, undef, AddrRanges, Null
    <2> QED
      BY <2>1, NodeTyped
  <1> HIDE DEF node
  <1>3. AskedFor(node) = [at |-> Addr, on |-> e \cap Events]
    BY <1>2 DEF AskedFor
  <1>4. /\ heap' = Append(heap, node) /\ watched' = Append(watched, AskedFor(node))
        /\ generics' = <<New>> \o generics
        /\ UNCHANGED <<freed, address_ranges, addresses, mode, is_up, damaged>>
    BY <1>3 DEF register_generic, node
  <1> QED
    BY <1>1, <1>2, <1>4, ListedStep

(* __membus_watchpoint_addr_range_register                                  *)
LEMMA RangeStep ==
  ASSUME IInv, NEW e \in Requests, NEW r \in WatchRanges, register_addr_range(e, r)
  PROVE  IInv'
  <1> DEFINE node == Node("range", e, Null, 0, r, Null)
  <1>1. TypeOK /\ Parts /\ is_up /\ ~ damaged
    BY DEF IInv, Parts, register_addr_range, MayRegister
  <1>2. /\ node \in NodeType(Len(heap) + 1) /\ node.subtype = "range" /\ node.on_events = e
        /\ node.addr_range = r /\ Len(heap) + 1 \in Nat
    <2>1. /\ 0 \in Addr /\ r \in AddrRanges /\ Null \in 0 .. Len(heap) + 1 /\ Len(heap) + 1 \in Nat
          /\ e \in SUBSET (Events \cup {"merge"})
      BY <1>1, HeapType, RangeTopAssumption, RequestsAssumption, WatchedAssumption DEF Addr, Null
    <2> QED
      BY <2>1, NodeTyped
  <1> HIDE DEF node
  <1>3. AskedFor(node) = [at |-> Addrs(r), on |-> e \cap Events]
    BY <1>2 DEF AskedFor
  <1>4. /\ heap' = Append(heap, node) /\ watched' = Append(watched, AskedFor(node))
        /\ address_ranges' = <<New>> \o address_ranges /\ r.addr_len # 0
        /\ UNCHANGED <<freed, generics, addresses, mode, is_up, damaged>>
    BY <1>3 DEF register_addr_range, Registrable, node
  <1> QED
    BY <1>1, <1>2, <1>4, ListedStep

(* A change of the mask of one node: membus_module_watchpoints_set_events,  *)
(* and a registration that finds its callback.                              *)
LEMMA MaskStep ==
  ASSUME TypeOK, Parts, is_up, ~ damaged, NEW n \in Live, NEW e \in Requests,
         heap' = Set(heap, n, "on_events", Masked(heap[n].on_events, e)),
         watched' = [watched EXCEPT ![n].on = Masked(@, e)],
         UNCHANGED <<freed, lists, addresses, mode, is_up, damaged>>
  PROVE  IInv'
  <1> DEFINE v == Masked(heap[n].on_events, e)
  <1>0. /\ n \in 1 .. Len(heap) /\ n \notin freed /\ heap[n].on_events \in SUBSET (Events \cup {"merge"})
        /\ DOMAIN heap = 1 .. Len(heap) /\ Len(heap) \in Nat
    BY HeapType, NodeFacts DEF Live
  <1>1. /\ v \in SUBSET (Events \cup {"merge"})
        /\ Masked(heap[n].on_events \cap Events, e) = v \cap Events
    BY <1>0, MaskedFacts
  <1> HIDE DEF v
  <1>2. /\ Heap(heap', Len(heap)) /\ Len(heap') = Len(heap)
        /\ \A m \in 1 .. Len(heap) :
             /\ \A s \in Links : heap'[m][s] = heap[m][s]
             /\ heap'[m].on_events = IF m = n THEN v ELSE heap[m].on_events
             /\ heap'[m].subtype = heap[m].subtype
             /\ heap'[m].addr = heap[m].addr /\ heap'[m].addr_range = heap[m].addr_range
    BY <1>0, <1>1, HeapType, SetEvents DEF v
  <1>3. DOMAIN heap' = DOMAIN heap
    BY <1>0, <1>2 DEF Heap
  <1>4. Live' = Live /\ Placed' = Placed
    BY <1>0, <1>2, <1>3 DEF Live, Placed
  <1>5. TypeOK'
    <2>1. \A m \in DOMAIN heap' : heap'[m].subtype = "range" => heap'[m].addr_range.addr_len # 0
      BY <1>0, <1>2, <1>3 DEF TypeOK
    <2> QED
      <3>1. Heap(heap', Len(heap')) /\ Len(heap') \in Nat /\ Len(heap) <= Len(heap')
        BY <1>0, <1>2
      <3>2. /\ freed' \subseteq DOMAIN heap' /\ addresses' \in 0 .. Len(heap') /\ mode' = mode
            /\ generics' \in Seq(DOMAIN heap') /\ address_ranges' \in Seq(DOMAIN heap')
            /\ is_up' \in BOOLEAN /\ damaged' \in BOOLEAN
        BY <1>2, <1>3 DEF lists, TypeOK, Pointers
      <3> QED
        BY <2>1, <3>1, <3>2, TypeKept
  <1>6. PointersInv' /\ ChainsInv' /\ SearchInv'
    <2>1. \A m \in Placed : SameNode(m)
      BY <1>0, <1>2 DEF SameNode, Placed, Live
    <2> QED
      BY <1>0, <1>2, <1>4, <1>5, <2>1, TreeKept DEF Parts
  <1>7. ListsInv'
    <2>1. \A m \in Live : heap'[m].subtype = heap[m].subtype
      BY <1>0, <1>2 DEF Live
    <2> QED
      BY <1>4, <2>1 DEF Parts, ListsInv, Listed, lists
  <1>8. WatchedInv'
    <2> DEFINE W(h, m) == IF m \in freed THEN [AskedFor(h[m]) EXCEPT !.on = {}] ELSE AskedFor(h[m])
    <2>1. watched = [m \in DOMAIN heap |-> W(heap, m)]
      BY DEF Parts, WatchedInv
    <2>2. \A m \in DOMAIN heap : m # n => W(heap', m) = W(heap, m)
      BY <1>0, <1>2 DEF AskedFor
    <2>3. watched[n] = AskedFor(heap[n])
      BY <1>0, <2>1
    <2>4. AskedFor(heap'[n]) = [AskedFor(heap[n]) EXCEPT !.on = Masked(@, e)]
      <3>1. AskedFor(heap[n]).on = heap[n].on_events \cap Events
        BY DEF AskedFor
      <3>2. heap'[n].on_events = v
        BY <1>0, <1>2
      <3>3. Masked(AskedFor(heap[n]).on, e) = heap'[n].on_events \cap Events
        BY <1>1, <3>1, <3>2
      <3> DEFINE At(h) == IF h[n].subtype = "generic" THEN Addr
                          ELSE IF h[n].subtype = "range" THEN Addrs(h[n].addr_range) ELSE {h[n].addr}
      <3>4. At(heap') = At(heap)
        BY <1>0, <1>2
      <3>5. /\ AskedFor(heap[n]) = [at |-> At(heap), on |-> heap[n].on_events \cap Events]
            /\ AskedFor(heap'[n]) = [at |-> At(heap'), on |-> heap'[n].on_events \cap Events]
        BY DEF AskedFor
      <3> HIDE DEF At
      <3>6. [AskedFor(heap[n]) EXCEPT !.on = Masked(@, e)]
              = [at |-> At(heap), on |-> Masked(AskedFor(heap[n]).on, e)]
        BY <3>5
      <3> QED
        BY <3>3, <3>4, <3>5, <3>6
    <2>5. W(heap', n) = AskedFor(heap'[n])
      BY <1>0
    <2> HIDE DEF W
    <2>6. watched' = [m \in DOMAIN heap |-> W(heap', m)]
      BY <1>0, <2>1, <2>2, <2>3, <2>4, <2>5
    <2> QED
      BY <1>3, <2>6 DEF WatchedInv, W
  <1> QED
    BY <1>5, <1>6, <1>7, <1>8 DEF IInv, AllFreed

(* membus_module_watchpoints_set_events                                     *)
LEMMA SetEventsStep ==
  ASSUME IInv, NEW n \in Live, NEW e \in Requests, set_events(n, e)
  PROVE  IInv'
  BY MaskStep DEF IInv, Parts, set_events

(* The removal of a node of a list.                                         *)
LEMMA UnlistStep ==
  ASSUME IInv, NEW n \in Live, UnregisterListed(n)
  PROVE  IInv'
  <1>1. TypeOK /\ Parts /\ is_up /\ ~ damaged
    BY DEF IInv, Parts, UnregisterListed
  <1>2. DOMAIN heap' = DOMAIN heap /\ \A m \in DOMAIN heap : SameKind(m)
    BY DEF UnregisterListed, SameKind
  <1>3. WatchedInv' /\ Live' = Live \ {n}
    BY <1>1, <1>2, WatchedForgets DEF Parts, UnregisterListed
  <1>4. Placed' = Placed
    BY <1>3 DEF Placed, UnregisterListed
  <1>5. /\ generics \in Seq(DOMAIN heap) /\ IsInjective(generics)
        /\ Range(generics) = {m \in Live : heap[m].subtype = "generic"}
        /\ address_ranges \in Seq(DOMAIN heap) /\ IsInjective(address_ranges)
        /\ Range(address_ranges) = {m \in Live : heap[m].subtype = "range"}
    BY <1>1 DEF TypeOK, Parts, ListsInv, Listed
  <1>6. /\ generics' \in Seq(DOMAIN heap) /\ IsInjective(generics') /\ Range(generics') = Range(generics) \ {n}
        /\ address_ranges' \in Seq(DOMAIN heap) /\ IsInjective(address_ranges')
        /\ Range(address_ranges') = Range(address_ranges) \ {n}
    BY <1>5, Unlinks DEF UnregisterListed
  <1>7. ListsInv'
    BY <1>3, <1>5, <1>6 DEF ListsInv, Listed, UnregisterListed
  <1>8. freed' \subseteq DOMAIN heap /\ freed \subseteq freed'
    BY <1>1, HeapType DEF UnregisterListed, Forget
  <1>9. TypeOK'
    BY <1>1, <1>6, <1>8, HeapType, TypeKept DEF UnregisterListed, TypeOK
  <1>10. PointersInv' /\ ChainsInv' /\ SearchInv'
    <2>1. \A m \in Placed : SameNode(m)
      BY DEF SameNode, UnregisterListed
    <2> QED
      BY <1>1, <1>4, <1>8, <1>9, <2>1, HeapType, TreeKept DEF Parts, UnregisterListed
  <1> QED
    BY <1>1, <1>3, <1>7, <1>9, <1>10 DEF IInv, AllFreed, UnregisterListed

-----------------------------------------------------------------------------
(* Registrations of an address.                                             *)

(* What a new node of an address leaves alone.                              *)
LEMMA AddrNode ==
  ASSUME TypeOK, Parts, is_up, ~ damaged, NEW node, node.subtype = "address", Extended(node),
         watched' = Append(watched, AskedFor(node)), addresses' \in 0 .. Len(heap) + 1,
         UNCHANGED <<freed, lists, mode, is_up, damaged>>
  PROVE  /\ TypeOK' /\ ListsInv' /\ WatchedInv' /\ Placed' = Placed \cup {New} /\ New \notin Placed
         /\ New = Len(heap) + 1
  <1>1. WatchedInv' /\ Live' = Live \cup {New} /\ New \notin freed /\ DOMAIN heap' = DOMAIN heap \cup {New}
    BY WatchedExtended DEF Parts
  <1>2. /\ heap'[New] = node /\ New = Len(heap) + 1
        /\ \A m \in DOMAIN heap : SameKind(m) /\ m # New
    <2>1. DOMAIN heap = 1 .. Len(heap) /\ Len(heap) \in Nat
      BY HeapType
    <2> QED
      BY <2>1 DEF New, Extended
  <1>3. Placed' = Placed \cup {New} /\ New \notin Placed
    BY <1>1, <1>2 DEF Placed, Live, SameKind
  <1>4. ListsInv'
    <2>1. New \notin Live /\ Live \subseteq DOMAIN heap
      BY <1>2 DEF Live
    <2>2. {n \in Live' : heap'[n].subtype = "generic"} = {n \in Live : heap[n].subtype = "generic"}
      BY <1>1, <1>2, <2>1 DEF SameKind
    <2>3. {n \in Live' : heap'[n].subtype = "range"} = {n \in Live : heap[n].subtype = "range"}
      BY <1>1, <1>2, <2>1 DEF SameKind
    <2> QED
      BY <2>2, <2>3 DEF Parts, ListsInv, Listed, lists
  <1>5. TypeOK'
    <2>1. Heap(heap', Len(heap')) /\ Len(heap') = Len(heap) + 1 /\ Len(heap) \in Nat
      BY HeapType DEF Extended
    <2>2. freed' \subseteq DOMAIN heap' /\ DOMAIN heap \subseteq DOMAIN heap'
      BY <1>1, HeapType
    <2>3. generics' \in Seq(DOMAIN heap') /\ address_ranges' \in Seq(DOMAIN heap')
      <3>1. generics \in Seq(DOMAIN heap) /\ address_ranges \in Seq(DOMAIN heap)
        BY DEF TypeOK
      <3> QED
        BY <2>2, <3>1 DEF lists
    <2>4. \A n \in DOMAIN heap' : heap'[n].subtype = "range" => heap'[n].addr_range.addr_len # 0
      BY <1>1, <1>2 DEF TypeOK, SameKind
    <2>5. is_up' \in BOOLEAN /\ damaged' \in BOOLEAN
      BY DEF TypeOK
    <2> QED
      BY <2>1, <2>2, <2>3, <2>4, <2>5, TypeKept
  <1> QED
    BY <1>1, <1>2, <1>3, <1>4, <1>5

(* The first node becomes the root.                                         *)
LEMMA RootStep ==
  ASSUME IInv, NEW e \in Requests, NEW f \in Callbacks, NEW a \in WatchAddrs, RegisterRoot(e, f, a)
  PROVE  IInv'
  <1> DEFINE node == Node("address", e, f, a, undef, Null)
  <1>1. TypeOK /\ Parts /\ is_up /\ ~ damaged /\ addresses = Null
    BY DEF IInv, Parts, RegisterRoot, MayRegister
  <1>2. /\ node \in NodeType(Len(heap) + 1) /\ node.subtype = "address" /\ node.on_events = e
        /\ node.addr = a /\ Len(heap) + 1 \in Nat
        /\ node["parent"] = Null /\ node["left"] = Null /\ node["right"] = Null /\ node["child"] = Null
    <2>1. /\ a \in Addr /\ undef \in AddrRanges /\ Null \in 0 .. Len(heap) + 1 /\ Len(heap) + 1 \in Nat
          /\ e \in SUBSET (Events \cup {"merge"})
      BY <1>1, HeapType, RangeTopAssumption, RequestsAssumption, WatchedAssumption
         DEF Addr, undef, AddrRanges, Null
    <2> QED
      BY <2>1, NodeTyped
  <1>3. heap' = Append(heap, node) /\ addresses' = New
    BY DEF RegisterRoot
  <1> HIDE DEF node
  <1>4. Extended(node)
    <2>1. Heap(heap, Len(heap) + 1)
      BY <1>1, HeapType, Widened
    <2> QED
      BY <1>2, <1>3, <2>1, Allocates DEF Extended, SameKind, New
  <1>5. watched' = Append(watched, AskedFor(node))
    BY <1>2 DEF RegisterRoot, AskedFor
  <1>6. /\ TypeOK' /\ ListsInv' /\ WatchedInv' /\ Placed' = Placed \cup {New} /\ New \notin Placed
        /\ New = Len(heap) + 1
    <2>1. addresses' \in 0 .. Len(heap) + 1
      BY <1>1, <1>3, HeapType DEF New
    <2> QED
      BY <1>1, <1>2, <1>4, <1>5, <2>1, AddrNode DEF RegisterRoot
  <1>7. Placed' = {New}
    <2>1. PICK rank, region : Searchable(rank, region)
      BY <1>1 DEF Parts, SearchInv, Searchable
    <2>2. Placed = {}
      BY <1>1, <2>1, RootThere DEF Parts
    <2> QED
      BY <1>6, <2>2
  <1>8. /\ heap'[New].parent = Null /\ heap'[New].left = Null /\ heap'[New].right = Null
        /\ heap'[New].child = Null /\ \A s \in Sides : heap'[New][s] = Null
        /\ heap'[New].addr = a /\ New # Null
        /\ Len(heap') = Len(heap) + 1 /\ Len(heap) \in Nat /\ New \in DOMAIN heap'
    <2>1. heap'[New] = node /\ Len(heap') = Len(heap) + 1 /\ Len(heap) \in Nat
      BY <1>1, <1>4, HeapType DEF Extended
    <2>2. New \in 1 .. Len(heap') /\ New \in DOMAIN heap' /\ Heap(heap', Len(heap'))
      BY <1>6, <2>1, HeapTypeNext
    <2> QED
      BY <1>2, <1>6, <2>1, <2>2, NodeFacts DEF Sides, Null
  <1>9. PointersInv' /\ ChainsInv'
    BY <1>3, <1>7, <1>8 DEF PointersInv, ChainsInv
  <1>10. SearchInv'
    <2>1. PICK rank \in [DOMAIN heap' -> Nat], region \in [DOMAIN heap' -> SUBSET Addr] :
            \A n \in DOMAIN heap' : rank[n] = 0 /\ region[n] = Addr
      <3>1. [n \in DOMAIN heap' |-> 0] \in [DOMAIN heap' -> Nat]
        OBVIOUS
      <3>2. [n \in DOMAIN heap' |-> Addr] \in [DOMAIN heap' -> SUBSET Addr]
        OBVIOUS
      <3> QED
        BY <3>1, <3>2
    <2>2. InSearchOrder(rank, region)'
      BY <1>7, <1>8, <2>1, WatchedAssumption DEF InSearchOrder
    <2>3. addresses' # Null => region[addresses'] = Addr
      BY <1>3, <1>8, <2>1
    <2> QED
      BY <2>2, <2>3 DEF SearchInv
  <1> QED
    BY <1>1, <1>6, <1>9, <1>10 DEF IInv, AllFreed, RegisterRoot

(* A head is not further down a chain.                                      *)
LEMMA HeadNotChained ==
  ASSUME TypeOK, PointersInv, NEW n \in Placed, Head1(n)
  PROVE  ~ Chained(n)
  <1> SUFFICES ASSUME NEW m \in Placed, heap[m]["child"] = n PROVE FALSE
    BY LinkFacts DEF Chained
  <1>1. n # Null /\ m # Null /\ Null \notin freed
    BY LinkFacts, HeapType DEF Null
  <1>2. heap[n].parent \in {m} \cup freed /\ \A x \in Placed, t \in Sides : heap[x][t] = n => t = "child"
    BY <1>1 DEF PointersInv, Sides
  <1>3. CASE n = addresses
    BY <1>1, <1>2, <1>3 DEF PointersInv
  <1>4. CASE n # addresses
    <2>1. PICK x \in Placed, s \in {"left", "right"} : heap[x][s] = n
      BY <1>4, LinkFacts DEF Head1
    <2> QED
      BY <1>2, <2>1 DEF Sides
  <1> QED
    BY <1>3, <1>4

(* A search that passes a branch passes the node it is a branch of.         *)
LEMMA PassesBranch ==
  ASSUME TypeOK, PointersInv, NEW a \in Addr, NEW down, Down(down, a), NEW n \in Placed,
         NEW s \in {"left", "right"}, heap[n][s] # Null,
         \E k \in 0 .. Len(heap) : down[k] = heap[n][s]
  PROVE  /\ \E k \in 0 .. Len(heap) : down[k] = n
         /\ s = "left" => a < heap[n].addr
         /\ s = "right" => heap[n].addr < a
  <1> DEFINE N == Len(heap)
             x == heap[n][s]
             T == {k \in 0 .. N : down[k] = x}
  <1>1. N \in Nat /\ T \subseteq Nat /\ T # {}
    BY HeapType
  <1>2. PICK k \in T : \A j \in T : k <= j
    <2> HIDE DEF T
    <2> QED
      BY <1>1, NatLeast
  <1>3. x \in Placed /\ x # addresses /\ x # Null
    <2>1. x \in Placed /\ heap[x].parent = n
      BY DEF PointersInv, Sides
    <2> QED
      BY <2>1, LinkFacts DEF PointersInv
  <1>4. \A m \in Placed, t \in {"left", "right"} : heap[m][t] = x => m = n /\ t = s
    BY DEF PointersInv, Sides
  <1>5. k # 0
    BY <1>2, <1>3 DEF Down
  <1>6. k \in 1 .. N /\ k - 1 \in 0 .. N /\ k - 1 < k
    BY <1>1, <1>2, <1>5
  <1>7. down[k - 1] # x /\ down[k - 1] \in Placed
    BY <1>1, <1>2, <1>6 DEF Down
  <1>8. Branch(down[k - 1], a) = x
    BY <1>2, <1>6, <1>7 DEF Down, Next1
  <1> DEFINE m == down[k - 1]
  <1>9. /\ m \in Placed /\ heap[m].addr \in Int /\ a \in Int
        /\ heap[m].left = heap[m]["left"] /\ heap[m].right = heap[m]["right"]
    BY <1>7, LinkFacts DEF Addr
  <1> HIDE DEF m, x
  <1>10. CASE heap[m].addr > a
    <2>1. heap[m]["left"] = x
      BY <1>8, <1>9, <1>10 DEF Branch, m
    <2>2. m = n /\ s = "left"
      BY <1>4, <1>9, <2>1
    <2> QED
      BY <1>6, <1>9, <1>10, <2>2 DEF m
  <1>11. CASE heap[m].addr < a
    <2>1. heap[m]["right"] = x
      BY <1>8, <1>9, <1>11 DEF Branch, m
    <2>2. m = n /\ s = "right"
      BY <1>4, <1>9, <2>1
    <2> QED
      BY <1>6, <1>9, <1>11, <2>2 DEF m
  <1>12. CASE heap[m].addr = a
    BY <1>3, <1>8, <1>9, <1>12 DEF Branch, m
  <1> QED
    BY <1>9, <1>10, <1>11, <1>12

(* A new node hangs under another, in a place that was free.                *)
Attached(above, side, a) ==
  /\ Placed' = Placed \cup {New} /\ New \notin Placed /\ New # Null
  /\ Len(heap') = Len(heap) + 1 /\ New = Len(heap) + 1
  /\ \A m \in Placed : heap'[m].addr = heap[m].addr
  /\ \A m \in Placed, s \in Links : heap'[m][s] = IF m = above /\ s = side THEN New ELSE heap[m][s]
  /\ heap'[New].addr = a /\ heap'[New]["parent"] = above
  /\ \A s \in Sides : heap'[New][s] = Null
Free(above, side, a) ==
  /\ heap[above][side] = Null
  /\ side = "child" => heap[above].addr = a
  /\ side = "left" => above = Landing(a) /\ a < heap[above].addr
  /\ side = "right" => above = Landing(a) /\ heap[above].addr < a

(* The fields of the nodes of the tree after that.                          *)
LEMMA AttachedFields ==
  ASSUME TypeOK, TypeOK', PointersInv, NEW above \in Placed, NEW side \in Sides, NEW a \in Addr,
         Attached(above, side, a)
  PROVE  /\ \A n \in Placed :
              /\ n \in Nat /\ n < New
              /\ heap'[n].parent = heap[n].parent
              /\ heap'[n].left = (IF n = above /\ side = "left" THEN New ELSE heap[n].left)
              /\ heap'[n].right = (IF n = above /\ side = "right" THEN New ELSE heap[n].right)
              /\ heap'[n].child = (IF n = above /\ side = "child" THEN New ELSE heap[n].child)
         /\ heap'[New].parent = above /\ heap'[New].left = Null /\ heap'[New].right = Null
         /\ heap'[New].child = Null
  <1>1. ASSUME NEW n \in Placed'
        PROVE  /\ heap'[n].left = heap'[n]["left"] /\ heap'[n].right = heap'[n]["right"]
               /\ heap'[n].child = heap'[n]["child"] /\ heap'[n].parent = heap'[n]["parent"]
    <2>1. n \in 1 .. Len(heap') /\ Heap(heap', Len(heap')) /\ Len(heap') \in Nat
      BY HeapTypeNext
    <2> QED
      BY <2>1, NodeFacts
  <1>2. ASSUME NEW n \in Placed
        PROVE  /\ n \in Nat /\ n < New
               /\ heap[n].left = heap[n]["left"] /\ heap[n].right = heap[n]["right"]
               /\ heap[n].child = heap[n]["child"] /\ heap[n].parent = heap[n]["parent"]
    <2>1. n \in 1 .. Len(heap) /\ Len(heap) \in Nat /\ Heap(heap, Len(heap))
      BY LinkFacts, HeapType
    <2> QED
      BY <2>1, NodeFacts DEF Attached
  <1> QED
    BY <1>1, <1>2 DEF Attached, Links, Sides

(* The pointers are in order after that.                                    *)
LEMMA AttachedPointers ==
  ASSUME TypeOK, TypeOK', PointersInv, NEW above \in Placed, NEW side \in Sides, NEW a \in Addr,
         heap[above][side] = Null, Attached(above, side, a), freed' = freed, addresses' = addresses,
         addresses # Null
  PROVE  PointersInv'
  <1>1. /\ Placed' = Placed \cup {New} /\ New \notin Placed /\ New # Null
        /\ \A n \in Placed : heap'[n].parent = heap[n].parent
        /\ \A n \in Placed, s \in Sides :
             heap'[n][s] = IF n = above /\ s = side THEN New ELSE heap[n][s]
        /\ \A s \in Sides : heap'[New][s] = Null
        /\ heap'[New].parent = above
    BY AttachedFields DEF Attached, Links, Sides
  <1>2. above # Null /\ addresses \in Placed
    BY LinkFacts DEF PointersInv
  <1>3. ASSUME NEW n \in Placed'
        PROVE  /\ heap'[n].parent = Null <=> n = addresses'
               /\ n = addresses' \/ \E m \in Placed', s \in Sides : heap'[m][s] = n
    <2>1. CASE n = New
      BY <1>1, <1>2, <2>1
    <2>2. CASE n \in Placed
      <3>1. heap'[n].parent = Null <=> n = addresses'
        BY <1>1, <2>2 DEF PointersInv
      <3>2. CASE n # addresses
        <4>1. PICK m \in Placed, s \in Sides : heap[m][s] = n
          BY <2>2, <3>2 DEF PointersInv
        <4>2. heap'[m][s] = n
          <5>1. n # Null
            BY <2>2, LinkFacts
          <5> QED
            BY <1>1, <4>1, <5>1
        <4> QED
          BY <1>1, <3>1, <4>2
      <3> QED
        BY <3>1, <3>2
    <2> QED
      BY <1>1, <2>1, <2>2
  <1>4. ASSUME NEW n \in Placed', NEW s \in Sides, heap'[n][s] # Null
        PROVE  /\ heap'[n][s] \in Placed'
               /\ heap'[heap'[n][s]].parent \in {n} \cup (IF s = "child" THEN freed' ELSE {})
               /\ \A m \in Placed', t \in Sides : heap'[m][t] = heap'[n][s] => m = n /\ t = s
    <2>1. n \in Placed
      BY <1>1, <1>4
    <2>2. ASSUME NEW m \in Placed, NEW t \in Sides PROVE heap[m][t] # New
      BY <1>1 DEF PointersInv
    <2>3. CASE n = above /\ s = side
      BY <1>1, <2>1, <2>2, <2>3
    <2>4. CASE ~ (n = above /\ s = side)
      <3> DEFINE x == heap[n][s]
      <3>1. heap'[n][s] = x /\ x # Null
        BY <1>1, <1>4, <2>1, <2>4
      <3>2. /\ x \in Placed /\ heap[x].parent \in {n} \cup (IF s = "child" THEN freed ELSE {})
            /\ \A m \in Placed, t \in Sides : heap[m][t] = x => m = n /\ t = s
        BY <2>1, <3>1 DEF PointersInv
      <3> HIDE DEF x
      <3> QED
        BY <1>1, <3>1, <3>2
    <2> QED
      BY <2>3, <2>4
  <1> QED
    BY <1>1, <1>2, <1>3, <1>4 DEF PointersInv

(* The chains are in order after that.                                      *)
LEMMA AttachedChains ==
  ASSUME TypeOK, TypeOK', PointersInv, ChainsInv, NEW rank, NEW region, Searchable(rank, region),
         NEW above \in Placed, NEW side \in Sides, NEW a \in Addr,
         Free(above, side, a), Attached(above, side, a), addresses # Null
  PROVE  ChainsInv'
  <1>1. ASSUME side # "child" PROVE ~ Chained(above)
    BY <1>1, TreeFacts, HeadNotChained DEF Free, Sides
  <1> SUFFICES ASSUME NEW n \in Placed', heap'[n].child # Null
               PROVE  LET next == heap'[n].child
                      IN  /\ next > n /\ heap'[next].addr = heap'[n].addr
                          /\ heap'[next].left = Null /\ heap'[next].right = Null
    BY DEF ChainsInv
  <1>2. n \in Placed
    BY AttachedFields DEF Attached
  <1>3. CASE n = above /\ side = "child"
    BY <1>2, <1>3, AttachedFields DEF Attached, Free
  <1>4. CASE ~ (n = above /\ side = "child")
    <2> DEFINE next == heap[n].child
    <2>1. heap'[n].child = next /\ next # Null
      BY <1>2, <1>4, AttachedFields
    <2>2. /\ next \in Placed /\ Chained(next) /\ next > n /\ heap[next].addr = heap[n].addr
          /\ heap[next].left = Null /\ heap[next].right = Null
      BY <1>2, <2>1, LinkFacts DEF ChainsInv, Chained
    <2> HIDE DEF next
    <2>3. ~ (next = above /\ side # "child")
      BY <1>1, <2>2
    <2>4. heap'[next].left = Null /\ heap'[next].right = Null
      BY <2>2, <2>3, AttachedFields
    <2> QED
      BY <1>2, <2>1, <2>2, <2>4 DEF Attached
  <1> QED
    BY <1>3, <1>4

(* Searches go on to the new node, and elsewhere as before.                 *)
LEMMA AttachedSearch ==
  ASSUME TypeOK, TypeOK', PointersInv, ChainsInv, NEW rank, NEW region, Searchable(rank, region),
         NEW above \in Placed, NEW side \in Sides, NEW a \in Addr,
         Free(above, side, a), Attached(above, side, a), addresses' = addresses, addresses # Null
  PROVE  SearchInv'
  <1> DEFINE N == Len(heap)
  <1>1. PICK down : Down(down, a) /\ Landing(a) = down[N]
    BY DownFacts
  <1> DEFINE P == {n \in Placed : \E k \in 0 .. N : down[k] = n}
             Grow(n) == IF side # "child" /\ n \in P THEN {a} ELSE {}
             Rank1(n) == IF n = New THEN IF side = "child" THEN 0 ELSE rank[above] + 1
                         ELSE IF n \in Placed THEN rank[n] ELSE 0
             Region1(n) == IF n = New THEN {a}
                           ELSE IF n \in Placed THEN region[n] \cup Grow(n) ELSE {}
  <1>2. \A n \in Placed : /\ rank[n] \in Nat /\ rank[n] < N /\ region[n] \in SUBSET Addr
                          /\ n \in DOMAIN heap' /\ n # New
    <2> TAKE n \in Placed
    <2>1. n \in 1 .. N /\ N \in Nat /\ DOMAIN heap = 1 .. N /\ DOMAIN heap' = 1 .. N + 1
      BY LinkFacts, HeapType, HeapTypeNext DEF Attached
    <2> QED
      BY <2>1 DEF Searchable, InSearchOrder, Attached
  <1>3. New \in DOMAIN heap' /\ N \in Nat /\ Len(heap') = N + 1
    BY HeapType, HeapTypeNext DEF Attached
  <1>4. PICK rank2 \in [DOMAIN heap' -> Nat], region2 \in [DOMAIN heap' -> SUBSET Addr] :
          \A n \in DOMAIN heap' : rank2[n] = Rank1(n) /\ region2[n] = Region1(n)
    <2>1. \A n \in DOMAIN heap' : Rank1(n) \in Nat /\ Region1(n) \in SUBSET Addr
      BY <1>2
    <2> HIDE DEF Rank1, Region1
    <2>2. /\ [n \in DOMAIN heap' |-> Rank1(n)] \in [DOMAIN heap' -> Nat]
          /\ [n \in DOMAIN heap' |-> Region1(n)] \in [DOMAIN heap' -> SUBSET Addr]
      BY <2>1
    <2> QED
      BY <2>2
  <1>5. /\ \A n \in Placed : rank2[n] = rank[n] /\ region2[n] = region[n] \cup Grow(n)
        /\ rank2[New] = IF side = "child" THEN 0 ELSE rank[above] + 1
        /\ region2[New] = {a}
    BY <1>2, <1>3, <1>4
  <1>6. ASSUME NEW n \in Placed, NEW s \in {"left", "right"}, heap[n][s] # Null
        PROVE  /\ heap[n][s] \in Placed /\ rank[n] < rank[heap[n][s]]
               /\ \A b \in region[heap[n][s]] : /\ b \in region[n]
                                                /\ s = "left" => b < heap[n].addr
                                                /\ s = "right" => heap[n].addr < b
               /\ heap[n][s] \in P => /\ n \in P
                                      /\ s = "left" => a < heap[n].addr
                                      /\ s = "right" => heap[n].addr < a
    <2>1. heap[n][s] \in Placed
      BY <1>6 DEF PointersInv, Sides
    <2>2. /\ rank[n] < rank[heap[n][s]]
          /\ \A b \in region[heap[n][s]] : /\ b \in region[n]
                                           /\ s = "left" => b < heap[n].addr
                                           /\ s = "right" => heap[n].addr < b
      BY <1>6, LinkFacts DEF Searchable, InSearchOrder
    <2>3. heap[n][s] \in P => /\ n \in P
                              /\ s = "left" => a < heap[n].addr
                              /\ s = "right" => heap[n].addr < a
      BY <1>1, <1>6, PassesBranch
    <2> QED
      BY <2>1, <2>2, <2>3
  <1>7. side # "child" => above \in P
    BY <1>1, <1>3 DEF Free, Sides
  <1> HIDE DEF P
  <1>8. ASSUME NEW n \in Placed, NEW s \in {"left", "right"}, heap'[n][s] # Null
        PROVE  /\ rank2[n] < rank2[heap'[n][s]]
               /\ \A b \in region2[heap'[n][s]] : /\ b \in region2[n]
                                                  /\ s = "left" => b < heap'[n].addr
                                                  /\ s = "right" => heap'[n].addr < b
    <2>1. CASE n = above /\ s = side
      <3>1. heap'[n][s] = New /\ side # "child" /\ heap'[n].addr = heap[n].addr
        BY <2>1 DEF Attached, Links
      <3>2. rank2[New] = rank[above] + 1 /\ rank2[n] = rank[above] /\ rank[above] \in Nat
        BY <1>2, <1>5, <2>1, <3>1
      <3>3. region2[New] = {a} /\ a \in region2[n]
        BY <1>5, <1>7, <2>1, <3>1
      <3>4. (s = "left" => a < heap[n].addr) /\ (s = "right" => heap[n].addr < a)
        BY <2>1 DEF Free
      <3> QED
        BY <3>1, <3>2, <3>3, <3>4
    <2>2. CASE ~ (n = above /\ s = side)
      <3> DEFINE x == heap[n][s]
      <3>1. heap'[n][s] = x /\ x # Null /\ heap'[n].addr = heap[n].addr
        BY <1>8, <2>2 DEF Attached, Links
      <3>2. /\ x \in Placed /\ rank[n] < rank[x]
            /\ \A b \in region[x] : /\ b \in region[n]
                                    /\ s = "left" => b < heap[n].addr
                                    /\ s = "right" => heap[n].addr < b
            /\ x \in P => /\ n \in P
                          /\ s = "left" => a < heap[n].addr
                          /\ s = "right" => heap[n].addr < a
        BY <1>6, <3>1
      <3> HIDE DEF x
      <3>3. rank2[n] < rank2[x]
        BY <1>5, <3>2
      <3>4. ASSUME NEW b \in region2[x]
            PROVE  /\ b \in region2[n]
                   /\ s = "left" => b < heap'[n].addr
                   /\ s = "right" => heap'[n].addr < b
        <4>1. b \in region[x] \/ (b = a /\ side # "child" /\ x \in P)
          BY <1>5, <3>2, <3>4
        <4> QED
          BY <1>5, <3>1, <3>2, <4>1
      <3> QED
        BY <3>1, <3>3, <3>4
    <2> QED
      BY <2>1, <2>2
  <1>9. InSearchOrder(rank2, region2)'
    <2> SUFFICES ASSUME NEW n \in Placed'
                 PROVE  /\ rank2[n] < Len(heap') /\ heap'[n].addr \in region2[n]
                        /\ heap'[n].left # Null =>
                             /\ rank2[n] < rank2[heap'[n].left]
                             /\ \A b \in region2[heap'[n].left] : b \in region2[n] /\ b < heap'[n].addr
                        /\ heap'[n].right # Null =>
                             /\ rank2[n] < rank2[heap'[n].right]
                             /\ \A b \in region2[heap'[n].right] : b \in region2[n] /\ heap'[n].addr < b
      BY DEF InSearchOrder
    <2>1. CASE n = New
      <3>1. rank2[New] < N + 1
        BY <1>2, <1>3, <1>5
      <3>2. heap'[New].addr = a /\ heap'[New].left = Null /\ heap'[New].right = Null
        BY AttachedFields DEF Attached
      <3> QED
        BY <1>3, <1>5, <2>1, <3>1, <3>2
    <2>2. CASE n \in Placed
      <3>1. rank2[n] < Len(heap')
        BY <1>2, <1>3, <1>5, <2>2
      <3>2. heap'[n].addr \in region2[n]
        BY <1>5, <2>2 DEF Attached, Searchable, InSearchOrder
      <3>3. heap'[n].left = heap'[n]["left"] /\ heap'[n].right = heap'[n]["right"]
        <4>1. n \in 1 .. Len(heap') /\ Heap(heap', Len(heap')) /\ Len(heap') \in Nat
          BY <1>2, <2>2, HeapTypeNext
        <4> QED
          BY <4>1, NodeFacts
      <3> QED
        BY <1>8, <2>2, <3>1, <3>2, <3>3
    <2> QED
      BY <2>1, <2>2 DEF Attached
  <1>10. addresses' # Null => region2[addresses'] = Addr
    <2>1. addresses \in Placed /\ region[addresses] = Addr
      BY DEF PointersInv, Searchable
    <2>2. Grow(addresses) \subseteq Addr
      OBVIOUS
    <2> HIDE DEF Grow
    <2>3. region2[addresses] = Addr
      BY <1>5, <2>1, <2>2
    <2> QED
      BY <2>3
  <1> QED
    BY <1>9, <1>10 DEF SearchInv

(* Where the new node of an address goes.                                   *)
Above(a) == IF heap[Landing(a)].addr = a THEN Last(Chain(Landing(a))) ELSE Landing(a)
SideOf(a) ==
  IF heap[Landing(a)].addr = a THEN "child" ELSE IF heap[Landing(a)].addr > a THEN "left" ELSE "right"
(* That place is free.                                                      *)
LEMMA FreePlace ==
  ASSUME TypeOK, PointersInv, ChainsInv, NEW rank, NEW region, Searchable(rank, region),
         addresses # Null, NEW a \in Addr
  PROVE  Above(a) \in Placed /\ SideOf(a) \in Sides /\ Free(Above(a), SideOf(a), a)
  <1> DEFINE at == Landing(a)
  <1>1. at \in Placed /\ Branch(at, a) = Null
    BY LandingEnds
  <1>2. CASE heap[at].addr = a
    <2> DEFINE c == Chain(at)
    <2>1. IsChain(c, at)
      BY <1>1, ChainFacts
    <2> HIDE DEF c
    <2>2. Len(c) \in DOMAIN c /\ c[Len(c)] \in Placed /\ Last(c) = c[Len(c)]
      BY <2>1 DEF IsChain, Last
    <2>3. heap[Last(c)].child = Null /\ heap[Last(c)].addr = a
      BY <1>2, <2>1, <2>2 DEF IsChain
    <2>4. heap[Last(c)].child = heap[Last(c)]["child"]
      BY <2>2, LinkFacts
    <2> QED
      BY <1>2, <2>2, <2>3, <2>4 DEF Above, SideOf, Free, Sides, c
  <1>3. CASE heap[at].addr # a
    <2>1. /\ heap[at].addr \in Int /\ a \in Int
          /\ heap[at].left = heap[at]["left"] /\ heap[at].right = heap[at]["right"]
      BY <1>1, LinkFacts DEF Addr
    <2>2. /\ heap[at].addr > a => heap[at].left = Null
          /\ heap[at].addr < a => heap[at].right = Null
      BY <1>1, <2>1 DEF Branch
    <2>3. Above(a) = at /\ SideOf(a) = IF heap[at].addr > a THEN "left" ELSE "right"
      BY <1>3 DEF Above, SideOf
    <2> QED
      BY <1>1, <1>3, <2>1, <2>2, <2>3 DEF Free, Sides
  <1> QED
    BY <1>2, <1>3

(* A node of an address joins the tree.                                     *)
LEMMA NodeStep ==
  ASSUME IInv, NEW e \in Requests, NEW f \in Callbacks, NEW a \in WatchAddrs, RegisterNode(e, f, a)
  PROVE  IInv'
  <1> DEFINE N == Len(heap)
             above == Above(a)
             side == SideOf(a)
             node == Node("address", Masked({}, e), f, a, undef, above)
             h1 == Set(heap, above, side, New)
  <1>1. TypeOK /\ Parts /\ is_up /\ ~ damaged /\ addresses # Null /\ a \in Addr
    BY WatchedAssumption DEF IInv, Parts, RegisterNode, MayRegister
  <1>2. PICK rank, region : Searchable(rank, region)
    BY <1>1 DEF Parts, SearchInv, Searchable
  <1>3. above \in Placed /\ side \in Sides /\ Free(above, side, a)
    BY <1>1, <1>2, FreePlace DEF Parts
  <1>4. heap' = Append(h1, node)
    BY DEF RegisterNode, Above, SideOf
  <1>5. above \in 1 .. N /\ N \in Nat /\ New = N + 1 /\ above # Null
    BY <1>1, <1>3, LinkFacts, HeapType DEF New, Parts
  <1> HIDE DEF above, side
  <1>6. /\ node \in NodeType(N + 1) /\ node.subtype = "address" /\ node.on_events = Masked({}, e)
        /\ node.addr = a /\ N + 1 \in Nat
        /\ node["parent"] = above /\ node["left"] = Null /\ node["right"] = Null /\ node["child"] = Null
    <2>1. /\ a \in Addr /\ undef \in AddrRanges /\ above \in 0 .. N + 1 /\ N + 1 \in Nat
          /\ Masked({}, e) \in SUBSET (Events \cup {"merge"})
      BY <1>1, <1>5, RangeTopAssumption, MaskedFacts DEF Addr, undef, AddrRanges
    <2> QED
      BY <2>1, NodeTyped
  <1> HIDE DEF node
  <1>7. Heap(h1, N + 1) /\ Stored(heap, h1, above, side, New)
    <2>1. Heap(heap, N + 1) /\ side \in Links /\ New \in 0 .. N + 1 /\ above \in 0 .. N /\ N + 1 \in Nat
      BY <1>1, <1>3, <1>5, HeapType, Widened DEF Sides, Links
    <2> QED
      BY <2>1, SetFacts
  <1> HIDE DEF h1
  <1>8. /\ Heap(heap', N + 1) /\ Len(heap') = N + 1 /\ heap'[New] = node
        /\ \A m \in 1 .. N : heap'[m] = h1[m]
    <2>1. Len(h1) = N
      BY <1>7 DEF Stored
    <2> QED
      BY <1>4, <1>5, <1>6, <1>7, <2>1, Allocates
  <1>9. Extended(node)
    BY <1>7, <1>8 DEF Extended, SameKind, Stored
  <1>10. watched' = Append(watched, AskedFor(node))
    <2>1. Masked({}, e) \cap Events = e \cap Events
      BY DEF Masked
    <2> QED
      BY <1>6, <2>1 DEF RegisterNode, AskedFor
  <1>11. /\ TypeOK' /\ ListsInv' /\ WatchedInv' /\ Placed' = Placed \cup {New} /\ New \notin Placed
         /\ New = N + 1
    <2>1. addresses' \in 0 .. N + 1
      BY <1>1, <1>5, HeapType DEF RegisterNode
    <2> QED
      BY <1>1, <1>6, <1>9, <1>10, <2>1, AddrNode DEF RegisterNode
  <1>12. Attached(above, side, a)
    <2>1. \A m \in Placed : m \in 1 .. N
      BY <1>1, HeapType
    <2>2. \A m \in Placed : heap'[m].addr = heap[m].addr
      BY <1>7, <1>8, <2>1 DEF Stored
    <2>3. \A m \in Placed, s \in Links :
             heap'[m][s] = IF m = above /\ s = side THEN New ELSE heap[m][s]
      BY <1>7, <1>8, <2>1 DEF Stored
    <2> QED
      BY <1>5, <1>6, <1>8, <1>11, <2>2, <2>3 DEF Attached, Sides, Null
  <1>13. PointersInv' /\ ChainsInv' /\ SearchInv'
    <2>1. freed' = freed /\ addresses' = addresses /\ heap[above][side] = Null
      BY <1>3 DEF RegisterNode, Free
    <2> QED
      BY <1>1, <1>2, <1>3, <1>11, <1>12, <2>1, AttachedPointers, AttachedChains, AttachedSearch DEF Parts
  <1> QED
    BY <1>1, <1>11, <1>13 DEF IInv, AllFreed, RegisterNode

(* A registration that finds its callback merges its mask.                  *)
LEMMA AgainStep ==
  ASSUME IInv, NEW e \in Requests, NEW f \in Callbacks, NEW a \in WatchAddrs, RegisterAgain(e, f, a)
  PROVE  IInv'
  <1>1. TypeOK /\ Parts /\ is_up /\ ~ damaged /\ a \in Addr
    BY WatchedAssumption DEF IInv, Parts, RegisterAgain
  <1>2. PICK rank, region : Searchable(rank, region)
    BY <1>1 DEF Parts, SearchInv, Searchable
  <1>3. Chain(find_addr(a)) \in Seq(Placed)
    BY <1>1, <1>2, ChainOfAddr DEF Parts
  <1>4. PICK i \in DOMAIN Chain(find_addr(a)) :
          LET n == Chain(find_addr(a))[i]
          IN  /\ heap' = Set(heap, n, "on_events", Masked(heap[n].on_events, e))
              /\ watched' = [watched EXCEPT ![n].on = Masked(@, e)]
    BY DEF RegisterAgain
  <1> DEFINE n == Chain(find_addr(a))[i]
  <1>5. n \in Live
    BY <1>1, <1>3, HeapType
  <1>6. /\ heap' = Set(heap, n, "on_events", Masked(heap[n].on_events, e))
        /\ watched' = [watched EXCEPT ![n].on = Masked(@, e)]
    BY <1>4
  <1> HIDE DEF n
  <1> QED
    BY <1>1, <1>5, <1>6, MaskStep DEF RegisterAgain

-----------------------------------------------------------------------------
(* Removals from the tree.                                                  *)

(* Who takes the place of a head: the next node of its address, or its one  *)
(* branch if it has one.                                                    *)
Left(n) == heap[n]["left"]
Right(n) == heap[n]["right"]
Below(n) == heap[n]["child"]
Taken(n, by, up, side) ==
  /\ by \in (Placed \ {n}) \cup {Null} /\ up \in (Placed \ {n, by}) \cup {Null}
  /\ up = Null <=> n = addresses
  /\ up # Null => side \in {"left", "right"} /\ heap[up][side] = n
  /\ \/ by # Null /\ Below(n) = by
     \/ /\ Below(n) = Null /\ {Left(n), Right(n)} \subseteq {by, Null}
        /\ by # Null => by \in {Left(n), Right(n)}
Moved(n, by, up, side) ==
  /\ Placed' = Placed \ {n} /\ freed' = freed \cup {n} /\ Len(heap') = Len(heap)
  /\ addresses' = IF up = Null THEN by ELSE addresses
  /\ \A m \in Placed : heap'[m].addr = heap[m].addr
  /\ \A m \in Placed', s \in Sides :
       heap'[m][s] = IF m = up /\ s = side THEN by
                     ELSE IF m = by /\ s # "child" /\ Below(n) # Null THEN heap[n][s]
                     ELSE heap[m][s]
  /\ \A m \in Placed' :
       heap'[m]["parent"] = IF m = by THEN up ELSE IF m \in {Left(n), Right(n)} THEN by ELSE heap[m]["parent"]

(* Who holds a node after that, and where.                                  *)
Holds(n, by, up, side, m, s, y) ==
  IF y = by THEN m = up /\ s = side
  ELSE IF y \in {Left(n), Right(n)} THEN m = by /\ s = (IF y = Left(n) THEN "left" ELSE "right")
  ELSE y # n /\ heap[m][s] = y
(* Every node but n is held where Holds says, and nowhere else.             *)
LEMMA HeldAfter ==
  ASSUME TypeOK, PointersInv, ChainsInv, NEW n \in Placed, NEW by, NEW up, NEW side,
         Taken(n, by, up, side), Moved(n, by, up, side)
  PROVE  \A m \in Placed', s \in Sides : \A y : y # Null => (heap'[m][s] = y <=> Holds(n, by, up, side, m, s, y))
  <1> SUFFICES ASSUME NEW m \in Placed', NEW s \in Sides, NEW y, y # Null
               PROVE  heap'[m][s] = y <=> Holds(n, by, up, side, m, s, y)
    OBVIOUS
  <1>1. /\ m \in Placed /\ m # n /\ m # Null /\ n # Null
        /\ heap'[m][s] = IF m = up /\ s = side THEN by
                         ELSE IF m = by /\ s # "child" /\ Below(n) # Null THEN heap[n][s]
                         ELSE heap[m][s]
    BY LinkFacts DEF Moved
  <1>2. \A x \in Placed, t \in Sides :
           heap[x][t] # Null => \A z \in Placed, v \in Sides : heap[z][v] = heap[x][t] => z = x /\ v = t
    BY DEF PointersInv
  <1>3. Left(n) = heap[n]["left"] /\ Right(n) = heap[n]["right"] /\ Below(n) = heap[n]["child"]
    BY DEF Left, Right, Below
  <1>4. CASE y = by
    <2>1. PICK t \in Sides : heap[n][t] = by
      BY <1>3, <1>4 DEF Taken, Sides
    <2>2. \A z \in Placed, v \in Sides : heap[z][v] = by => z = n /\ v = t
      BY <1>2, <1>4, <2>1
    <2>3. Below(n) # Null => t = "child"
      BY <1>2, <1>3, <1>4, <2>1, <2>2 DEF Taken, Sides
    <2> QED
      BY <1>1, <1>4, <2>2, <2>3 DEF Holds
  <1>5. CASE y # by /\ y \in {Left(n), Right(n)}
    <2>1. Below(n) = by /\ by # Null /\ by # up
      BY <1>5 DEF Taken
    <2>2. PICK t \in {"left", "right"} : heap[n][t] = y
      BY <1>3, <1>5
    <2>3. \A z \in Placed, v \in Sides : heap[z][v] = y => z = n /\ v = t
      BY <1>2, <2>2 DEF Sides
    <2>4. t = IF y = Left(n) THEN "left" ELSE "right"
      BY <1>3, <1>5, <2>2, <2>3 DEF Sides
    <2> QED
      BY <1>1, <1>5, <2>1, <2>2, <2>3, <2>4 DEF Holds
  <1>6. CASE y # by /\ y \notin {Left(n), Right(n)}
    <2>1. heap[m][s] = n => m = up /\ s = side
      <3>1. CASE up = Null
        <4>1. n = addresses /\ heap[n].parent = Null
          BY <3>1 DEF Taken, PointersInv
        <4>2. ASSUME heap[m][s] = n PROVE FALSE
          <5>1. heap[n].parent \in {m} \cup freed
            BY <1>1, <4>2 DEF PointersInv
          <5>2. Null \notin freed
            BY HeapType DEF Null
          <5> QED
            BY <1>1, <4>1, <5>1, <5>2
        <4> QED
          BY <4>2
      <3>2. CASE up # Null
        <4>1. heap[up][side] = n /\ up \in Placed /\ side \in Sides
          BY <3>2 DEF Taken, Sides
        <4> QED
          BY <1>1, <1>2, <4>1
      <3> QED
        BY <3>1, <3>2
    <2>2. m = by /\ s # "child" /\ Below(n) # Null => heap[m][s] = Null
      <3> SUFFICES ASSUME m = by, s # "child", Below(n) # Null PROVE heap[m][s] = Null
        OBVIOUS
      <3>1. by = heap[n].child /\ by # Null
        BY <1>1, <1>3, LinkFacts DEF Taken
      <3>2. heap[by].left = Null /\ heap[by].right = Null
        BY <3>1 DEF ChainsInv
      <3> QED
        BY <1>1, <3>2, LinkFacts DEF Sides
    <2>3. heap[n][s] = y => s = "child" /\ Below(n) = y
      BY <1>3, <1>6 DEF Sides
    <2>4. m = up /\ s = side => heap[m][s] = n
      BY <1>1 DEF Taken
    <2> QED
      BY <1>1, <1>6, <2>1, <2>2, <2>3, <2>4 DEF Holds
  <1> QED
    BY <1>4, <1>5, <1>6

(* The fields of the nodes that stay.                                       *)
LEMMA MovedFields ==
  ASSUME TypeOK, TypeOK', PointersInv, NEW n \in Placed, NEW by, NEW up, NEW side, Moved(n, by, up, side),
         NEW m \in Placed'
  PROVE  /\ m \in Placed /\ m # n /\ m # Null /\ m \in DOMAIN heap /\ m \in DOMAIN heap'
         /\ heap'[m].left = heap'[m]["left"] /\ heap'[m].right = heap'[m]["right"]
         /\ heap'[m].child = heap'[m]["child"]
         /\ heap'[m].parent = IF m = by THEN up ELSE IF m \in {Left(n), Right(n)} THEN by ELSE heap[m].parent
         /\ heap'[m].addr = heap[m].addr
  <1>1. m \in Placed /\ m # n /\ heap'[m].addr = heap[m].addr
    BY DEF Moved
  <1>2. /\ m \in 1 .. Len(heap) /\ m # Null /\ m \in DOMAIN heap /\ Heap(heap, Len(heap)) /\ Len(heap) \in Nat
        /\ m \in 1 .. Len(heap') /\ m \in DOMAIN heap' /\ Heap(heap', Len(heap'))
    BY <1>1, LinkFacts, HeapType, HeapTypeNext DEF Moved
  <1>3. heap[m].parent = heap[m]["parent"]
    BY <1>2, NodeFacts
  <1>4. /\ heap'[m].left = heap'[m]["left"] /\ heap'[m].right = heap'[m]["right"]
        /\ heap'[m].child = heap'[m]["child"] /\ heap'[m].parent = heap'[m]["parent"]
    BY <1>2, NodeFacts DEF Moved
  <1> QED
    BY <1>1, <1>2, <1>3, <1>4 DEF Moved

(* The pointers are in order after a removal.                               *)
LEMMA MovedPointers ==
  ASSUME TypeOK, TypeOK', PointersInv, ChainsInv, NEW n \in Placed, NEW by, NEW up, NEW side,
         Taken(n, by, up, side), Moved(n, by, up, side)
  PROVE  PointersInv'
  <1> DEFINE Held(m, s, y) == Holds(n, by, up, side, m, s, y)
             Orphans == {by, Left(n), Right(n)}
  <1>1. \A m \in Placed', s \in Sides : \A y : y # Null => (heap'[m][s] = y <=> Held(m, s, y))
    BY HeldAfter
  <1>2. /\ Placed' = Placed \ {n} /\ freed' = freed \cup {n} /\ Null \notin Placed
        /\ addresses' = IF up = Null THEN by ELSE addresses
        /\ Null \notin freed /\ addresses \in Placed \cup {Null}
    <2>1. Null \notin Placed /\ Null \notin freed
      BY LinkFacts, HeapType DEF Null
    <2>2. addresses \in Placed \cup {Null}
      BY DEF PointersInv
    <2> QED
      BY <2>1, <2>2 DEF Moved
  <1>3. \A m \in Placed' : heap'[m].parent = IF m = by THEN up
                                             ELSE IF m \in Orphans THEN by ELSE heap[m].parent
    BY MovedFields
  <1>4. ASSUME NEW y \in Orphans, y # Null
        PROVE  /\ y \in Placed' /\ y # addresses /\ by # Null
               /\ \A m \in Placed, s \in Sides : heap[m][s] = y => m = n
    <2>1. PICK t \in Sides : heap[n][t] = y
      BY <1>4 DEF Taken, Sides, Left, Right, Below
    <2>2. /\ y \in Placed /\ \A m \in Placed, s \in Sides : heap[m][s] = y => m = n
          /\ heap[y].parent \in {n} \cup freed
      BY <1>4, <2>1 DEF PointersInv
    <2>3. y # addresses
      BY <1>2, <2>2 DEF PointersInv
    <2>4. y # n
      <3> SUFFICES ASSUME y = n PROVE FALSE
        OBVIOUS
      <3>1. up # Null /\ heap[up][side] = n /\ up \in Placed /\ side \in Sides /\ up # n
        BY <2>3 DEF Taken, Sides
      <3> QED
        BY <2>2, <3>1
    <2>5. by # Null
      BY <1>4 DEF Taken
    <2> QED
      BY <1>2, <2>2, <2>3, <2>4, <2>5
  <1>5. \A s \in Sides : heap[n][s] # Null => heap[n][s] \in Orphans
    BY DEF Taken, Sides, Left, Right, Below
  <1>6. /\ by \in Placed' \cup {Null} /\ up \in Placed' \cup {Null} /\ (up = Null <=> n = addresses)
        /\ up # Null => side \in Sides /\ side # "child"
    BY <1>2 DEF Taken, Sides
  <1>7. /\ \A y \in Placed' : y = by => \A m, s : Held(m, s, y) <=> m = up /\ s = side
        /\ \A y \in Placed' : y \in Orphans /\ y # by =>
             \E t \in {"left", "right"} : \A m, s : Held(m, s, y) <=> m = by /\ s = t
        /\ \A y \in Placed' : y \notin Orphans => \A m, s : Held(m, s, y) <=> heap[m][s] = y
    <2>1. \A y \in Placed' : y = by => \A m, s : Held(m, s, y) <=> m = up /\ s = side
      BY DEF Holds
    <2>2. ASSUME NEW y \in Placed', y \in Orphans, y # by
          PROVE  \E t \in {"left", "right"} : \A m, s : Held(m, s, y) <=> m = by /\ s = t
      <3> DEFINE t == IF y = Left(n) THEN "left" ELSE "right"
      <3>1. \A m, s : Held(m, s, y) <=> m = by /\ s = t
        BY <2>2 DEF Holds
      <3>2. t \in {"left", "right"}
        OBVIOUS
      <3> HIDE DEF t, Held, Orphans
      <3> QED
        BY <3>1, <3>2
    <2>3. \A y \in Placed' : y \notin Orphans => \A m, s : Held(m, s, y) <=> heap[m][s] = y
      BY <1>2 DEF Holds
    <2> QED
      BY <2>1, <2>2, <2>3
  <1> HIDE DEF Held, Orphans
  <1>8. by # Null => by \in Orphans
    BY DEF Orphans
  <1>9. ASSUME NEW y \in Placed'
        PROVE  /\ heap'[y].parent = Null <=> y = addresses'
               /\ y = addresses' \/ \E m \in Placed', s \in Sides : heap'[m][s] = y
    <2>1. y # Null /\ y # n /\ y \in Placed
      BY <1>2
    <2>2. CASE y = by
      <3>1. y # addresses /\ heap'[y].parent = up
        BY <1>3, <1>4, <1>8, <2>1, <2>2
      <3>2. CASE up = Null
        BY <1>2, <2>2, <3>1, <3>2
      <3>3. CASE up # Null
        <4>1. heap'[up][side] = y
          BY <1>1, <1>6, <1>7, <2>1, <2>2, <3>3
        <4> QED
          BY <1>2, <1>6, <3>1, <3>3, <4>1
      <3> QED
        BY <3>2, <3>3
    <2>3. CASE y # by /\ y \in Orphans
      <3>1. y # addresses /\ heap'[y].parent = by /\ by # Null /\ by \in Placed'
        BY <1>3, <1>4, <1>6, <2>1, <2>3
      <3>2. PICK t \in Sides : heap'[by][t] = y
        BY <1>1, <1>7, <2>1, <2>3, <3>1 DEF Sides
      <3> QED
        BY <1>2, <2>3, <3>1, <3>2
    <2>4. CASE y # by /\ y \notin Orphans
      <3>1. heap'[y].parent = heap[y].parent
        BY <1>3, <2>4
      <3>2. heap[y].parent = Null <=> y = addresses
        BY <2>1 DEF PointersInv
      <3>3. y = addresses' <=> y = addresses
        BY <1>2, <1>6, <2>1, <2>4
      <3>4. CASE y # addresses
        <4>1. PICK m \in Placed, s \in Sides : heap[m][s] = y
          BY <2>1, <3>4 DEF PointersInv
        <4>2. m # n
          BY <1>5, <2>1, <2>4, <4>1
        <4>3. heap'[m][s] = y
          BY <1>1, <1>2, <1>7, <2>1, <2>4, <4>1, <4>2
        <4> QED
          BY <1>2, <3>1, <3>2, <3>3, <4>2, <4>3
      <3> QED
        BY <3>1, <3>2, <3>3, <3>4
    <2> QED
      BY <2>2, <2>3, <2>4
  <1>10. ASSUME NEW x \in Placed', NEW s \in Sides, heap'[x][s] # Null
         PROVE  /\ heap'[x][s] \in Placed'
                /\ heap'[heap'[x][s]].parent \in {x} \cup (IF s = "child" THEN freed' ELSE {})
                /\ \A m \in Placed', t \in Sides : heap'[m][t] = heap'[x][s] => m = x /\ t = s
    <2> DEFINE y == heap'[x][s]
    <2>1. Held(x, s, y) /\ \A m \in Placed', t \in Sides : heap'[m][t] = y => Held(m, t, y)
      BY <1>1, <1>10
    <2>2. y # Null
      BY <1>10
    <2>3. y \in Placed' /\ (y \notin Orphans => heap[x][s] = y)
      <3>1. CASE y \in Orphans
        BY <1>4, <2>2, <3>1
      <3>2. CASE y \notin Orphans
        <4>1. y # n /\ heap[x][s] = y
          BY <2>1, <3>2 DEF Held, Holds, Orphans
        <4> QED
          BY <1>2, <2>2, <4>1 DEF PointersInv
      <3> QED
        BY <3>1, <3>2
    <2> HIDE DEF y
    <2>4. CASE y = by
      BY <1>3, <1>7, <2>1, <2>3, <2>4 DEF y
    <2>5. CASE y # by /\ y \in Orphans
      BY <1>3, <1>7, <2>1, <2>3, <2>5 DEF y
    <2>6. CASE y # by /\ y \notin Orphans
      <3>1. heap'[y].parent = heap[y].parent /\ heap[x][s] = y /\ x \in Placed
        BY <1>2, <1>3, <2>3, <2>6
      <3>2. /\ heap[y].parent \in {x} \cup (IF s = "child" THEN freed ELSE {})
            /\ \A m \in Placed, t \in Sides : heap[m][t] = y => m = x /\ t = s
        BY <2>2, <3>1 DEF PointersInv
      <3>3. \A m \in Placed', t \in Sides : heap'[m][t] = y => heap[m][t] = y /\ m \in Placed
        BY <1>2, <1>7, <2>1, <2>3, <2>6
      <3> QED
        BY <1>2, <2>3, <3>1, <3>2, <3>3 DEF y
    <2> QED
      BY <2>4, <2>5, <2>6
  <1> QED
    BY <1>2, <1>6, <1>9, <1>10 DEF PointersInv

(* The chains are in order after a removal.                                 *)
LEMMA MovedChains ==
  ASSUME TypeOK, TypeOK', PointersInv, ChainsInv, NEW n \in Placed, NEW by, NEW up, NEW side,
         Taken(n, by, up, side), Moved(n, by, up, side)
  PROVE  ChainsInv'
  <1>1. \A m \in Placed', s \in Sides : \A y : y # Null => (heap'[m][s] = y <=> Holds(n, by, up, side, m, s, y))
    BY HeldAfter
  <1> SUFFICES ASSUME NEW m \in Placed', heap'[m].child # Null
               PROVE  LET next == heap'[m].child
                      IN  /\ next > m /\ heap'[next].addr = heap'[m].addr
                          /\ heap'[next].left = Null /\ heap'[next].right = Null
    BY DEF ChainsInv
  <1> DEFINE next == heap'[m].child
  <1>2. next # Null /\ Holds(n, by, up, side, m, "child", next)
    BY <1>1, MovedFields DEF Sides
  <1> HIDE DEF next
  <1>3. up = Null \/ side \in {"left", "right"}
    BY DEF Taken
  <1>4. m # up \/ side # "child"
    BY <1>3, LinkFacts DEF Moved
  <1>5. next # by /\ next \notin {Left(n), Right(n)} /\ next # n /\ heap[m]["child"] = next
    BY <1>2, <1>4 DEF Holds
  <1>6. m \in Placed /\ heap[m].child = next
    BY <1>5, MovedFields, LinkFacts
  <1>7. /\ next > m /\ heap[next].addr = heap[m].addr /\ next \in Placed
        /\ heap[next]["left"] = Null /\ heap[next]["right"] = Null
    BY <1>2, <1>6, LinkFacts DEF ChainsInv
  <1>8. next \in Placed'
    BY <1>5, <1>7 DEF Moved
  <1>9. ASSUME NEW s \in {"left", "right"} PROVE heap'[next][s] = Null
    <2> SUFFICES ASSUME heap'[next][s] # Null PROVE FALSE
      OBVIOUS
    <2>1. Holds(n, by, up, side, next, s, heap'[next][s])
      BY <1>1, <1>8 DEF Sides
    <2>2. CASE heap'[next][s] = by
      <3>1. next = up /\ s = side
        BY <2>1, <2>2 DEF Holds
      <3>2. heap[next][s] = n /\ n # Null
        BY <1>2, <3>1, LinkFacts DEF Taken
      <3> QED
        BY <1>7, <3>2
    <2>3. CASE heap'[next][s] # by
      BY <1>5, <1>7, <2>1, <2>3 DEF Holds
    <2> QED
      BY <2>2, <2>3
  <1>10. heap'[next].left = Null /\ heap'[next].right = Null /\ heap'[next].addr = heap'[m].addr
    BY <1>6, <1>7, <1>8, <1>9, MovedFields DEF Moved
  <1> QED
    BY <1>7, <1>10 DEF next

(* Searches that passed n pass the one that took its place.                 *)
LEMMA MovedSearch ==
  ASSUME TypeOK, TypeOK', PointersInv, ChainsInv, NEW rank, NEW region, Searchable(rank, region),
         NEW n \in Placed, NEW by, NEW up, NEW side,
         Taken(n, by, up, side), Moved(n, by, up, side)
  PROVE  SearchInv'
  <1> DEFINE Rank1(m) == IF m = by THEN rank[n] ELSE rank[m]
             Region1(m) == IF m = by THEN region[n] ELSE region[m]
             Above1(b, s, m) == (s = "left" => b < heap[m].addr) /\ (s = "right" => heap[m].addr < b)
  <1>1. /\ rank \in [DOMAIN heap -> Nat] /\ region \in [DOMAIN heap -> SUBSET Addr]
        /\ DOMAIN heap' = DOMAIN heap /\ n \in DOMAIN heap /\ Len(heap') = Len(heap)
        /\ addresses # Null => region[addresses] = Addr
    BY HeapType, HeapTypeNext DEF Searchable, Moved
  <1>2. PICK rank2 \in [DOMAIN heap' -> Nat], region2 \in [DOMAIN heap' -> SUBSET Addr] :
          \A m \in DOMAIN heap' : rank2[m] = Rank1(m) /\ region2[m] = Region1(m)
    <2>1. /\ [m \in DOMAIN heap' |-> Rank1(m)] \in [DOMAIN heap' -> Nat]
          /\ [m \in DOMAIN heap' |-> Region1(m)] \in [DOMAIN heap' -> SUBSET Addr]
      BY <1>1
    <2> HIDE DEF Rank1, Region1
    <2> QED
      BY <2>1
  <1>3. \A m \in Placed : /\ rank[m] \in Nat /\ rank[m] < Len(heap) /\ heap[m].addr \in region[m]
                          /\ rank2[m] = Rank1(m) /\ region2[m] = Region1(m)
    BY <1>1, <1>2, HeapType DEF Searchable, InSearchOrder
  <1> HIDE DEF Rank1, Region1
  <1>4. ASSUME NEW m \in Placed, NEW s \in {"left", "right"}, heap[m][s] # Null
        PROVE  /\ heap[m][s] \in Placed /\ rank[m] < rank[heap[m][s]]
               /\ \A b \in region[heap[m][s]] : b \in region[m] /\ Above1(b, s, m)
    BY <1>4, LinkFacts DEF Searchable, InSearchOrder
  <1>5. by # Null => /\ by \in Placed /\ heap[by].addr \in region[n]
                     /\ Below(n) = Null => rank[n] < rank[by] /\ region[by] \subseteq region[n]
                     /\ Below(n) # Null => /\ heap[by].addr = heap[n].addr
                                           /\ heap[by]["left"] = Null /\ heap[by]["right"] = Null
    <2> SUFFICES ASSUME by # Null
                 PROVE  /\ by \in Placed /\ heap[by].addr \in region[n]
                        /\ Below(n) = Null => rank[n] < rank[by] /\ region[by] \subseteq region[n]
                        /\ Below(n) # Null => /\ heap[by].addr = heap[n].addr
                                              /\ heap[by]["left"] = Null /\ heap[by]["right"] = Null
      OBVIOUS
    <2>1. by \in Placed
      BY DEF Taken
    <2>2. CASE Below(n) = Null
      <3>1. PICK s \in {"left", "right"} : heap[n][s] = by
        BY <2>2 DEF Taken, Left, Right
      <3> QED
        BY <1>3, <1>4, <2>1, <2>2, <3>1
    <2>3. CASE Below(n) # Null
      <3>1. heap[n].child = by
        BY <2>3, LinkFacts DEF Taken, Below
      <3>2. heap[by].addr = heap[n].addr /\ heap[by].left = Null /\ heap[by].right = Null
        BY <3>1 DEF ChainsInv
      <3> QED
        BY <1>3, <2>1, <2>3, <3>2, LinkFacts
    <2> QED
      BY <2>2, <2>3
  <1>6. ASSUME NEW m \in Placed', NEW s \in {"left", "right"}, heap'[m][s] # Null
        PROVE  /\ rank2[m] < rank2[heap'[m][s]]
               /\ \A b \in region2[heap'[m][s]] : b \in region2[m] /\ Above1(b, s, m)
    <2> DEFINE y == heap'[m][s]
    <2>1. y # Null /\ Holds(n, by, up, side, m, s, y) /\ m \in Placed /\ m # n
      BY <1>6, HeldAfter DEF Sides, Moved
    <2> HIDE DEF y
    <2>2. CASE y = by
      <3>1. m = up /\ s = side /\ heap[m][s] = n /\ m # by /\ n # Null
        BY <2>1, <2>2, LinkFacts DEF Holds, Taken
      <3>2. rank[m] < rank[n] /\ \A b \in region[n] : b \in region[m] /\ Above1(b, s, m)
        BY <1>4, <2>1, <3>1
      <3>3. /\ rank2[m] = rank[m] /\ region2[m] = region[m]
            /\ rank2[y] = rank[n] /\ region2[y] = region[n]
        BY <1>3, <1>5, <2>1, <2>2, <3>1 DEF Rank1, Region1
      <3> QED
        BY <3>2, <3>3 DEF y
    <2>3. CASE y # by /\ y \in {Left(n), Right(n)}
      <3>1. m = by /\ heap[n][s] = y /\ by # Null /\ Below(n) # Null
        BY <2>1, <2>3 DEF Holds, Taken, Left, Right
      <3>2. y \in Placed /\ rank[n] < rank[y] /\ \A b \in region[y] : b \in region[n] /\ Above1(b, s, n)
        BY <1>4, <2>1, <3>1
      <3>3. /\ rank2[m] = rank[n] /\ region2[m] = region[n] /\ heap[m].addr = heap[n].addr
            /\ rank2[y] = rank[y] /\ region2[y] = region[y]
        BY <1>3, <1>5, <2>1, <2>3, <3>1, <3>2 DEF Rank1, Region1
      <3>4. \A b : Above1(b, s, n) <=> Above1(b, s, m)
        BY <3>3
      <3> HIDE DEF Above1
      <3> QED
        BY <3>2, <3>3, <3>4 DEF y
    <2>4. CASE y # by /\ y \notin {Left(n), Right(n)}
      <3>1. heap[m][s] = y
        BY <2>1, <2>4 DEF Holds
      <3>2. y \in Placed /\ rank[m] < rank[y] /\ \A b \in region[y] : b \in region[m] /\ Above1(b, s, m)
        BY <1>4, <2>1, <3>1
      <3>3. rank2[y] = rank[y] /\ region2[y] = region[y]
        BY <1>3, <2>4, <3>2 DEF Rank1, Region1
      <3>4. CASE m # by
        <4>1. rank2[m] = rank[m] /\ region2[m] = region[m]
          BY <1>3, <2>1, <3>4 DEF Rank1, Region1
        <4> QED
          BY <3>2, <3>3, <4>1 DEF y
      <3>5. CASE m = by
        <4>1. rank2[m] = rank[n] /\ region2[m] = region[n] /\ by # Null
          BY <1>3, <2>1, <3>5, LinkFacts DEF Rank1, Region1
        <4>2. Below(n) = Null
          BY <1>5, <2>1, <3>1, <3>5, <4>1
        <4>3. rank[n] < rank[m] /\ region[m] \subseteq region[n]
          BY <1>5, <3>5, <4>1, <4>2
        <4>4. rank[n] \in Nat /\ rank[m] \in Nat /\ rank[y] \in Nat
          BY <1>3, <2>1, <3>2
        <4>5. rank[n] < rank[y]
          BY <3>2, <4>3, <4>4
        <4> HIDE DEF Above1
        <4> QED
          BY <3>2, <3>3, <4>1, <4>3, <4>5 DEF y
      <3> QED
        BY <3>4, <3>5
    <2> QED
      BY <2>2, <2>3, <2>4
  <1>7. ASSUME NEW m \in Placed'
        PROVE  /\ rank2[m] < Len(heap') /\ heap'[m].addr \in region2[m] /\ heap'[m].addr = heap[m].addr
               /\ heap'[m].left = heap'[m]["left"] /\ heap'[m].right = heap'[m]["right"]
    <2>1. m \in Placed /\ m # Null /\ heap'[m].addr = heap[m].addr
      BY MovedFields
    <2>2. rank2[m] < Len(heap') /\ heap'[m].addr \in region2[m]
      BY <1>1, <1>3, <1>5, <2>1 DEF Rank1, Region1
    <2> QED
      BY <2>1, <2>2, MovedFields
  <1>8. InSearchOrder(rank2, region2)'
    BY <1>6, <1>7 DEF InSearchOrder
  <1>9. addresses' # Null => region2[addresses'] = Addr
    <2>1. CASE up = Null
      <3>1. addresses' = by /\ n = addresses /\ n # Null
        BY <2>1, LinkFacts DEF Taken, Moved
      <3> QED
        BY <1>1, <1>3, <1>5, <3>1 DEF Region1
    <2>2. CASE up # Null
      <3>1. addresses' = addresses /\ n # addresses
        BY <2>2 DEF Taken, Moved
      <3>2. ASSUME addresses # Null PROVE addresses \in Placed /\ addresses # by
        <4>1. addresses \in Placed
          BY <3>2 DEF PointersInv
        <4>2. ASSUME by # Null, by = addresses PROVE FALSE
          <5>1. PICK s \in Sides : heap[n][s] = by
            BY <4>2 DEF Taken, Sides, Left, Right, Below
          <5>2. heap[by].parent \in {n} \cup freed /\ Null \notin freed /\ n # Null
            BY <4>2, <5>1, LinkFacts, HeapType DEF PointersInv, Null
          <5>3. heap[by].parent = Null
            BY <4>1, <4>2 DEF PointersInv
          <5> QED
            BY <5>2, <5>3
        <4> QED
          BY <3>2, <4>1, <4>2
      <3> QED
        BY <1>1, <1>3, <3>1, <3>2 DEF Region1
    <2> QED
      BY <2>1, <2>2
  <1> QED
    BY <1>8, <1>9 DEF SearchInv

(* The end of a spine is a node.                                            *)
LEMMA OutermostPlaced ==
  ASSUME TypeOK, PointersInv, NEW n \in Placed, NEW side \in {"left", "right"}
  PROVE  Outermost(n, side) \in Placed
  <1> DEFINE N == Len(heap)
             G(x) == IF heap[x][side] = Null THEN x ELSE heap[x][side]
             F == [x \in Placed |-> G(x)]
             Body(g) == [k \in 0 .. N |->
                           IF k = 0 THEN n
                           ELSE IF heap[g[k - 1]][side] = Null THEN g[k - 1] ELSE heap[g[k - 1]][side]]
             out == CHOOSE g : g = Body(g)
  <1>1. N \in Nat
    BY HeapType
  <1>2. F \in [Placed -> Placed]
    <2>1. \A x \in Placed : G(x) \in Placed
      BY DEF PointersInv, Sides
    <2> QED
      BY <2>1
  <1>3. Outermost(n, side) = out[N]
    BY DEF Outermost
  <1>4. PICK g \in [0 .. N -> Placed] : Walk(g, N, n, F)
    <2> HIDE DEF F, N
    <2> QED
      BY <1>1, <1>2, WalkExists
  <1>5. g = Body(g)
    <2>1. ASSUME NEW k \in 0 .. N
          PROVE  g[k] = IF k = 0 THEN n
                        ELSE IF heap[g[k - 1]][side] = Null THEN g[k - 1] ELSE heap[g[k - 1]][side]
      <3>1. CASE k = 0
        BY <1>4, <3>1 DEF Walk
      <3>2. CASE k # 0
        <4>1. k \in 1 .. N /\ k - 1 \in 0 .. N
          BY <1>1, <3>2
        <4>2. g[k] = F[g[k - 1]] /\ g[k - 1] \in Placed
          BY <1>4, <4>1 DEF Walk
        <4> QED
          BY <3>2, <4>2
      <3> QED
        BY <3>1, <3>2
    <2> HIDE DEF F, N, G
    <2> QED
      BY <2>1
  <1>6. out = Body(out)
    <2> HIDE DEF Body
    <2> QED
      BY <1>5
  <1> HIDE DEF out
  <1>7. \A k \in 0 .. N : out[k] \in Placed
    <2> DEFINE S == {k \in 0 .. N : out[k] \in Placed}
    <2>1. 0 \in S
      BY <1>1, <1>6
    <2>2. ASSUME NEW k \in 1 .. N, k - 1 \in S PROVE k \in S
      <3>1. k \in 0 .. N /\ k # 0
        BY <1>1
      <3>2. out[k] = G(out[k - 1])
        BY <1>6, <3>1
      <3>3. G(out[k - 1]) \in Placed
        BY <1>2, <2>2
      <3> QED
        BY <3>1, <3>2, <3>3
    <2>3. \A k \in 0 .. N : k \in S
      <3> HIDE DEF S, N
      <3> QED
        BY <1>1, <2>1, <2>2, NatUpTo
    <2> QED
      BY <2>3
  <1> QED
    BY <1>1, <1>3, <1>7

(* The fields that a removal leaves alone.                                  *)
SameData(h, m) ==
  /\ h[m].subtype = heap[m].subtype /\ h[m].on_events = heap[m].on_events
  /\ h[m].addr = heap[m].addr /\ h[m].addr_range = heap[m].addr_range
(* A store to a pointer leaves the data of the nodes alone.                 *)
LEMMA StoredData ==
  ASSUME NEW h, NEW h2, NEW n, NEW field, NEW v, Len(h) = Len(heap), Stored(h, h2, n, field, v),
         \A m \in 1 .. Len(heap) : SameData(h, m)
  PROVE  Len(h2) = Len(heap) /\ \A m \in 1 .. Len(heap) : SameData(h2, m)
  BY DEF Stored, SameData

(* What by takes over of n.                                                 *)
LEMMA AdoptFacts ==
  ASSUME TypeOK, NEW by \in 0 .. Len(heap), NEW n \in 1 .. Len(heap)
  PROVE  LET h2 == Adopt(heap, by, n)
         IN  /\ Heap(h2, Len(heap)) /\ Len(h2) = Len(heap)
             /\ \A m \in 1 .. Len(heap) :
                  /\ SameData(h2, m)
                  /\ h2[m]["left"] = IF m = by THEN Left(n) ELSE heap[m]["left"]
                  /\ h2[m]["right"] = IF m = by THEN Right(n) ELSE heap[m]["right"]
                  /\ h2[m]["child"] = heap[m]["child"]
                  /\ h2[m]["parent"] = IF m \in {Left(n), Right(n)} THEN by ELSE heap[m]["parent"]
  <1> DEFINE N == Len(heap)
             l == Left(n)
             r == Right(n)
             h1 == Set(heap, by, "left", l)
             h2 == Set(h1, l, "parent", by)
             h3 == Set(h2, by, "right", r)
             h4 == Set(h3, r, "parent", by)
  <1>1. Heap(heap, N) /\ N \in Nat /\ l \in 0 .. N /\ r \in 0 .. N /\ l = heap[n].left /\ r = heap[n].right
    BY HeapType, NodeFacts DEF Left, Right
  <1>2. Adopt(heap, by, n) = h4
    BY <1>1 DEF Adopt
  <1>3. /\ "left" \in Links /\ "right" \in Links /\ "child" \in Links /\ "parent" \in Links
    BY DEF Links
  <1> HIDE DEF l, r, h1, h2, h3, h4
  <1>4. Heap(h1, N) /\ Stored(heap, h1, by, "left", l)
    BY <1>1, <1>3, SetFacts DEF h1
  <1>5. Len(h1) = N /\ \A m \in 1 .. N : SameData(h1, m)
    BY <1>4 DEF Stored, SameData
  <1>6. Heap(h2, N) /\ Stored(h1, h2, l, "parent", by)
    BY <1>1, <1>3, <1>4, <1>5, SetFacts DEF h2
  <1>7. Len(h2) = N /\ \A m \in 1 .. N : SameData(h2, m)
    BY <1>5, <1>6, StoredData
  <1>8. Heap(h3, N) /\ Stored(h2, h3, by, "right", r)
    BY <1>1, <1>3, <1>6, <1>7, SetFacts DEF h3
  <1>9. Len(h3) = N /\ \A m \in 1 .. N : SameData(h3, m)
    BY <1>7, <1>8, StoredData
  <1>10. Heap(h4, N) /\ Stored(h3, h4, r, "parent", by)
    BY <1>1, <1>3, <1>8, <1>9, SetFacts DEF h4
  <1>11. Len(h4) = N /\ \A m \in 1 .. N : SameData(h4, m)
    BY <1>9, <1>10, StoredData
  <1>12. ASSUME NEW m \in 1 .. N
         PROVE  /\ \A s \in Links : h1[m][s] = IF m = by /\ s = "left" THEN l ELSE heap[m][s]
                /\ \A s \in Links : h2[m][s] = IF m = l /\ s = "parent" THEN by ELSE h1[m][s]
                /\ \A s \in Links : h3[m][s] = IF m = by /\ s = "right" THEN r ELSE h2[m][s]
                /\ \A s \in Links : h4[m][s] = IF m = r /\ s = "parent" THEN by ELSE h3[m][s]
    BY <1>4, <1>5, <1>6, <1>7, <1>8, <1>9, <1>10 DEF Stored
  <1>13. ASSUME NEW m \in 1 .. N
         PROVE  /\ h4[m]["left"] = IF m = by THEN l ELSE heap[m]["left"]
                /\ h4[m]["right"] = IF m = by THEN r ELSE heap[m]["right"]
                /\ h4[m]["child"] = heap[m]["child"]
                /\ h4[m]["parent"] = IF m \in {l, r} THEN by ELSE heap[m]["parent"]
    BY <1>3, <1>12
  <1> QED
    BY <1>2, <1>10, <1>11, <1>13 DEF l, r

(* What the removal of a head stores.                                       *)
SideAt(n) ==
  IF heap[n].parent = Null THEN "root" ELSE IF heap[heap[n].parent].left = n THEN "left" ELSE "right"
By(n) == Replacement(n, SideAt(n))
Both(n) == heap[n].left # Null /\ heap[n].right # Null
(* Every field of the heap after the removal of a head.                     *)
LEMMA BranchFields ==
  ASSUME TypeOK, PointersInv, NEW n \in Placed, UnregisterBranch(n)
  PROVE  /\ Heap(heap', Len(heap)) /\ Len(heap') = Len(heap)
         /\ By(n) \in Placed \cup {Null} /\ heap[n].parent \in 0 .. Len(heap)
         /\ \A m \in 1 .. Len(heap) :
              /\ SameData(heap', m)
              /\ heap'[m]["left"] = IF m = heap[n].parent /\ SideAt(n) = "left" THEN By(n)
                                    ELSE IF m = By(n) /\ (Below(n) # Null \/ Both(n)) THEN Left(n)
                                    ELSE heap[m]["left"]
              /\ heap'[m]["right"] = IF m = heap[n].parent /\ SideAt(n) = "right" THEN By(n)
                                     ELSE IF m = By(n) /\ (Below(n) # Null \/ Both(n)) THEN Right(n)
                                     ELSE heap[m]["right"]
              /\ heap'[m]["child"] = heap[m]["child"]
              /\ heap'[m]["parent"] = IF m = By(n) THEN heap[n].parent
                                      ELSE IF (Below(n) # Null \/ Both(n)) /\ m \in {Left(n), Right(n)}
                                      THEN By(n) ELSE heap[m]["parent"]
  <1> DEFINE N == Len(heap)
             up == heap[n].parent
             side == SideAt(n)
             by == By(n)
             adopts == Below(n) # Null \/ Both(n)
             h1 == IF adopts THEN Adopt(heap, by, n) ELSE heap
             h2 == Set(h1, by, "parent", up)
             h3 == IF side = "root" THEN h2 ELSE Set(h2, up, side, by)
  <1>1. /\ n \in 1 .. N /\ N \in Nat /\ Heap(heap, N) /\ up \in 0 .. N
        /\ heap[n].child = Below(n) /\ heap[n].left = Left(n) /\ heap[n].right = Right(n)
        /\ Left(n) \in Placed \cup {Null} /\ Right(n) \in Placed \cup {Null} /\ Below(n) \in Placed \cup {Null}
    BY LinkFacts, HeapType DEF Left, Right, Below
  <1>2. by \in Placed \cup {Null}
    <2>1. \A m \in Placed, s \in {"left", "right"} : Outermost(m, s) \in Placed
      BY OutermostPlaced
    <2> QED
      BY <1>1, <2>1 DEF By, Replacement
  <1>3. by \in 0 .. N
    <2>1. Placed \subseteq 1 .. N
      BY HeapType
    <2> HIDE DEF by
    <2> QED
      BY <1>1, <1>2, <2>1 DEF Null
  <1>4. heap' = h3
    BY <1>1 DEF UnregisterBranch, SideAt, By, Both
  <1>5. side \in {"root", "left", "right"} /\ (side = "root" <=> up = Null)
    BY DEF SideAt
  <1> HIDE DEF up, side, by, adopts, h1, h2, h3
  <1>6. /\ Heap(h1, N) /\ Len(h1) = N
        /\ \A m \in 1 .. N :
             /\ SameData(h1, m)
             /\ h1[m]["left"] = IF m = by /\ adopts THEN Left(n) ELSE heap[m]["left"]
             /\ h1[m]["right"] = IF m = by /\ adopts THEN Right(n) ELSE heap[m]["right"]
             /\ h1[m]["child"] = heap[m]["child"]
             /\ h1[m]["parent"] = IF adopts /\ m \in {Left(n), Right(n)} THEN by ELSE heap[m]["parent"]
    <2>1. CASE adopts
      <3>1. h1 = Adopt(heap, by, n)
        BY <2>1 DEF h1
      <3> QED
        BY <1>1, <1>3, <2>1, <3>1, AdoptFacts
    <2>2. CASE ~ adopts
      <3>1. h1 = heap
        BY <2>2 DEF h1
      <3> QED
        BY <1>1, <2>2, <3>1 DEF SameData
    <2> QED
      BY <2>1, <2>2
  <1>7. "left" \in Links /\ "right" \in Links /\ "child" \in Links /\ "parent" \in Links
    BY DEF Links
  <1>8. Heap(h2, N) /\ Stored(h1, h2, by, "parent", up)
    BY <1>1, <1>3, <1>6, <1>7, SetFacts DEF h2
  <1>9. Len(h2) = N /\ \A m \in 1 .. N : SameData(h2, m)
    BY <1>6, <1>8, StoredData
  <1>10. \A m \in 1 .. N, s \in Links : h2[m][s] = IF m = by /\ s = "parent" THEN up ELSE h1[m][s]
    BY <1>6, <1>8 DEF Stored
  <1>11. /\ Heap(h3, N) /\ Len(h3) = N
         /\ \A m \in 1 .. N : SameData(h3, m)
         /\ \A m \in 1 .. N, s \in Links : h3[m][s] = IF m = up /\ s = side THEN by ELSE h2[m][s]
    <2>1. CASE side = "root"
      <3>1. h3 = h2
        BY <2>1 DEF h3
      <3> QED
        BY <1>7, <1>8, <1>9, <2>1, <3>1 DEF Links
    <2>2. CASE side # "root"
      <3>1. h3 = Set(h2, up, side, by) /\ side \in Links
        BY <1>5, <1>7, <2>2 DEF h3
      <3>2. Heap(h3, N) /\ Stored(h2, h3, up, side, by)
        BY <1>1, <1>3, <1>8, <1>9, <3>1, SetFacts
      <3>3. Len(h3) = N /\ \A m \in 1 .. N : SameData(h3, m)
        BY <1>9, <3>2, StoredData
      <3> QED
        BY <1>9, <3>2, <3>3 DEF Stored
    <2> QED
      BY <2>1, <2>2
  <1>12. ASSUME NEW m \in 1 .. N
         PROVE  /\ h3[m]["left"] = IF m = up /\ side = "left" THEN by
                                   ELSE IF m = by /\ adopts THEN Left(n) ELSE heap[m]["left"]
                /\ h3[m]["right"] = IF m = up /\ side = "right" THEN by
                                    ELSE IF m = by /\ adopts THEN Right(n) ELSE heap[m]["right"]
                /\ h3[m]["child"] = heap[m]["child"]
                /\ h3[m]["parent"] = IF m = by THEN up
                                     ELSE IF adopts /\ m \in {Left(n), Right(n)} THEN by ELSE heap[m]["parent"]
    BY <1>5, <1>6, <1>7, <1>10, <1>11
  <1> QED
    BY <1>1, <1>2, <1>4, <1>11, <1>12 DEF up, side, by, adopts

(* The one that takes the place of a head, while the tree stays in order.   *)
LEMMA TakesPlace ==
  ASSUME TypeOK, PointersInv, ChainsInv, NEW rank, NEW region, Searchable(rank, region),
         NEW n \in Placed, heap[n].parent \notin freed, ~ InChain(n), heap[n].child # Null \/ ~ Both(n)
  PROVE  Taken(n, By(n), heap[n].parent, SideAt(n))
  <1> DEFINE up == heap[n].parent
             side == SideAt(n)
             by == By(n)
  <1>1. /\ n # Null /\ heap[n].child = Below(n) /\ heap[n].left = Left(n) /\ heap[n].right = Right(n)
        /\ Left(n) \in Placed \cup {Null} /\ Right(n) \in Placed \cup {Null} /\ Below(n) \in Placed \cup {Null}
        /\ \A m \in Placed : rank[m] \in Nat
    <2>1. \A m \in Placed : rank[m] \in Nat
      BY RankClimbs
    <2> QED
      BY <2>1, LinkFacts DEF Left, Right, Below
  <1>2. \A m \in Placed, s \in {"left", "right"} : heap[m][s] # Null => rank[m] < rank[heap[m][s]]
    BY LinkFacts DEF Searchable, InSearchOrder
  <1>3. up = Null <=> n = addresses
    BY DEF PointersInv
  <1>4. up # Null => up \in Placed /\ side \in {"left", "right"} /\ heap[up][side] = n
    <2> SUFFICES ASSUME up # Null PROVE up \in Placed /\ side \in {"left", "right"} /\ heap[up][side] = n
      OBVIOUS
    <2>1. PICK m \in Placed, s \in Sides : heap[m][s] = n
      BY <1>3 DEF PointersInv
    <2>2. heap[n].parent = m
      BY <1>1, <2>1 DEF PointersInv
    <2>3. heap[m].child # n
      BY <2>2, LinkFacts DEF InChain
    <2>4. s \in {"left", "right"}
      BY <2>1, <2>3, LinkFacts DEF Sides
    <2> QED
      BY <2>1, <2>2, <2>4, LinkFacts DEF SideAt
  <1>5. by = IF Below(n) # Null THEN Below(n) ELSE IF Left(n) # Null THEN Left(n) ELSE Right(n)
    BY <1>1 DEF By, Replacement, Both
  <1> HIDE DEF up, side, by
  <1>6. \/ by # Null /\ Below(n) = by
        \/ /\ Below(n) = Null /\ {Left(n), Right(n)} \subseteq {by, Null}
           /\ by # Null => by \in {Left(n), Right(n)}
    BY <1>1, <1>5 DEF Both
  <1>7. by # Null => by \in Placed /\ by # n /\ by # up
    <2> SUFFICES ASSUME by # Null PROVE by \in Placed /\ by # n /\ by # up
      OBVIOUS
    <2>1. by \in Placed
      BY <1>1, <1>5
    <2>2. CASE Below(n) = by
      <3>1. by > n /\ heap[by].left = Null /\ heap[by].right = Null /\ n \in Nat
        <4>1. n \in Nat
          BY HeapType
        <4> QED
          BY <1>1, <2>2, <4>1 DEF ChainsInv
      <3>2. heap[by]["left"] = Null /\ heap[by]["right"] = Null
        BY <2>1, <3>1, LinkFacts
      <3> QED
        BY <1>1, <1>4, <2>1, <3>1, <3>2
    <2>3. CASE by \in {Left(n), Right(n)}
      <3>1. PICK s \in {"left", "right"} : heap[n][s] = by
        BY <2>3 DEF Left, Right
      <3>2. rank[n] < rank[by]
        BY <1>2, <3>1
      <3>3. up # Null => rank[up] < rank[n]
        BY <1>1, <1>2, <1>4
      <3> QED
        BY <1>1, <2>1, <3>2, <3>3
    <2> QED
      BY <1>6, <2>2, <2>3
  <1>8. up # n
    <2>1. up # Null => rank[up] < rank[n]
      BY <1>1, <1>2, <1>4
    <2> QED
      BY <1>1, <2>1
  <1>9. up # Null => up # by
    BY <1>7
  <1> QED
    BY <1>3, <1>4, <1>6, <1>7, <1>8, <1>9 DEF Taken, up, side, by

(* A head is removed.                                                       *)
LEMMA BranchStep ==
  ASSUME IInv, NEW n \in Live, UnregisterBranch(n)
  PROVE  IInv'
  <1> DEFINE N == Len(heap)
             up == heap[n].parent
             side == SideAt(n)
             by == By(n)
  <1>1. TypeOK /\ Parts /\ is_up /\ ~ damaged /\ n \in Placed /\ up \notin freed /\ ~ InChain(n)
    BY DEF IInv, Parts, UnregisterBranch, Placed
  <1>2. /\ Heap(heap', N) /\ Len(heap') = N /\ N \in Nat
        /\ DOMAIN heap = 1 .. N /\ DOMAIN heap' = 1 .. N
        /\ \A m \in 1 .. N : SameData(heap', m)
        /\ by \in 0 .. N
    <2>1. Heap(heap', N) /\ Len(heap') = N /\ \A m \in 1 .. N : SameData(heap', m)
      BY <1>1, BranchFields DEF Parts
    <2>2. N \in Nat /\ DOMAIN heap = 1 .. N /\ Placed \subseteq 1 .. N
      BY <1>1, HeapType
    <2>3. by \in Placed \cup {Null}
      BY <1>1, BranchFields DEF Parts
    <2>4. DOMAIN heap' = 1 .. N
      BY <2>1 DEF Heap
    <2> HIDE DEF by
    <2>5. by \in 0 .. N
      BY <2>2, <2>3 DEF Null
    <2> QED
      BY <2>1, <2>2, <2>4, <2>5
  <1>3. /\ freed' = freed \cup {n} /\ UNCHANGED <<lists, mode, is_up>>
        /\ addresses' = IF up = Null THEN by ELSE addresses
        /\ damaged' = (heap[n].child = Null /\ Both(n))
    BY DEF UnregisterBranch, Forget, SideAt, By, Both
  <1>4. TypeOK'
    <2>1. freed' \subseteq DOMAIN heap'
      BY <1>1, <1>2, <1>3, HeapType
    <2>2. addresses' \in 0 .. N
      BY <1>1, <1>2, <1>3, HeapType
    <2>3. generics' \in Seq(DOMAIN heap') /\ address_ranges' \in Seq(DOMAIN heap')
      BY <1>1, <1>2, <1>3 DEF TypeOK, lists
    <2>4. \A m \in DOMAIN heap' : heap'[m].subtype = "range" => heap'[m].addr_range.addr_len # 0
      BY <1>1, <1>2 DEF TypeOK, SameData
    <2>5. is_up' \in BOOLEAN /\ damaged' \in BOOLEAN /\ mode' = mode
      BY <1>1, <1>3 DEF TypeOK
    <2>6. Len(heap') \in Nat /\ Len(heap) <= Len(heap') /\ Heap(heap', Len(heap')) /\ addresses' \in 0 .. Len(heap')
      BY <1>2, <2>2
    <2> QED
      BY <1>1, <2>1, <2>3, <2>4, <2>5, <2>6, TypeKept
  <1>5. ASSUME ~ damaged'
        PROVE  PointersInv' /\ ChainsInv' /\ SearchInv' /\ ListsInv' /\ WatchedInv'
    <2>1. heap[n].child # Null \/ ~ Both(n)
      BY <1>3, <1>5
    <2>2. PICK rank, region : Searchable(rank, region)
      BY <1>1 DEF Parts, SearchInv, Searchable
    <2>3. Taken(n, by, up, side)
      BY <1>1, <2>1, <2>2, TakesPlace DEF Parts
    <2>4. WatchedInv' /\ Live' = Live \ {n}
      <3>1. \A m \in DOMAIN heap : SameKind(m)
        BY <1>2 DEF SameData, SameKind
      <3> QED
        BY <1>1, <1>2, <3>1, WatchedForgets DEF Parts, UnregisterBranch
    <2>5. Placed' = Placed \ {n}
      BY <1>1, <1>2, <2>4, HeapType DEF Placed, SameData
    <2>6. ListsInv'
      <3>1. \A m \in Live : heap'[m].subtype = heap[m].subtype
        BY <1>1, <1>2, HeapType DEF SameData
      <3>2. heap[n].subtype = "address"
        BY <1>1 DEF Placed
      <3>3. {m \in Live' : heap'[m].subtype = "generic"} = {m \in Live : heap[m].subtype = "generic"}
        BY <2>4, <3>1, <3>2
      <3>4. {m \in Live' : heap'[m].subtype = "range"} = {m \in Live : heap[m].subtype = "range"}
        BY <2>4, <3>1, <3>2
      <3> QED
        BY <1>1, <1>3, <3>3, <3>4 DEF Parts, ListsInv, Listed, lists
    <2>7. Moved(n, by, up, side)
      <3>1. /\ heap[n].child = Below(n) /\ heap[n].left = Left(n) /\ heap[n].right = Right(n)
            /\ Left(n) = heap[n]["left"] /\ Right(n) = heap[n]["right"]
        BY <1>1, LinkFacts DEF Left, Right, Below, Parts
      <3>2. Below(n) # Null \/ Both(n) <=> Below(n) # Null
        BY <2>1, <3>1
      <3>3. ASSUME NEW m \in Placed'
            PROVE  /\ m # Null
                   /\ heap'[m]["left"] = IF m = up /\ side = "left" THEN by
                                         ELSE IF m = by /\ Below(n) # Null THEN Left(n) ELSE heap[m]["left"]
                   /\ heap'[m]["right"] = IF m = up /\ side = "right" THEN by
                                          ELSE IF m = by /\ Below(n) # Null THEN Right(n) ELSE heap[m]["right"]
                   /\ heap'[m]["child"] = heap[m]["child"]
                   /\ heap'[m]["parent"] = IF m = by THEN up
                                           ELSE IF Below(n) # Null /\ m \in {Left(n), Right(n)} THEN by
                                           ELSE heap[m]["parent"]
        <4>1. m \in 1 .. N /\ m # Null
          BY <1>1, <2>5, LinkFacts DEF Parts
        <4> QED
          BY <1>1, <3>2, <4>1, BranchFields DEF Parts
      <3>4. \A m \in Placed : heap'[m].addr = heap[m].addr
        BY <1>1, <1>2, HeapType DEF SameData
      <3>5. side # "child"
        BY DEF SideAt
      <3> HIDE DEF up, side, by
      <3>6. ASSUME NEW m \in Placed', NEW s \in Sides
            PROVE  heap'[m][s] = IF m = up /\ s = side THEN by
                                 ELSE IF m = by /\ s # "child" /\ Below(n) # Null THEN heap[n][s]
                                 ELSE heap[m][s]
        BY <3>1, <3>3, <3>5 DEF Sides
      <3>7. ASSUME NEW m \in Placed'
            PROVE  heap'[m]["parent"] = IF m = by THEN up
                                        ELSE IF m \in {Left(n), Right(n)} THEN by ELSE heap[m]["parent"]
        BY <2>3, <3>3 DEF Taken
      <3> QED
        BY <1>2, <1>3, <2>5, <3>4, <3>6, <3>7 DEF Moved
    <2> HIDE DEF up, side, by
    <2>8. PointersInv' /\ ChainsInv' /\ SearchInv'
      BY <1>1, <1>4, <2>2, <2>3, <2>7, MovedPointers, MovedChains, MovedSearch DEF Parts
    <2> QED
      BY <2>4, <2>6, <2>8
  <1> QED
    BY <1>1, <1>3, <1>4, <1>5 DEF IInv, AllFreed

(* A node inside a chain is removed: the next one keeps its parent.         *)
LEMMA ChainedStep ==
  ASSUME IInv, NEW n \in Live, UnregisterChained(n)
  PROVE  IInv'
  <1> DEFINE N == Len(heap)
             up == heap[n].parent
             next == heap[n].child
  <1>1. TypeOK /\ Parts /\ is_up /\ ~ damaged /\ n \in Placed /\ up \notin freed /\ InChain(n)
    BY DEF IInv, Parts, UnregisterChained, Placed
  <1>2. /\ heap' = Set(heap, up, "child", next) /\ freed' = freed \cup {n}
        /\ UNCHANGED <<addresses, lists, mode, is_up, damaged>>
    BY DEF UnregisterChained, Forget
  <1>3. up # Null /\ up \in Placed /\ heap[up]["child"] = n /\ n # addresses
    <2>1. up # Null /\ heap[up].child = n /\ n # addresses
      BY <1>1 DEF InChain, Parts, PointersInv
    <2>2. PICK m \in Placed, s \in Sides : heap[m][s] = n
      BY <1>1, <2>1 DEF Parts, PointersInv
    <2>3. up = m
      <3>1. n # Null
        BY <1>1, LinkFacts DEF Parts
      <3> QED
        BY <1>1, <2>2, <3>1 DEF Parts, PointersInv
    <2> QED
      BY <1>1, <2>1, <2>3, LinkFacts DEF Parts
  <1>4. /\ n \in Nat /\ up \in Nat /\ n > up /\ heap[n].addr = heap[up].addr
        /\ next \in Placed \cup {Null} /\ next = heap[n]["child"] /\ n # Null
        /\ heap[n]["left"] = Null /\ heap[n]["right"] = Null
        /\ next # Null => /\ next > n /\ heap[next].addr = heap[n].addr
                          /\ heap[next]["left"] = Null /\ heap[next]["right"] = Null
    <2>1. n \in 1 .. N /\ up \in 1 .. N /\ N \in Nat /\ heap[up].child = n /\ n # Null
      BY <1>1, <1>3, LinkFacts, HeapType DEF Parts
    <2>2. next \in Placed \cup {Null} /\ next = heap[n]["child"]
      BY <1>1, LinkFacts DEF Parts
    <2>3. n > up /\ heap[n].addr = heap[up].addr /\ heap[n].left = Null /\ heap[n].right = Null
      BY <1>1, <1>3, <2>1 DEF Parts, ChainsInv
    <2>4. next # Null => /\ next > n /\ heap[next].addr = heap[n].addr
                         /\ heap[next].left = Null /\ heap[next].right = Null
      BY <1>1 DEF Parts, ChainsInv
    <2> QED
      BY <1>1, <2>1, <2>2, <2>3, <2>4, LinkFacts DEF Parts
  <1> HIDE DEF next, up
  <1>5. /\ Heap(heap', N) /\ Len(heap') = N /\ N \in Nat
        /\ DOMAIN heap = 1 .. N /\ DOMAIN heap' = 1 .. N
        /\ \A m \in 1 .. N : SameKind(m)
        /\ \A m \in 1 .. N, s \in Links :
             heap'[m][s] = IF m = up /\ s = "child" THEN next ELSE heap[m][s]
    <2>1. Heap(heap, N) /\ N \in Nat /\ DOMAIN heap = 1 .. N /\ Placed \subseteq 1 .. N
      BY <1>1, HeapType
    <2>2. up \in 0 .. N /\ next \in 0 .. N /\ "child" \in Links
      BY <1>3, <1>4, <2>1 DEF Null, Links
    <2>3. Heap(heap', N) /\ Stored(heap, heap', up, "child", next)
      BY <1>2, <2>1, <2>2, SetFacts
    <2>4. Len(heap') = N /\ DOMAIN heap' = 1 .. N
      BY <2>3 DEF Stored, Heap
    <2> QED
      BY <2>1, <2>3, <2>4 DEF Stored, SameKind
  <1>6. WatchedInv' /\ Live' = Live \ {n}
    <2>1. Forget(n) /\ DOMAIN heap' = DOMAIN heap /\ \A m \in DOMAIN heap : SameKind(m)
      BY <1>5 DEF UnregisterChained
    <2> QED
      BY <1>1, <2>1, WatchedForgets DEF Parts
  <1>7. Placed' = Placed \ {n}
    BY <1>1, <1>5, <1>6, HeapType DEF Placed, SameKind
  <1>8. TypeOK'
    <2>1. freed' \subseteq DOMAIN heap' /\ addresses' \in 0 .. Len(heap') /\ Len(heap') \in Nat
      BY <1>1, <1>2, <1>5, HeapType
    <2>2. generics' \in Seq(DOMAIN heap') /\ address_ranges' \in Seq(DOMAIN heap')
      BY <1>1, <1>2, <1>5 DEF TypeOK, lists
    <2>3. \A m \in DOMAIN heap' : heap'[m].subtype = "range" => heap'[m].addr_range.addr_len # 0
      BY <1>1, <1>5 DEF TypeOK, SameKind
    <2>4. is_up' \in BOOLEAN /\ damaged' \in BOOLEAN /\ mode' = mode /\ Len(heap) <= Len(heap')
      BY <1>1, <1>2, <1>5 DEF TypeOK
    <2> QED
      BY <1>1, <1>5, <2>1, <2>2, <2>3, <2>4, TypeKept
  <1>9. ListsInv'
    <2>1. \A m \in Live : heap'[m].subtype = heap[m].subtype
      BY <1>1, <1>5, HeapType DEF SameKind
    <2>2. heap[n].subtype = "address"
      BY <1>1 DEF Placed
    <2>3. {m \in Live' : heap'[m].subtype = "generic"} = {m \in Live : heap[m].subtype = "generic"}
      BY <1>6, <2>1, <2>2
    <2>4. {m \in Live' : heap'[m].subtype = "range"} = {m \in Live : heap[m].subtype = "range"}
      BY <1>6, <2>1, <2>2
    <2> QED
      BY <1>1, <1>2, <2>3, <2>4 DEF Parts, ListsInv, Listed, lists
  <1>10. ASSUME NEW m \in Placed'
         PROVE  /\ m \in Placed /\ m # n /\ m # Null /\ m \in 1 .. N
                /\ heap'[m].addr = heap[m].addr /\ heap'[m].parent = heap[m].parent
                /\ heap'[m].left = heap[m].left /\ heap'[m].right = heap[m].right
                /\ heap'[m].left = heap'[m]["left"] /\ heap'[m].right = heap'[m]["right"]
                /\ heap'[m].child = heap'[m]["child"]
                /\ \A s \in Sides : heap'[m][s] = IF m = up /\ s = "child" THEN next ELSE heap[m][s]
    <2>1. m \in Placed /\ m # n /\ m # Null /\ m \in 1 .. N
      BY <1>1, <1>7, LinkFacts DEF Parts
    <2>2. /\ heap'[m].left = heap'[m]["left"] /\ heap'[m].right = heap'[m]["right"]
          /\ heap'[m].child = heap'[m]["child"] /\ heap'[m].parent = heap'[m]["parent"]
      BY <1>5, <2>1, NodeFacts
    <2>3. heap[m].parent = heap[m]["parent"] /\ heap[m].left = heap[m]["left"] /\ heap[m].right = heap[m]["right"]
      BY <1>1, <1>5, <2>1, HeapType, NodeFacts
    <2> QED
      BY <1>5, <2>1, <2>2, <2>3 DEF Links, Sides, SameKind
  <1>11. \A m \in Placed, s \in Sides :
           heap[m][s] # Null => /\ heap[m][s] \in Placed
                                /\ heap[heap[m][s]].parent \in {m} \cup (IF s = "child" THEN freed ELSE {})
                                /\ \A x \in Placed, t \in Sides : heap[x][t] = heap[m][s] => x = m /\ t = s
    BY <1>1 DEF Parts, PointersInv
  <1>12. next # Null => /\ next \in Placed' /\ next # addresses /\ heap[next].parent \in freed'
                        /\ \A m \in Placed', s \in Sides : heap[m][s] # next
    <2> SUFFICES ASSUME next # Null
                 PROVE  /\ next \in Placed' /\ next # addresses /\ heap[next].parent \in freed'
                        /\ \A m \in Placed', s \in Sides : heap[m][s] # next
      OBVIOUS
    <2>1. /\ next \in Placed /\ heap[next].parent \in {n} \cup freed
          /\ \A x \in Placed, t \in Sides : heap[x][t] = next => x = n
      BY <1>1, <1>4, <1>11 DEF Sides
    <2>2. Null \notin freed
      BY <1>1, HeapType DEF Null
    <2>3. next # addresses
      BY <1>1, <1>4, <2>1, <2>2 DEF Parts, PointersInv
    <2>4. next # n
      BY <1>4
    <2> QED
      BY <1>2, <1>7, <2>1, <2>3, <2>4
  <1>13. \A m \in Placed', s \in Sides : heap[m][s] = n => m = up /\ s = "child"
    BY <1>3, <1>4, <1>7, <1>11 DEF Sides
  <1>14. PointersInv'
    <2>1. ASSUME NEW y \in Placed'
          PROVE  /\ heap'[y].parent = Null <=> y = addresses'
                 /\ y = addresses' \/ \E m \in Placed', s \in Sides : heap'[m][s] = y
      <3>1. /\ heap[y].parent = Null <=> y = addresses
            /\ y = addresses \/ \E m \in Placed, s \in Sides : heap[m][s] = y
        BY <1>1, <1>10 DEF Parts, PointersInv
      <3>2. CASE y = next
        <4>1. up \in Placed'
          BY <1>3, <1>4, <1>7
        <4>2. heap'[up]["child"] = y
          BY <1>10, <3>2, <4>1 DEF Sides
        <4> QED
          BY <1>2, <1>10, <3>1, <4>1, <4>2 DEF Sides
      <3>3. CASE y # next /\ y # addresses
        <4>1. PICK m \in Placed, s \in Sides : heap[m][s] = y
          BY <3>1, <3>3
        <4>2. m # n
          BY <1>4, <1>10, <3>3, <4>1 DEF Sides
        <4>3. heap'[m][s] = y /\ m \in Placed'
          BY <1>3, <1>7, <1>10, <4>1, <4>2
        <4> QED
          BY <1>2, <1>10, <3>1, <4>3
      <3>4. CASE y = addresses
        BY <1>2, <1>10, <3>1, <3>4
      <3> QED
        BY <3>2, <3>3, <3>4
    <2>2. ASSUME NEW m \in Placed', NEW s \in Sides, heap'[m][s] # Null
          PROVE  /\ heap'[m][s] \in Placed'
                 /\ heap'[heap'[m][s]].parent \in {m} \cup (IF s = "child" THEN freed' ELSE {})
                 /\ \A x \in Placed', t \in Sides : heap'[x][t] = heap'[m][s] => x = m /\ t = s
      <3> DEFINE y == heap'[m][s]
      <3>1. y # Null /\ y = IF m = up /\ s = "child" THEN next ELSE heap[m][s]
        BY <1>10, <2>2
      <3>2. \A x \in Placed', t \in Sides : heap'[x][t] = IF x = up /\ t = "child" THEN next ELSE heap[x][t]
        BY <1>10
      <3> HIDE DEF y
      <3>3. CASE m = up /\ s = "child"
        <4>1. y = next /\ next \in Placed' /\ heap'[next].parent \in freed'
          BY <1>10, <1>12, <3>1, <3>3
        <4>2. \A x \in Placed', t \in Sides : heap'[x][t] = y => x = m /\ t = s
          BY <1>12, <3>1, <3>2, <3>3, <4>1
        <4> QED
          BY <3>3, <4>1, <4>2 DEF y
      <3>4. CASE ~ (m = up /\ s = "child")
        <4>1. y = heap[m][s] /\ m \in Placed /\ y # n /\ y # next
          BY <1>10, <1>12, <1>13, <3>1, <3>4
        <4>2. /\ y \in Placed' /\ heap[y].parent \in {m} \cup (IF s = "child" THEN freed ELSE {})
              /\ \A x \in Placed, t \in Sides : heap[x][t] = y => x = m /\ t = s
          BY <1>7, <1>11, <3>1, <4>1
        <4>3. \A x \in Placed', t \in Sides : heap'[x][t] = y => x = m /\ t = s
          BY <1>7, <3>2, <4>1, <4>2
        <4> QED
          BY <1>2, <1>10, <4>2, <4>3 DEF y
      <3> QED
        BY <3>3, <3>4
    <2>3. addresses' \in Placed' \cup {Null}
      BY <1>1, <1>2, <1>3, <1>7 DEF Parts, PointersInv
    <2> QED
      BY <2>1, <2>2, <2>3 DEF PointersInv
  <1>15. ChainsInv'
    <2> SUFFICES ASSUME NEW m \in Placed', heap'[m].child # Null
                 PROVE  LET y == heap'[m].child
                        IN  /\ y > m /\ heap'[y].addr = heap'[m].addr
                            /\ heap'[y].left = Null /\ heap'[y].right = Null
      BY DEF ChainsInv
    <2>1. CASE m = up
      <3>1. heap'[m].child = next /\ next # Null
        BY <1>10, <2>1 DEF Sides
      <3>2. next \in Placed' /\ next > m /\ heap[next].addr = heap[m].addr
        <4>1. next \in Placed' /\ next > n /\ heap[next].addr = heap[m].addr
          BY <1>4, <1>12, <2>1, <3>1
        <4>2. next \in Nat /\ n \in Nat /\ m \in Nat /\ n > m
          BY <1>4, <1>5, <1>10, <2>1, <4>1
        <4> QED
          BY <4>1, <4>2
      <3>3. heap[next].left = Null /\ heap[next].right = Null
        BY <1>1, <1>4, <1>10, <3>1, <3>2, LinkFacts DEF Parts
      <3> QED
        BY <1>10, <3>1, <3>2, <3>3
    <2>2. CASE m # up
      <3> DEFINE y == heap[m].child
      <3>1. y = heap[m]["child"] /\ heap'[m].child = y /\ m \in Placed /\ y # Null
        BY <1>1, <1>10, <2>2, LinkFacts DEF Sides, Parts
      <3>2. /\ y > m /\ heap[y].addr = heap[m].addr /\ heap[y].left = Null /\ heap[y].right = Null
            /\ y \in Placed
        BY <1>1, <3>1, LinkFacts DEF Parts, ChainsInv
      <3>3. y # n
        BY <1>13, <2>2, <3>1 DEF Sides
      <3> HIDE DEF y
      <3> QED
        BY <1>7, <1>10, <3>1, <3>2, <3>3
    <2> QED
      BY <2>1, <2>2
  <1>16. SearchInv'
    <2>1. PICK rank, region : Searchable(rank, region)
      BY <1>1 DEF Parts, SearchInv, Searchable
    <2>2. rank \in [DOMAIN heap' -> Nat] /\ region \in [DOMAIN heap' -> SUBSET Addr]
      BY <1>5, <2>1 DEF Searchable
    <2>3. InSearchOrder(rank, region)'
      BY <1>5, <1>10, <2>1 DEF Searchable, InSearchOrder
    <2>4. addresses' # Null => region[addresses'] = Addr
      BY <1>2, <2>1 DEF Searchable
    <2> QED
      BY <2>2, <2>3, <2>4 DEF SearchInv
  <1> QED
    BY <1>1, <1>2, <1>6, <1>8, <1>9, <1>14, <1>15, <1>16 DEF IInv, AllFreed

(* The parent of a node was freed: from here on the model says nothing.     *)
LEMMA StaleStep ==
  ASSUME IInv, NEW n \in Live, UnregisterStale(n)
  PROVE  IInv'
  <1>1. TypeOK /\ is_up
    BY DEF IInv, UnregisterStale
  <1>2. UNCHANGED <<heap, addresses, lists, mode, is_up>> /\ damaged' /\ freed' = freed \cup {n}
    BY DEF UnregisterStale, Forget
  <1>3. TypeOK'
    <2>1. freed' \subseteq DOMAIN heap
      BY <1>1, <1>2, HeapType
    <2>2. damaged' \in BOOLEAN
      BY DEF UnregisterStale
    <2> QED
      BY <1>1, <1>2, <2>1, <2>2 DEF TypeOK, Pointers, lists
  <1> QED
    BY <1>1, <1>2, <1>3 DEF IInv, AllFreed

-----------------------------------------------------------------------------
(* The end of the module.                                                   *)

(* The chains of the heads and the lists hold all there is.                 *)
LEMMA FreeStep ==
  ASSUME IInv, module_watchpoints_free
  PROVE  IInv'
  <1>1. TypeOK /\ Parts /\ is_up /\ ~ damaged
    BY DEF IInv, Parts, module_watchpoints_free
  <1>2. /\ freed' = freed \cup TreeFreed \cup NodesOf({generics, address_ranges}) /\ is_up' = FALSE
        /\ UNCHANGED <<heap, lists, addresses, mode, damaged>>
    BY DEF module_watchpoints_free
  <1>3. freed \subseteq DOMAIN heap /\ Live \subseteq DOMAIN heap /\ Placed \subseteq Live
    BY <1>1, HeapType
  <1>4. /\ Range(generics) = {m \in Live : heap[m].subtype = "generic"}
        /\ Range(address_ranges) = {m \in Live : heap[m].subtype = "range"}
    BY <1>1 DEF Parts, ListsInv, Listed
  <1>5. NodesOf({generics, address_ranges}) = Range(generics) \cup Range(address_ranges)
    BY DEF NodesOf
  <1>6. TreeFreed \subseteq Placed
    <2>1. ASSUME NEW m \in TreeNodes PROVE Range(Chain(m)) \subseteq Placed
      <3>1. m \in Placed
        BY <1>1, TreeFacts DEF Parts
      <3>2. IsChain(Chain(m), m)
        BY <1>1, <3>1, ChainFacts DEF Parts
      <3>3. Chain(m) \in Seq(Placed)
        BY <3>2 DEF IsChain
      <3> QED
        BY <3>3 DEF Range
    <2> QED
      BY <2>1 DEF TreeFreed, NodesOf
  <1>7. Placed \subseteq TreeFreed
    <2> SUFFICES ASSUME NEW m \in Placed PROVE m \in TreeFreed
      OBVIOUS
    <2>1. PICK rank, region : Searchable(rank, region)
      BY <1>1 DEF Parts, SearchInv, Searchable
    <2> DEFINE a == heap[m].addr
               f == find_addr(a)
    <2>2. a \in Addr
      BY <1>1, LinkFacts DEF Parts
    <2> HIDE DEF a
    <2>3. /\ Range(Chain(f)) = {x \in Placed : heap[x].addr = a} /\ Chain(f) \in Seq(Placed)
          /\ f # Null => f = Landing(a)
      BY <1>1, <2>1, <2>2, ChainOfAddr DEF Parts
    <2>4. m \in Range(Chain(f))
      BY <2>3 DEF a
    <2>5. f # Null
      <3> SUFFICES ASSUME f = Null PROVE FALSE
        OBVIOUS
      <3> HIDE DEF f
      <3>1. Chain(f) = <<>>
        BY <1>1, NoChain
      <3> QED
        BY <2>4, <3>1 DEF Range
    <2>6. addresses # Null
      BY <2>5 DEF find_addr
    <2>7. f \in TreeNodes
      BY <1>1, <2>3, <2>5, <2>6, TreeFacts DEF Parts
    <2> HIDE DEF f
    <2> QED
      BY <2>4, <2>7 DEF TreeFreed, NodesOf
  <1>8. freed' = DOMAIN heap
    <2>1. \A m \in Live : heap[m].subtype \in {"generic", "address", "range"}
      BY <1>1, HeapType, NodeFacts
    <2>2. Live = Placed \cup Range(generics) \cup Range(address_ranges)
      BY <1>3, <1>4, <2>1 DEF Placed
    <2>3. DOMAIN heap = freed \cup Live
      BY <1>3 DEF Live
    <2> QED
      BY <1>2, <1>5, <1>6, <1>7, <2>2, <2>3
  <1>9. TypeOK'
    BY <1>1, <1>2, <1>8 DEF TypeOK, Pointers, lists
  <1> QED
    BY <1>2, <1>8, <1>9 DEF IInv, AllFreed

-----------------------------------------------------------------------------
(* The theorems.                                                            *)

(* A module starts in order.                                                *)
LEMMA InitInv == Init => IInv
  <1> SUFFICES ASSUME Init PROVE IInv
    OBVIOUS
  <1>1. /\ heap = <<>> /\ freed = {} /\ generics = <<>> /\ address_ranges = <<>> /\ addresses = Null
        /\ mode \in Modes /\ is_up /\ is_up \in BOOLEAN /\ damaged \in BOOLEAN /\ watched = <<>>
    BY AllocModesAssumption DEF Init
  <1>2. DOMAIN heap = {} /\ Len(heap) = 0 /\ Live = {} /\ Placed = {}
    BY <1>1 DEF Live, Placed
  <1>3. TypeOK
    BY <1>1, <1>2 DEF TypeOK, Pointers, Null
  <1>4. PointersInv /\ ChainsInv
    BY <1>1, <1>2 DEF PointersInv, ChainsInv
  <1>5. SearchInv
    <2>1. /\ [n \in DOMAIN heap |-> 0] \in [DOMAIN heap -> Nat]
          /\ [n \in DOMAIN heap |-> {}] \in [DOMAIN heap -> SUBSET Addr]
      OBVIOUS
    <2>2. \A rank, region : InSearchOrder(rank, region)
      BY <1>2 DEF InSearchOrder
    <2> QED
      BY <1>1, <2>1, <2>2 DEF SearchInv
  <1>6. ListsInv
    BY <1>1, <1>2 DEF ListsInv, Listed, IsInjective, Range
  <1>7. WatchedInv
    BY <1>1, <1>2 DEF WatchedInv
  <1> QED
    BY <1>1, <1>3, <1>4, <1>5, <1>6, <1>7 DEF IInv, AllFreed

(* Every call keeps it in order.                                            *)
LEMMA NextInv == IInv /\ [Next]_vars => IInv'
  <1> SUFFICES ASSUME IInv, [Next]_vars PROVE IInv'
    OBVIOUS
  <1>1. ASSUME NEW e \in Requests, register_generic(e) PROVE IInv'
    BY <1>1, GenericStep
  <1>2. ASSUME NEW e \in Requests, NEW r \in WatchRanges, register_addr_range(e, r) PROVE IInv'
    BY <1>2, RangeStep
  <1>3. ASSUME NEW e \in Requests, NEW a \in WatchAddrs, NEW f \in Callbacks, register_addr(e, f, a)
        PROVE  IInv'
    BY <1>3, RootStep, NodeStep, AgainStep DEF register_addr
  <1>4. ASSUME NEW n \in Live, NEW e \in Requests, set_events(n, e) PROVE IInv'
    BY <1>4, SetEventsStep
  <1>5. ASSUME NEW n \in Live, UnregisterListed(n) PROVE IInv'
    BY <1>5, UnlistStep
  <1>6. ASSUME NEW n \in Live, UnregisterBranch(n) PROVE IInv'
    BY <1>6, BranchStep
  <1>7. ASSUME NEW n \in Live, UnregisterChained(n) PROVE IInv'
    BY <1>7, ChainedStep
  <1>8. ASSUME NEW n \in Live, UnregisterStale(n) PROVE IInv'
    BY <1>8, StaleStep
  <1>9. CASE module_watchpoints_free
    BY <1>9, FreeStep
  <1>10. CASE UNCHANGED vars
    <2>1. UNCHANGED <<heap, freed, generics, address_ranges, addresses, mode, is_up, watched, damaged>>
      BY <1>10 DEF vars
    <2>2. Live' = Live /\ Placed' = Placed
      BY <2>1 DEF Live, Placed
    <2>3. TypeOK' <=> TypeOK
      BY <2>1 DEF TypeOK, Pointers
    <2>4. (PointersInv' <=> PointersInv) /\ (ChainsInv' <=> ChainsInv)
      BY <2>1, <2>2 DEF PointersInv, ChainsInv
    <2>5. \A rank, region : InSearchOrder(rank, region)' <=> InSearchOrder(rank, region)
      BY <2>1, <2>2 DEF InSearchOrder
    <2>6. SearchInv' <=> SearchInv
      BY <2>1, <2>5 DEF SearchInv
    <2>7. (ListsInv' <=> ListsInv) /\ (WatchedInv' <=> WatchedInv)
      BY <2>1, <2>2 DEF ListsInv, Listed, WatchedInv
    <2> QED
      BY <2>1, <2>3, <2>4, <2>6, <2>7 DEF IInv, AllFreed
  <1> QED
    BY <1>1, <1>2, <1>3, <1>4, <1>5, <1>6, <1>7, <1>8, <1>9, <1>10 DEF Next

(* The strengthened invariant holds in every state of every module.         *)
THEOREM Invariance == Spec => []IInv
  BY InitInv, NextInv, PTL DEF Spec

(* Every variable keeps its type, and no range watchpoint is an empty one   *)
(* (__membus_watchpoint_addr_range_register).                               *)
THEOREM TypeCorrect == Spec => []TypeOK
  <1>1. IInv => TypeOK
    BY DEF IInv
  <1> QED
    BY <1>1, Invariance, PTL

(* A read or a write calls back exactly the watchpoints that are due, each  *)
(* once (__membus_module_watchpoints_read_addr and _write_addr).            *)
THEOREM DispatchIsExact == Spec => []DispatchExact
  <1>1. IInv => DispatchExact
    <2>1. (is_up /\ ~ damaged) \/ DispatchExact
      BY DEF DispatchExact
    <2> QED
      BY <2>1, Dispatches DEF IInv
  <1> QED
    BY <1>1, Invariance, PTL

(* A node's parent leads back to it unless it was freed                     *)
(* (__membus_watchpoint_addr_unregister).                                   *)
THEOREM ParentsLead == Spec => []ParentsLeadBack
  <1>1. IInv => ParentsLeadBack
    <2>1. (is_up /\ ~ damaged) \/ ParentsLeadBack
      BY DEF ParentsLeadBack
    <2> QED
      BY <2>1, LeadsBack DEF IInv
  <1> QED
    BY <1>1, Invariance, PTL

(* Freeing the module frees every watchpoint                                *)
(* (__membus_module_watchpoints_free).                                      *)
THEOREM AllAreFreed == Spec => []AllFreed
  <1>1. IInv => AllFreed
    BY DEF IInv
  <1> QED
    BY <1>1, Invariance, PTL
=============================================================================
