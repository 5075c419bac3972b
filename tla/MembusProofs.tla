---------------------------- MODULE MembusProofs ----------------------------
(* Proofs about the memory bus, for any modules, registrations and memory.  *)
EXTENDS Membus, FiniteSetTheorems, WellFoundedInduction, SequenceTheorems, TLAPS

-----------------------------------------------------------------------------
(* Induction.                                                               *)

(* A set of naturals that is not empty has a least element.                 *)
LEMMA NatLeast ==
  ASSUME NEW T, T \subseteq Nat, T # {}
  PROVE  \E x \in T : \A y \in T : x <= y
  <1> DEFINE R == OpToRel(<, Nat)
  <1>1. \A x \in Nat, y \in Nat : <<y, x>> \in R <=> y < x
    BY DEF OpToRel
  <1>2. IsWellFoundedOn(R, Nat)
    BY NatLessThanWellFounded
  <1> HIDE DEF R
  <1>3. PICK x \in T : \A y \in T : ~ (<<y, x>> \in R)
    BY <1>2, WFMin
  <1>4. \A y \in T : ~ (y < x)
    BY <1>1, <1>3
  <1> QED
    BY <1>4

(* A set that has 0 and with every number the next has all of them.         *)
LEMMA NatInduct ==
  ASSUME NEW S, 0 \in S, \A n \in Nat : n \in S => n + 1 \in S
  PROVE  \A n \in Nat : n \in S
  <1> DEFINE T == Nat \ S
  <1> SUFFICES ASSUME T # {} PROVE FALSE
    OBVIOUS
  <1>1. PICK x \in T : \A y \in T : x <= y
    <2> T \subseteq Nat
      OBVIOUS
    <2> HIDE DEF T
    <2> QED
      BY NatLeast
  <1>2. x # 0 /\ x - 1 \in Nat
    BY <1>1
  <1>3. x - 1 \in S
    BY <1>1, <1>2
  <1> QED
    BY <1>1, <1>2, <1>3

(* Max finds the greatest element of a set of indexes.                      *)
LEMMA MaxFacts ==
  ASSUME NEW n \in Nat, NEW s \in SUBSET (1 .. n), s # {}
  PROVE  Max(s) \in s /\ \A y \in s : y <= Max(s)
  <1> DEFINE T == {n - x : x \in s}
  <1>0. \A y \in s : y \in Int /\ 1 <= y /\ y <= n
    OBVIOUS
  <1>1. PICK t \in T : \A y \in T : t <= y
    <2> \A x \in s : n - x \in Nat
      BY <1>0
    <2> T \subseteq Nat /\ T # {}
      OBVIOUS
    <2> HIDE DEF T
    <2> QED
      BY NatLeast
  <1>2. PICK x \in s : t = n - x
    BY <1>1
  <1>3. ASSUME NEW y \in s PROVE x >= y
    <2>1. n - y \in T
      OBVIOUS
    <2>2. n - x <= n - y
      BY <1>1, <1>2, <2>1
    <2> QED
      BY <1>0, <2>2
  <1>4. \E z \in s : \A y \in s : z >= y
    BY <1>3
  <1>5. Max(s) \in s /\ \A y \in s : Max(s) >= y
    BY <1>4, Zenon DEF Max
  <1> QED
    BY <1>0, <1>5

(* The greatest element is the one there is that is greatest.               *)
LEMMA MaxIs ==
  ASSUME NEW n \in Nat, NEW s \in SUBSET (1 .. n), NEW x \in s, \A y \in s : y <= x
  PROVE  Max(s) = x
  <1>1. Max(s) \in s /\ \A y \in s : y <= Max(s)
    BY MaxFacts
  <1>2. \A y \in s : y \in Int
    OBVIOUS
  <1>3. Max(s) \in Int /\ x \in Int /\ Max(s) <= x /\ x <= Max(s)
    BY <1>1, <1>2
  <1> QED
    BY <1>3

(* FoldLeft is defined by a recursive function on the sets of indexes: g is *)
(* one for the operation F on values and indexes.                           *)
IsIter(g, n, b, F) ==
  \A s \in SUBSET (1 .. n) : g[s] = IF s = {} THEN b ELSE F[<<g[s \ {Max(s)}], Max(s)>>]

(* There is such a function where the operation keeps a type.               *)
LEMMA IterExists ==
  ASSUME NEW V, NEW n \in Nat, NEW b \in V, NEW F \in [V \X (1 .. n) -> V]
  PROVE  \E g \in [SUBSET (1 .. n) -> V] : IsIter(g, n, b, F)
  <1> DEFINE Good(k, g) == IsIter(g, k, b, F)
             Has(k) == \E g \in [SUBSET (1 .. k) -> V] : Good(k, g)
             S == {k \in Nat : k <= n => Has(k)}
  <1>1. 0 \in S
    <2> DEFINE g == [s \in SUBSET (1 .. 0) |-> b]
    <2>1. g \in [SUBSET (1 .. 0) -> V]
      OBVIOUS
    <2>2. \A s \in SUBSET (1 .. 0) : s = {} /\ g[s] = b
      OBVIOUS
    <2>3. Good(0, g)
      BY <2>2 DEF IsIter
    <2> HIDE DEF g, Good
    <2> QED
      BY <2>1, <2>3
  <1>2. ASSUME NEW k \in Nat, k \in S PROVE k + 1 \in S
    <2> SUFFICES ASSUME k + 1 <= n PROVE Has(k + 1)
      <3> HIDE DEF Has
      <3> QED
        OBVIOUS
    <2>0. Has(k)
      <3> HIDE DEF Has
      <3> QED
        BY <1>2
    <2>1. PICK g \in [SUBSET (1 .. k) -> V] : Good(k, g)
      BY <2>0
    <2> DEFINE h == [s \in SUBSET (1 .. k + 1) |->
                       IF k + 1 \in s THEN F[<<g[s \ {k + 1}], k + 1>>] ELSE g[s]]
    <2>2. \A s \in SUBSET (1 .. k + 1) : s \ {k + 1} \in SUBSET (1 .. k)
      OBVIOUS
    <2>3. h \in [SUBSET (1 .. k + 1) -> V]
      <3> SUFFICES ASSUME NEW s \in SUBSET (1 .. k + 1)
                   PROVE  (IF k + 1 \in s THEN F[<<g[s \ {k + 1}], k + 1>>] ELSE g[s]) \in V
        OBVIOUS
      <3>1. g[s \ {k + 1}] \in V
        BY <2>2
      <3>2. k + 1 \in 1 .. n
        OBVIOUS
      <3>3. CASE k + 1 \in s
        BY <3>1, <3>2, <3>3
      <3>4. CASE k + 1 \notin s
        BY <3>1, <3>4
      <3> QED
        BY <3>3, <3>4
    <2>4. ASSUME NEW s \in SUBSET (1 .. k + 1)
          PROVE  h[s] = IF s = {} THEN b ELSE F[<<h[s \ {Max(s)}], Max(s)>>]
      <3>1. CASE k + 1 \in s
        <4>1. \A y \in s : y <= k + 1
          OBVIOUS
        <4>0. Max(s) = k + 1
          <5>1. k + 1 \in Nat
            OBVIOUS
          <5> QED
            BY <3>1, <4>1, <5>1, MaxIs
        <4>2. h[s \ {k + 1}] = g[s \ {k + 1}]
          BY <2>2
        <4>3. h[s] = F[<<g[s \ {k + 1}], k + 1>>]
          BY <3>1
        <4> HIDE DEF h
        <4> QED
          BY <3>1, <4>0, <4>2, <4>3
      <3>2. CASE k + 1 \notin s /\ s # {}
        <4>1. s \in SUBSET (1 .. k) /\ s \ {Max(s)} \in SUBSET (1 .. k)
          BY <3>2, <2>2
        <4>2. h[s] = g[s] /\ h[s \ {Max(s)}] = g[s \ {Max(s)}]
          BY <3>2, <4>1
        <4> QED
          BY <2>1, <3>2, <4>1, <4>2 DEF IsIter
      <3>3. CASE s = {}
        <4>1. h[s] = g[s]
          BY <3>3
        <4> QED
          BY <2>1, <3>3, <4>1 DEF IsIter
      <3> QED
        BY <3>1, <3>2, <3>3
    <2> HIDE DEF h
    <2> QED
      BY <2>3, <2>4 DEF IsIter
  <1> HIDE DEF S
  <1>3. n \in S
    BY <1>1, <1>2, NatInduct
  <1>4. Has(n)
    <2> HIDE DEF Has
    <2> QED
      BY <1>3 DEF S
  <1> QED
    BY <1>4

(* Every step keeps the type.                                               *)
StaysIn(iter, n, V) == \A i \in 1 .. n : iter[1 .. i - 1] \in V => iter[1 .. i] \in V

(* The value for the whole sequence has the type that every step keeps.     *)
LEMMA IterStays ==
  ASSUME NEW V, NEW n \in Nat, NEW iter, iter[{}] \in V, StaysIn(iter, n, V)
  PROVE  iter[1 .. n] \in V
  <1> DEFINE S == {i \in Nat : i <= n => iter[1 .. i] \in V}
  <1>1. 0 \in S
    <2>1. 1 .. 0 = {}
      OBVIOUS
    <2> QED
      BY <2>1
  <1>2. ASSUME NEW i \in Nat, i \in S PROVE i + 1 \in S
    <2> SUFFICES ASSUME i + 1 <= n PROVE iter[1 .. i + 1] \in V
      OBVIOUS
    <2>1. iter[1 .. i] \in V /\ i + 1 \in 1 .. n /\ (i + 1) - 1 = i
      BY <1>2
    <2> QED
      BY <2>1 DEF StaysIn
  <1> HIDE DEF S
  <1>3. n \in S
    BY <1>1, <1>2, NatInduct
  <1> QED
    BY <1>3 DEF S

(* The same of the values after 0, 1, ... n steps.                          *)
LEMMA StepsStay ==
  ASSUME NEW V, NEW n \in Nat, NEW g, g[0] \in V, \A i \in 1 .. n : g[i - 1] \in V => g[i] \in V
  PROVE  g[n] \in V
  <1> DEFINE S == {i \in Nat : i <= n => g[i] \in V}
  <1>1. 0 \in S
    OBVIOUS
  <1>2. ASSUME NEW i \in Nat, i \in S PROVE i + 1 \in S
    <2> SUFFICES ASSUME i + 1 <= n PROVE g[i + 1] \in V
      OBVIOUS
    <2>1. g[i] \in V /\ i + 1 \in 1 .. n /\ (i + 1) - 1 = i
      BY <1>2
    <2> QED
      BY <2>1
  <1> HIDE DEF S
  <1>3. n \in S
    BY <1>1, <1>2, NatInduct
  <1> QED
    BY <1>3 DEF S

(* Its steps stay among the sets of indexes and the values.                 *)
LEMMA IterStep ==
  ASSUME NEW V, NEW n \in Nat, NEW g \in [SUBSET (1 .. n) -> V], NEW s \in SUBSET (1 .. n), s # {}
  PROVE  Max(s) \in 1 .. n /\ s \ {Max(s)} \in SUBSET (1 .. n) /\ g[s \ {Max(s)}] \in V
  <1>1. Max(s) \in 1 .. n /\ s \ {Max(s)} \in SUBSET (1 .. n)
    BY MaxFacts
  <1> QED
    BY <1>1

(* Where FoldLeft goes on from a prefix.                                    *)
LEMMA PrefixMax ==
  ASSUME NEW n \in Nat, NEW i \in 1 .. n
  PROVE  /\ Max(1 .. i) = i /\ (1 .. i) \ {i} = 1 .. i - 1
         /\ 1 .. i # {} /\ 1 .. i \in SUBSET (1 .. n)
  <1>1. i \in Nat /\ 1 .. i \in SUBSET (1 .. i) /\ i \in 1 .. i /\ \A y \in 1 .. i : y <= i
    OBVIOUS
  <1>2. Max(1 .. i) = i
    BY <1>1, MaxIs
  <1> QED
    BY <1>2

-----------------------------------------------------------------------------
(* The folds of the model keep a type that their operation keeps.           *)

(* membus_copy_out_bytes and its kind read one address after the other.     *)
LEMMA ReadFold ==
  ASSUME NEW V, NEW b \in V, NEW addrs \in Seq(Addr), \A c \in V, a \in Addr : ReadAddr(c, a) \in V
  PROVE  FoldLeft(ReadAddr, b, addrs) \in V
  <1> DEFINE n == Len(addrs)
             F == [x \in V \X (1 .. n) |-> ReadAddr(x[1], addrs[x[2]])]
             Body(g) == [s \in SUBSET DOMAIN addrs |->
                           IF s = {} THEN b ELSE ReadAddr(g[s \ {Max(s)}], addrs[Max(s)])]
             iter == CHOOSE g : g = Body(g)
  <1>1. n \in Nat /\ DOMAIN addrs = 1 .. n /\ \A i \in 1 .. n : addrs[i] \in Addr
    OBVIOUS
  <1>2. F \in [V \X (1 .. n) -> V] /\ \A c \in V, i \in 1 .. n : F[<<c, i>>] = ReadAddr(c, addrs[i])
    BY <1>1
  <1>3. FoldLeft(ReadAddr, b, addrs) = iter[DOMAIN addrs]
    BY DEF FoldLeft, MapThenFoldSet
  <1> HIDE DEF F, n
  <1>4. PICK g \in [SUBSET (1 .. n) -> V] : IsIter(g, n, b, F)
    BY <1>1, <1>2, IterExists
  <1>5. ASSUME NEW s \in SUBSET (1 .. n)
        PROVE  g[s] = IF s = {} THEN b ELSE ReadAddr(g[s \ {Max(s)}], addrs[Max(s)])
    BY <1>1, <1>2, <1>4, IterStep DEF IsIter
  <1>6. g = Body(g)
    BY <1>1, <1>5
  <1>7. iter = Body(iter)
    <2> HIDE DEF Body
    <2> QED
      BY <1>6
  <1> HIDE DEF iter
  <1>8. ASSUME NEW i \in 1 .. n PROVE iter[1 .. i] = ReadAddr(iter[1 .. i - 1], addrs[i])
    <2>1. /\ Max(1 .. i) = i /\ (1 .. i) \ {i} = 1 .. i - 1
          /\ 1 .. i # {} /\ 1 .. i \in SUBSET DOMAIN addrs
      BY <1>1, PrefixMax
    <2>2. iter[1 .. i] = ReadAddr(iter[(1 .. i) \ {Max(1 .. i)}], addrs[Max(1 .. i)])
      BY <1>7, <2>1
    <2> QED
      BY <2>1, <2>2
  <1>9. iter[{}] \in V
    BY <1>7
  <1>10. StaysIn(iter, n, V)
    BY <1>1, <1>8 DEF StaysIn
  <1> QED
    BY <1>1, <1>3, <1>9, <1>10, IterStays

(* membus_copy_in_bytes and its kind write one address after the other.     *)
WritesInTurn(g, b, accesses) ==
  /\ g[0] = b /\ g[Len(accesses)] = FoldLeft(WriteAddr, b, accesses)
  /\ \A i \in 1 .. Len(accesses) : g[i] = WriteAddr(g[i - 1], accesses[i])

(* There are such values.                                                   *)
LEMMA WriteSteps ==
  ASSUME NEW V, NEW b \in V, NEW accesses \in Seq(Addr \X Byte),
         \A w \in V, x \in Addr \X Byte : WriteAddr(w, x) \in V
  PROVE  \E g : WritesInTurn(g, b, accesses)
  <1> DEFINE n == Len(accesses)
             F == [x \in V \X (1 .. n) |-> WriteAddr(x[1], accesses[x[2]])]
             Body(g) == [s \in SUBSET DOMAIN accesses |->
                           IF s = {} THEN b ELSE WriteAddr(g[s \ {Max(s)}], accesses[Max(s)])]
             iter == CHOOSE g : g = Body(g)
  <1>1. n \in Nat /\ DOMAIN accesses = 1 .. n /\ \A i \in 1 .. n : accesses[i] \in Addr \X Byte
    OBVIOUS
  <1>2. F \in [V \X (1 .. n) -> V] /\ \A c \in V, i \in 1 .. n : F[<<c, i>>] = WriteAddr(c, accesses[i])
    BY <1>1
  <1>3. FoldLeft(WriteAddr, b, accesses) = iter[DOMAIN accesses]
    BY DEF FoldLeft, MapThenFoldSet
  <1> HIDE DEF F, n
  <1>4. PICK g \in [SUBSET (1 .. n) -> V] : IsIter(g, n, b, F)
    BY <1>1, <1>2, IterExists
  <1>5. ASSUME NEW s \in SUBSET (1 .. n)
        PROVE  g[s] = IF s = {} THEN b ELSE WriteAddr(g[s \ {Max(s)}], accesses[Max(s)])
    BY <1>1, <1>2, <1>4, IterStep DEF IsIter
  <1>6. g = Body(g)
    BY <1>1, <1>5
  <1>7. iter = Body(iter)
    <2> HIDE DEF Body
    <2> QED
      BY <1>6
  <1> HIDE DEF iter
  <1>8. ASSUME NEW i \in 1 .. n PROVE iter[1 .. i] = WriteAddr(iter[1 .. i - 1], accesses[i])
    <2>1. /\ Max(1 .. i) = i /\ (1 .. i) \ {i} = 1 .. i - 1
          /\ 1 .. i # {} /\ 1 .. i \in SUBSET DOMAIN accesses
      BY <1>1, PrefixMax
    <2>2. iter[1 .. i] = WriteAddr(iter[(1 .. i) \ {Max(1 .. i)}], accesses[Max(1 .. i)])
      BY <1>7, <2>1
    <2> QED
      BY <2>1, <2>2
  <1> DEFINE h == [i \in 0 .. n |-> iter[1 .. i]]
  <1>9. h[0] = b
    <2>1. 0 \in 0 .. n /\ 1 .. 0 = {} /\ {} \in SUBSET DOMAIN accesses
      BY <1>1
    <2>2. iter[{}] = b
      BY <1>7, <2>1
    <2> QED
      BY <2>1, <2>2
  <1>10. h[n] = iter[DOMAIN accesses]
    BY <1>1
  <1>11. ASSUME NEW i \in 1 .. n PROVE h[i] = iter[1 .. i] /\ h[i - 1] = iter[1 .. i - 1]
    BY <1>1
  <1> HIDE DEF h
  <1>12. \A i \in 1 .. n : h[i] = WriteAddr(h[i - 1], accesses[i])
    BY <1>8, <1>11
  <1>13. h[0] = b /\ h[n] = FoldLeft(WriteAddr, b, accesses) /\ \A i \in 1 .. n : h[i] = WriteAddr(h[i - 1], accesses[i])
    BY <1>3, <1>9, <1>10, <1>12
  <1> QED
    BY <1>13 DEF n, WritesInTurn

(* The bus has afterwards what each of the writes keeps.                    *)
LEMMA WriteFold ==
  ASSUME NEW V, NEW b \in V, NEW accesses \in Seq(Addr \X Byte),
         \A w \in V, x \in Addr \X Byte : WriteAddr(w, x) \in V
  PROVE  FoldLeft(WriteAddr, b, accesses) \in V
  <1>0. PICK g : WritesInTurn(g, b, accesses)
    BY WriteSteps
  <1>1. /\ g[0] = b /\ g[Len(accesses)] = FoldLeft(WriteAddr, b, accesses)
        /\ \A i \in 1 .. Len(accesses) : g[i] = WriteAddr(g[i - 1], accesses[i])
    BY <1>0 DEF WritesInTurn
  <1>2. Len(accesses) \in Nat /\ \A i \in 1 .. Len(accesses) : accesses[i] \in Addr \X Byte
    OBVIOUS
  <1>3. \A i \in 1 .. Len(accesses) : g[i - 1] \in V => g[i] \in V
    BY <1>1, <1>2
  <1> QED
    BY <1>1, <1>2, <1>3, StepsStay

(* A module hears of a write if it covers the address.                      *)
Heard(x, m, a, v) == IF Covers(m, a) THEN WriteByte(m, a, x, v) ELSE x

(* The modules of the post-op tier hear of a write one after the other.     *)
HeardInTurn(g, b, a, v) ==
  /\ g[0] = b /\ g[Len(post_op)] = PostOps(a, b, v)
  /\ \A i \in 1 .. Len(post_op) : g[i] = Heard(g[i - 1], post_op[i], a, v)

(* There are such values.                                                   *)
LEMMA PostSteps ==
  ASSUME NEW V, NEW b \in V, NEW a, NEW v, post_op \in Seq(Allocated),
         \A x \in V, m \in Allocated : Heard(x, m, a, v) \in V
  PROVE  \E g : HeardInTurn(g, b, a, v)
  <1> DEFINE n == Len(post_op)
             F == [x \in V \X (1 .. n) |-> Heard(x[1], post_op[x[2]], a, v)]
             Body(g) == [s \in SUBSET DOMAIN post_op |->
                           IF s = {} THEN b ELSE Heard(g[s \ {Max(s)}], post_op[Max(s)], a, v)]
             iter == CHOOSE g : g = Body(g)
  <1>1. n \in Nat /\ DOMAIN post_op = 1 .. n /\ \A i \in 1 .. n : post_op[i] \in Allocated
    OBVIOUS
  <1>2. F \in [V \X (1 .. n) -> V] /\ \A c \in V, i \in 1 .. n : F[<<c, i>>] = Heard(c, post_op[i], a, v)
    BY <1>1
  <1>3. PostOps(a, b, v) = iter[DOMAIN post_op]
    BY DEF PostOps, Heard, FoldLeft, MapThenFoldSet
  <1> HIDE DEF F, n
  <1>4. PICK g \in [SUBSET (1 .. n) -> V] : IsIter(g, n, b, F)
    BY <1>1, <1>2, IterExists
  <1>5. ASSUME NEW s \in SUBSET (1 .. n)
        PROVE  g[s] = IF s = {} THEN b ELSE Heard(g[s \ {Max(s)}], post_op[Max(s)], a, v)
    BY <1>1, <1>2, <1>4, IterStep DEF IsIter
  <1>6. g = Body(g)
    BY <1>1, <1>5
  <1>7. iter = Body(iter)
    <2> HIDE DEF Body
    <2> QED
      BY <1>6
  <1> HIDE DEF iter
  <1>8. ASSUME NEW i \in 1 .. n PROVE iter[1 .. i] = Heard(iter[1 .. i - 1], post_op[i], a, v)
    <2>1. /\ Max(1 .. i) = i /\ (1 .. i) \ {i} = 1 .. i - 1
          /\ 1 .. i # {} /\ 1 .. i \in SUBSET DOMAIN post_op
      BY <1>1, PrefixMax
    <2>2. iter[1 .. i] = Heard(iter[(1 .. i) \ {Max(1 .. i)}], post_op[Max(1 .. i)], a, v)
      BY <1>7, <2>1
    <2> QED
      BY <2>1, <2>2
  <1> DEFINE h == [i \in 0 .. n |-> iter[1 .. i]]
  <1>9. h[0] = b
    <2>1. 0 \in 0 .. n /\ 1 .. 0 = {} /\ {} \in SUBSET DOMAIN post_op
      BY <1>1
    <2>2. iter[{}] = b
      BY <1>7, <2>1
    <2> QED
      BY <2>1, <2>2
  <1>10. h[n] = iter[DOMAIN post_op]
    BY <1>1
  <1>11. ASSUME NEW i \in 1 .. n PROVE h[i] = iter[1 .. i] /\ h[i - 1] = iter[1 .. i - 1]
    BY <1>1
  <1> HIDE DEF h
  <1>12. \A i \in 1 .. n : h[i] = Heard(h[i - 1], post_op[i], a, v)
    BY <1>8, <1>11
  <1>13. h[0] = b /\ h[n] = PostOps(a, b, v) /\ \A i \in 1 .. n : h[i] = Heard(h[i - 1], post_op[i], a, v)
    BY <1>3, <1>9, <1>10, <1>12
  <1> QED
    BY <1>13 DEF n, HeardInTurn

(* They leave behind what each of them keeps.                               *)
LEMMA PostFold ==
  ASSUME NEW V, NEW b \in V, NEW a, NEW v, post_op \in Seq(Allocated),
         \A x \in V, m \in Allocated : Heard(x, m, a, v) \in V
  PROVE  PostOps(a, b, v) \in V
  <1>0. PICK g : HeardInTurn(g, b, a, v)
    BY PostSteps
  <1>1. /\ g[0] = b /\ g[Len(post_op)] = PostOps(a, b, v)
        /\ \A i \in 1 .. Len(post_op) : g[i] = Heard(g[i - 1], post_op[i], a, v)
    BY <1>0 DEF HeardInTurn
  <1>2. Len(post_op) \in Nat /\ \A i \in 1 .. Len(post_op) : post_op[i] \in Allocated
    OBVIOUS
  <1>3. \A i \in 1 .. Len(post_op) : g[i - 1] \in V => g[i] \in V
    BY <1>1, <1>2
  <1> QED
    BY <1>1, <1>2, <1>3, StepsStay

-----------------------------------------------------------------------------
(* The caches' slots.                                                       *)

(* Products of a slot count.                                                *)
LEMMA Products ==
  ASSUME NEW L \in Nat \ {0}, NEW j \in Int, NEW k \in Int
  PROVE  /\ L * k \in Int /\ L * k - L * j = L * (k - j) /\ L * k + L * j = L * (k + j)
         /\ k >= 1 => L * k >= L
         /\ k <= -1 => L * k <= - L
  <1>1. L * k \in Int /\ L * k - L * j = L * (k - j)
    OBVIOUS
  <1>2. L * k + L * j = L * (k + j)
    OBVIOUS
  <1>3. k >= 1 => L * k >= L
    OBVIOUS
  <1>4. k <= -1 => L * k <= - L
    OBVIOUS
  <1> QED
    BY <1>1, <1>2, <1>3, <1>4

(* A number has one remainder.                                              *)
LEMMA Remainder ==
  ASSUME NEW L \in Nat \ {0}, NEW x \in Int, NEW q \in Int, NEW r \in 0 .. L - 1, x = L * q + r
  PROVE  x % L = r
  <1> DEFINE p == x \div L
             s == x % L
  <1>1. p \in Int /\ x = L * p + s /\ s \in 0 .. L - 1
    OBVIOUS
  <1> HIDE DEF p, s
  <1>2. L * q - L * p = s - r
    BY <1>1, Products
  <1>3. L * (q - p) = s - r
    BY <1>1, <1>2, Products
  <1>4. q - p \in Int /\ ~ (q - p >= 1) /\ ~ (q - p <= -1)
    BY <1>1, <1>3, Products
  <1>5. q = p
    BY <1>1, <1>4
  <1> QED
    BY <1>1, <1>2, <1>5 DEF s

(* Indexes that differ by less than a cache have different slots, and an    *)
(* index that wraps with its byte goes on in the same slots, as the number  *)
(* of indexes is a multiple of that of slots.                               *)
LEMMA SlotFacts ==
  /\ \A x \in Int : Slot(x) \in 0 .. CacheLen - 1
  /\ \A x \in Int, k \in 1 .. CacheLen - 1 : Slot(x - k) # Slot(x)
  /\ \A x \in Int : Slot(x + (IdxTop + 1)) = Slot(x)
  <1> DEFINE L == CacheLen
             top == (IdxTop + 1) \div L
  <1>0. L \in Nat \ {0}
    BY CacheAssumption
  <1>1. IdxTop \in Int /\ top \in Int /\ IdxTop + 1 = L * top
    BY CacheAssumption
  <1> HIDE DEF L, top
  <1>2. ASSUME NEW x \in Int
        PROVE  /\ x % L \in 0 .. L - 1
               /\ \A k \in 1 .. L - 1 : (x - k) % L # x % L
               /\ (x + (IdxTop + 1)) % L = x % L
    <2> DEFINE p == x \div L
               s == x % L
    <2>1. p \in Int /\ x = L * p + s /\ s \in 0 .. L - 1
      BY <1>0
    <2> HIDE DEF p, s
    <2>0. L * p \in Int
      BY <1>0, <2>1, Products
    <2>2. ASSUME NEW k \in 1 .. L - 1 PROVE (x - k) % L # s
      <3>1. CASE s - k >= 0
        <4>1. x - k = L * p + (s - k) /\ s - k \in 0 .. L - 1 /\ x - k \in Int
          BY <1>0, <2>0, <2>1, <3>1
        <4>2. (x - k) % L = s - k
          BY <1>0, <2>1, <4>1, Remainder
        <4> QED
          BY <2>1, <4>2
      <3>2. CASE s - k < 0
        <4>1. L * (p - 1) = L * p - L
          BY <1>0, <2>1
        <4>2. x - k = L * (p - 1) + (s - k + L) /\ s - k + L \in 0 .. L - 1
              /\ x - k \in Int /\ p - 1 \in Int
          BY <1>0, <2>0, <2>1, <3>2, <4>1
        <4>3. (x - k) % L = s - k + L
          BY <1>0, <4>2, Remainder
        <4> QED
          BY <1>0, <2>1, <4>3
      <3> QED
        BY <1>0, <2>1, <3>1, <3>2
    <2>3. (x + (IdxTop + 1)) % L = s
      <3>1. x + (IdxTop + 1) = L * (p + top) + s
        <4>1. L * p + L * top = L * (p + top)
          BY <1>0, <1>1, <2>1, Products
        <4>2. L * top \in Int
          BY <1>1
        <4> QED
          BY <1>1, <2>0, <2>1, <4>1, <4>2
      <3> QED
        <4>1. p + top \in Int /\ x + (IdxTop + 1) \in Int
          BY <1>1, <2>1
        <4> QED
          BY <1>0, <2>1, <3>1, <4>1, Remainder
    <2> QED
      BY <2>1, <2>2, <2>3 DEF s
  <1> QED
    BY <1>2 DEF Slot, L

(* Moving the index and the depth together is no move.                      *)
LEMMA IdxFacts ==
  ASSUME NEW idx \in 0 .. IdxTop, NEW k \in Int
  PROVE  /\ IncIdx(idx) \in 0 .. IdxTop /\ DecIdx(idx) \in 0 .. IdxTop
         /\ Slot(IncIdx(idx) - k) = Slot(idx - (k - 1))
         /\ Slot(DecIdx(idx) - k) = Slot(idx - (k + 1))
  <1>0. IdxTop \in Nat
    BY CacheAssumption
  <1>1. IncIdx(idx) \in 0 .. IdxTop /\ DecIdx(idx) \in 0 .. IdxTop
    BY <1>0 DEF IncIdx, DecIdx
  <1>2. Slot(IncIdx(idx) - k) = Slot(idx - (k - 1))
    <2>1. CASE idx = IdxTop
      <3>1. (0 - k) + (IdxTop + 1) = idx - (k - 1) /\ 0 - k \in Int /\ IncIdx(idx) = 0
        BY <1>0, <2>1 DEF IncIdx
      <3>2. Slot((0 - k) + (IdxTop + 1)) = Slot(0 - k)
        BY <3>1, SlotFacts
      <3> QED
        BY <3>1, <3>2
    <2>2. CASE idx # IdxTop
      <3>1. IncIdx(idx) - k = idx - (k - 1)
        BY <2>2 DEF IncIdx
      <3> QED
        BY <3>1
    <2> QED
      BY <2>1, <2>2
  <1>3. Slot(DecIdx(idx) - k) = Slot(idx - (k + 1))
    <2>1. CASE idx = 0
      <3>1. /\ (idx - (k + 1)) + (IdxTop + 1) = DecIdx(idx) - k
            /\ idx - (k + 1) \in Int
        BY <1>0, <2>1 DEF DecIdx
      <3>2. Slot((idx - (k + 1)) + (IdxTop + 1)) = Slot(idx - (k + 1))
        BY <3>1, SlotFacts
      <3> QED
        BY <3>1, <3>2
    <2>2. CASE idx # 0
      <3>1. DecIdx(idx) - k = idx - (k + 1)
        BY <2>2 DEF DecIdx
      <3> QED
        BY <3>1
    <2> QED
      BY <2>1, <2>2
  <1> QED
    BY <1>1, <1>2, <1>3

(* What a slot of a cache holds.                                            *)
Value == Byte \cup {Uninitialised}
Caches == [0 .. CacheLen - 1 -> Value]

(* A push keeps the order: it overwrites the oldest byte, if any.           *)
LEMMA PushStacks ==
  ASSUME NEW stack, NEW cache \in Caches, NEW idx \in 0 .. IdxTop, NEW v \in Value,
         Stack(stack, cache, idx)
  PROVE  /\ Push(cache, idx, v) \in Caches
         /\ Stack(Stacked(stack, v), Push(cache, idx, v), IncIdx(idx))
  <1> DEFINE n == Len(stack)
             new == Stacked(stack, v)
             m == Len(new)
             after == Push(cache, idx, v)
  <1>0. CacheLen \in Nat \ {0} /\ IdxTop \in Nat /\ idx \in Int
    BY CacheAssumption
  <1>1. stack \in Seq(Value) /\ n \in Nat /\ n <= CacheLen
    BY DEF Stack, Value
  <1>2. after \in Caches
    BY DEF Push, Caches
  <1>3. after[Slot(idx)] = v /\ \A j \in 0 .. CacheLen - 1 : j # Slot(idx) => after[j] = cache[j]
    <2>1. Slot(idx) \in 0 .. CacheLen - 1
      BY <1>0, SlotFacts
    <2> QED
      BY <2>1 DEF Push, Caches
  <1>4. /\ new \in Seq(Value) /\ m \in 1 .. CacheLen /\ new[m] = v
        /\ \A k \in 2 .. m : new[m - k + 1] = stack[n - (k - 1) + 1] /\ k - 1 <= n
    <2>1. CASE n = CacheLen
      <3>1. new = Append(Tail(stack), v) /\ stack # <<>>
        BY <1>0, <1>1, <2>1 DEF Stacked
      <3>2. Tail(stack) \in Seq(Value) /\ Len(Tail(stack)) = n - 1
            /\ \A j \in 1 .. n - 1 : Tail(stack)[j] = stack[j + 1]
        BY <1>1, <3>1
      <3>3. m = n /\ new[n] = v /\ new \in Seq(Value) /\ \A j \in 1 .. n - 1 : new[j] = stack[j + 1]
        BY <1>0, <1>1, <2>1, <3>1, <3>2
      <3> HIDE DEF new, m, n
      <3> QED
        BY <1>0, <1>1, <2>1, <3>3
    <2>2. CASE n # CacheLen
      <3>1. new = Append(stack, v)
        BY <2>2 DEF Stacked
      <3>2. m = n + 1 /\ new[n + 1] = v /\ new \in Seq(Value) /\ \A j \in 1 .. n : new[j] = stack[j]
        BY <1>1, <3>1
      <3> HIDE DEF new, m, n
      <3> QED
        BY <1>0, <1>1, <2>2, <3>2
    <2> QED
      BY <2>1, <2>2
  <1> HIDE DEF new, m, after
  <1>5. ASSUME NEW k \in 1 .. m PROVE after[Slot(IncIdx(idx) - k)] = new[m - k + 1]
    <2>0. k \in Int /\ k - 1 \in Int /\ Slot(IncIdx(idx) - k) = Slot(idx - (k - 1))
      BY <1>0, <1>4, IdxFacts
    <2>1. CASE k = 1
      <3>1. idx - (k - 1) = idx /\ m - k + 1 = m
        BY <1>0, <1>4, <2>1
      <3> QED
        BY <1>3, <1>4, <2>0, <3>1
    <2>2. CASE k # 1
      <3>1. k \in 2 .. m /\ k - 1 \in 1 .. CacheLen - 1 /\ k - 1 \in 1 .. n
        BY <1>0, <1>1, <1>4, <2>2
      <3>2. /\ Slot(idx - (k - 1)) # Slot(idx)
            /\ Slot(idx - (k - 1)) \in 0 .. CacheLen - 1
        <4>1. idx \in Int /\ k - 1 \in Int /\ idx - (k - 1) \in Int
          BY <1>0, <2>0
        <4> QED
          BY <3>1, <4>1, SlotFacts
      <3>3. after[Slot(idx - (k - 1))] = cache[Slot(idx - (k - 1))]
        BY <1>3, <3>2
      <3>4. cache[Slot(idx - (k - 1))] = stack[n - (k - 1) + 1]
        BY <3>1 DEF Stack
      <3> QED
        BY <1>4, <2>0, <3>1, <3>3, <3>4
    <2> QED
      BY <2>1, <2>2
  <1> QED
    BY <1>0, <1>2, <1>4, <1>5 DEF Stack, Value, new, m, after

(* The beginning of a sequence.                                             *)
LEMMA PrefixOf ==
  ASSUME NEW S, NEW s, NEW k \in Nat, \A i \in 1 .. k : s[i] \in S
  PROVE  /\ SubSeq(s, 1, k) \in Seq(S)
         /\ Len(SubSeq(s, 1, k)) = k
         /\ \A i \in 1 .. k : SubSeq(s, 1, k)[i] = s[i]
  <1>1. SubSeq(s, 1, k) = [i \in 1 .. k |-> s[i]]
    OBVIOUS
  <1> QED
    BY <1>1

(* A pop uncovers the byte pushed before.                                   *)
LEMMA PopStacks ==
  ASSUME NEW stack, NEW cache, NEW idx \in 0 .. IdxTop, Stack(stack, cache, idx), stack # <<>>
  PROVE  Stack(Front(stack), cache, DecIdx(idx))
  <1> DEFINE n == Len(stack)
             rest == Front(stack)
  <1>1. stack \in Seq(Value) /\ n \in Nat \ {0} /\ n <= CacheLen
    BY DEF Stack, Value
  <1>2. rest \in Seq(Value) /\ Len(rest) = n - 1 /\ \A j \in 1 .. n - 1 : rest[j] = stack[j]
    <2>1. \A i \in 1 .. n - 1 : stack[i] \in Value
      BY <1>1
    <2> DEFINE k == n - 1
    <2>2. k \in Nat /\ \A i \in 1 .. k : stack[i] \in Value
      BY <1>1, <2>1
    <2>3. rest = SubSeq(stack, 1, k)
      BY DEF Front
    <2> HIDE DEF k
    <2>4. /\ SubSeq(stack, 1, k) \in Seq(Value)
          /\ Len(SubSeq(stack, 1, k)) = k
          /\ \A i \in 1 .. k : SubSeq(stack, 1, k)[i] = stack[i]
      BY <2>2, PrefixOf
    <2> QED
      BY <2>3, <2>4 DEF k
  <1> HIDE DEF rest
  <1>3. ASSUME NEW k \in 1 .. n - 1 PROVE cache[Slot(DecIdx(idx) - k)] = rest[(n - 1) - k + 1]
    <2>1. k \in Int /\ k + 1 \in 1 .. n /\ n - k \in 1 .. n - 1 /\ n - (k + 1) + 1 = n - k
          /\ (n - 1) - k + 1 = n - k
      BY <1>1
    <2>2. Slot(DecIdx(idx) - k) = Slot(idx - (k + 1))
      BY <2>1, IdxFacts
    <2>3. cache[Slot(idx - (k + 1))] = stack[n - (k + 1) + 1]
      BY <2>1 DEF Stack
    <2> QED
      BY <1>2, <2>1, <2>2, <2>3
  <1> QED
    <2>1. \A k \in 1 .. Len(rest) : cache[Slot(DecIdx(idx) - k)] = rest[Len(rest) - k + 1]
      BY <1>2, <1>3
    <2>2. rest \in Seq(Byte \cup {Uninitialised})
      BY <1>2 DEF Value
    <2>3. Len(rest) <= CacheLen
      <3> HIDE DEF n
      <3> QED
        BY <1>1, <1>2, CacheAssumption
    <2>4. Stack(rest, cache, DecIdx(idx))
      BY <2>1, <2>2, <2>3 DEF Stack
    <2> QED
      BY <2>4 DEF rest

-----------------------------------------------------------------------------
(* Whom an access reaches.                                                  *)

(* The least index is one of them.                                          *)
LEMMA MinIn ==
  ASSUME NEW T, T \subseteq Nat, T # {}
  PROVE  Min(T) \in T /\ \A y \in T : Min(T) <= y
  <1>1. \E x \in T : \A y \in T : x <= y
    BY NatLeast
  <1> QED
    BY <1>1, Zenon DEF Min

(* The ranges of the modules that were allocated begin in memory and have   *)
(* an extent, that of a mirror no more than that of its original.           *)
LEMMA SpanFacts ==
  /\ \A m \in Module : Kind(m) # "mirror" =>
       /\ m \in Allocated /\ Spans[m] = OwnSpan(m) /\ Target(m) = m
       /\ OwnSpan(m).addr_lo \in Nat /\ OwnSpan(m).addr_len \in Nat
       /\ Kind(m) = "std64k" => OwnSpan(m).addr_lo = 0 /\ OwnSpan(m).addr_len = AddrTop
  /\ \A m \in Allocated : Kind(m) = "mirror" =>
       /\ Target(m) \in Module /\ Kind(Target(m)) # "mirror"
       /\ Spans[m].addr_lo \in Addr /\ Spans[m].addr_len <= OwnSpan(Target(m)).addr_len
  <1>0. AddrTop \in Nat /\ Addr \subseteq Nat
    BY RangeTopAssumption DEF Addr
  <1>1. ASSUME NEW m \in Module, Kind(m) # "mirror"
        PROVE  /\ m \in Allocated /\ Spans[m] = OwnSpan(m) /\ Target(m) = m
               /\ OwnSpan(m).addr_lo \in Nat /\ OwnSpan(m).addr_len \in Nat
               /\ Kind(m) = "std64k" => OwnSpan(m).addr_lo = 0 /\ OwnSpan(m).addr_len = AddrTop
    <2>1. m \in Allocated /\ Spans[m] = OwnSpan(m) /\ Target(m) = m
      BY <1>1 DEF Allocated, Spans, Span, Target
    <2>2. Kind(m) \in Kinds \ {"mirror"} /\ Decl[m].at \in Nat /\ Decl[m].n \in Nat
      BY <1>0, <1>1, DeclAssumption DEF Kind
    <2>3. CASE Kind(m) = "paged"
      <3>1. PageSize \in Nat /\ Pages \in Int /\ Decl[m].at < Pages
        BY <2>3, DeclAssumption, PageAssumption, RangeTopAssumption DEF Pages, Size, Kind
      <3> DEFINE n_pages == IF Decl[m].at + Decl[m].n > Pages THEN Pages - Decl[m].at ELSE Decl[m].n
      <3>2. n_pages \in Nat
        BY <2>2, <3>1
      <3>3. OwnSpan(m) = with_lo_and_len(Decl[m].at * PageSize, n_pages * PageSize)
        BY <2>3 DEF OwnSpan
      <3> HIDE DEF n_pages
      <3>4. Decl[m].at * PageSize \in Nat /\ n_pages * PageSize \in Nat
        BY <2>2, <3>1, <3>2
      <3> QED
        BY <2>1, <2>3, <3>3, <3>4 DEF with_lo_and_len
    <2>4. CASE Kind(m) # "paged"
      BY <1>0, <2>1, <2>2, <2>4 DEF OwnSpan, with_lo_and_len, Kinds
    <2> QED
      BY <2>3, <2>4
  <1>2. ASSUME NEW m \in Allocated, Kind(m) = "mirror"
        PROVE  /\ Target(m) \in Module /\ Kind(Target(m)) # "mirror"
               /\ Spans[m].addr_lo \in Addr /\ Spans[m].addr_len <= OwnSpan(Target(m)).addr_len
    <2>1. /\ m \in Module /\ Target(m) = Decl[m].of /\ Target(m) \in Module
          /\ Kind(Target(m)) # "mirror" /\ Decl[m].at \in Addr
      BY <1>2, DeclAssumption DEF Allocated, Target, Kind
    <2> DEFINE len == OwnSpan(Target(m)).addr_len
    <2>2. len \in Nat
      BY <1>1, <2>1
    <2>3. Spans[m] = with_lo_and_hi(Decl[m].at, MirrorEnd(m)) /\ MirrorEnd(m) = Decl[m].at + len - 1
      BY <1>2, <2>1 DEF Spans, Span, MirrorEnd
    <2> HIDE DEF len
    <2>4. MirrorEnd(m) - Decl[m].at + 1 = len
      <3>1. Decl[m].at \in Nat
        BY <1>0, <2>1
      <3>2. \A x \in Nat, y \in Nat : (x + y - 1) - x + 1 = y
        OBVIOUS
      <3> QED
        BY <2>2, <2>3, <3>1, <3>2
    <2>5. Spans[m].addr_lo = Decl[m].at /\ Spans[m].addr_len = Wrap(len)
      BY <2>3, <2>4 DEF with_lo_and_hi
    <2>6. Wrap(len) <= len
      BY <1>0, <2>2 DEF Wrap, Size
    <2> QED
      BY <2>1, <2>5, <2>6 DEF len
  <1> QED
    BY <1>1, <1>2

(* A module's callbacks stay in the bytes it has.                           *)
LEMMA CellFacts ==
  ASSUME NEW m \in Allocated, NEW a \in Addr, Covers(m, a), Stores(Target(m))
  PROVE  Cell(m, a) \in Cells
  <1> DEFINE t == Target(m)
  <1>0. AddrTop \in Nat /\ a \in Nat /\ a <= AddrTop
    BY RangeTopAssumption DEF Addr
  <1>1. m \in Module /\ (Kind(m) # "mirror" => t = m) /\ t \in Module /\ Kind(t) # "mirror"
    BY SpanFacts DEF Allocated
  <1>2. /\ Spans[t] = OwnSpan(t) /\ OwnSpan(t).addr_len \in Nat
        /\ Kind(t) = "std64k" => OwnSpan(t).addr_lo = 0 /\ OwnSpan(t).addr_len = AddrTop
    BY <1>1, SpanFacts
  <1>3. Spans[m].addr_lo \in Nat /\ Spans[m].addr_len \in Int /\ Spans[m].addr_len <= OwnSpan(t).addr_len
    <2>1. CASE Kind(m) = "mirror"
      <3>1. Spans[m].addr_lo \in Addr /\ Spans[m].addr_len <= OwnSpan(Target(m)).addr_len
        BY <2>1, SpanFacts
      <3>2. Spans[m].addr_len \in Int
        BY <1>0, <1>1, <1>2, <2>1, DeclAssumption DEF Spans, Span, MirrorEnd, with_lo_and_hi, Wrap, Size, Addr, Target, Kind
      <3> QED
        BY <1>0, <3>1, <3>2 DEF Addr
    <2>2. CASE Kind(m) # "mirror"
      BY <1>1, <2>2, SpanFacts
    <2> QED
      BY <2>1, <2>2
  <1>4. a >= Spans[m].addr_lo /\ a < Spans[m].addr_lo + Spans[m].addr_len
    BY DEF Covers, does_include
  <1> HIDE DEF t
  <1>5. Offset(m, a) \in Offsets(t)
    <2>1. CASE Kind(t) = "std64k"
      <3>1. Offset(m, a) = a - Spans[m].addr_lo + 0
        BY <1>2, <2>1 DEF Offset, Lo, t
      <3>2. a - Spans[m].addr_lo + 0 \in Addr
        BY <1>0, <1>3, <1>4 DEF Addr
      <3> QED
        BY <2>1, <3>1, <3>2 DEF Offsets
    <2>2. CASE Kind(t) # "std64k"
      <3>1. Offset(m, a) = a - Spans[m].addr_lo
        BY <2>2 DEF Offset, Lo, t
      <3> QED
        BY <1>0, <1>2, <1>3, <1>4, <2>2, <3>1 DEF Offsets
    <2> QED
      BY <2>1, <2>2
  <1>6. Cell(m, a) \in {t} \X Offsets(t)
    BY <1>5 DEF Cell, t
  <1> DEFINE storing == {x \in Module : Stores(x)}
             Row(x) == {x} \X Offsets(x)
             rows == {Row(x) : x \in storing}
  <1>7. t \in storing
    BY <1>1 DEF t
  <1>8. Cell(m, a) \in Row(t)
    BY <1>6
  <1>9. Cells = UNION rows
    BY DEF Cells
  <1>10. Row(t) \in rows
    <2> HIDE DEF Row, storing
    <2> QED
      BY <1>7
  <1> HIDE DEF rows
  <1> QED
    BY <1>8, <1>9, <1>10

(* An access is accepted by a module whose range holds its address.         *)
LEMMA AcceptingFacts ==
  ASSUME ChainsInv, NEW a, NEW op, Accepting(a, op) # <<>>
  PROVE  \E m \in Allocated : Accepting(a, op) = <<m>> /\ Covers(m, a)
  <1> DEFINE hits == Hits(a, op)
             tiers == {i \in DOMAIN hits : hits[i] # {}}
             i == Min(tiers)
             j == Min(hits[i])
  <1>1. modules \in Seq([tier : Int, chain : Seq(Allocated)])
    BY DEF ChainsInv
  <1>2. DOMAIN hits = DOMAIN modules /\ DOMAIN modules \subseteq Nat
    BY <1>1 DEF Hits
  <1>3. \A k \in DOMAIN modules : /\ modules[k].chain \in Seq(Allocated)
                                  /\ hits[k] \subseteq Reached(modules[k].chain, a)
    <2> SUFFICES ASSUME NEW k \in DOMAIN modules
                 PROVE  /\ modules[k].chain \in Seq(Allocated)
                        /\ hits[k] \subseteq Reached(modules[k].chain, a)
      OBVIOUS
    <2> DEFINE chain == modules[k].chain
               R == Reached(chain, a)
    <2>1. hits[k] = {x \in R : Result(op, chain[x]) # "observed"}
      BY Zenon DEF Hits
    <2> HIDE DEF R, hits
    <2>2. hits[k] \subseteq R
      BY <2>1
    <2>3. modules[k] \in [tier : Int, chain : Seq(Allocated)]
      <3> DEFINE rec == [tier : Int, chain : Seq(Allocated)]
      <3>1. modules \in Seq(rec)
        BY <1>1
      <3> HIDE DEF rec
      <3>2. modules[k] \in rec
        BY <3>1
      <3> QED
        BY <3>2 DEF rec
    <2> QED
      BY <2>2, <2>3 DEF R
  <1>4. Accepting(a, op) = FirstOf(hits) /\ FirstOf(hits) # <<>>
    BY DEF Accepting
  <1>5. tiers # {} /\ FirstOf(hits) = << modules[i].chain[j] >>
    BY <1>4 DEF FirstOf
  <1>6. i \in DOMAIN modules /\ hits[i] # {}
    <2>1. tiers \subseteq Nat
      BY <1>2
    <2>2. i \in tiers
      <3> HIDE DEF tiers
      <3> QED
        BY <1>5, <2>1, MinIn
    <2> QED
      BY <1>2, <2>2
  <1> HIDE DEF hits, i
  <1>7. j \in hits[i]
    <2>1. hits[i] \subseteq Nat
      BY <1>3, <1>6 DEF Reached
    <2> QED
      BY <1>6, <2>1, MinIn
  <1> HIDE DEF j
  <1>8. j \in DOMAIN modules[i].chain /\ Covers(modules[i].chain[j], a)
    BY <1>3, <1>6, <1>7 DEF Reached
  <1> QED
    BY <1>3, <1>4, <1>5, <1>6, <1>8

(* The bytes of the modules, as far as their type goes.                     *)
Store == [Cells -> Value]

(* A read callback returns what a byte or nothing was stored in.            *)
LEMMA ReadFacts ==
  ASSUME ChainsInv, bytes \in Store, vectors \in [VectorAddrs -> Byte], NEW a \in Addr, Read(a) # <<>>
  PROVE  Read(a)[1] \in Value
  <1> DEFINE by == Accepting(a, "read")
  <1>1. CASE by # <<>>
    <2>1. PICK m \in Allocated : by = <<m>> /\ Covers(m, a)
      BY <1>1, AcceptingFacts
    <2>2. Read(a)[1] = ReadByte(m, a, bytes, 0)
      BY <2>1 DEF Read, ValueBy
    <2>3. Stores(Target(m)) => bytes[Cell(m, a)] \in Value
      BY <2>1, CellFacts DEF Store
    <2>4. 0 \in Value
      BY DEF Value, Byte
    <2> QED
      BY <2>2, <2>3, <2>4 DEF ReadByte
  <1>2. CASE by = <<>>
    <2>1. a \in VectorAddrs /\ Read(a) = << vectors[a] >>
      BY <1>2 DEF Read, ValueBy
    <2> QED
      BY <2>1 DEF Value
  <1> QED
    BY <1>1, <1>2

(* A write callback stores a byte in a cell, and zeroes one at most.        *)
LEMMA WriteFacts ==
  ASSUME NEW m, NEW a, NEW b \in Store, NEW v \in Byte
  PROVE  WriteByte(m, a, b, v) \in Store
  <1>1. 0 \in Value /\ v \in Value
    BY DEF Value, Byte
  <1>2. \A f \in Store, x \in Value : \A c : [f EXCEPT ![c] = x] \in Store
    BY DEF Store
  <1>3. /\ [b EXCEPT ![Cell(m, a)] = v] \in Store
        /\ [[b EXCEPT ![<<Target(m), 1 - Offset(m, a)>>] = 0] EXCEPT ![Cell(m, a)] = v] \in Store
    <2> HIDE DEF Store, Value
    <2> QED
      BY <1>1, <1>2
  <1> HIDE DEF Store
  <1> QED
    BY <1>3 DEF WriteByte

(* What a cache of reads and its history look like while a call reads.      *)
ReadState == [rcache : Caches, rcache_idx : 0 .. IdxTop, pushed_r : Seq(Value)]
ReadGood == {c \in ReadState : Stack(c.pushed_r, c.rcache, c.rcache_idx)}

(* One read keeps the cache in order.                                       *)
LEMMA ReadKeeps ==
  ASSUME ChainsInv, bytes \in Store, vectors \in [VectorAddrs -> Byte],
         NEW c \in ReadGood, NEW a \in Addr
  PROVE  ReadAddr(c, a) \in ReadGood
  <1>1. CASE Read(a) # <<>> /\ ~cache_disable
    <2> DEFINE v == Read(a)[1]
               stack == Stacked(c.pushed_r, v)
               after == Push(c.rcache, c.rcache_idx, v)
               idx == IncIdx(c.rcache_idx)
    <2>1. v \in Value
      BY <1>1, ReadFacts
    <2>2. ReadAddr(c, a) = [rcache |-> after, rcache_idx |-> idx, pushed_r |-> stack]
      BY <1>1 DEF ReadAddr, Cached
    <2>3. /\ c.rcache \in Caches /\ c.rcache_idx \in 0 .. IdxTop
          /\ Stack(c.pushed_r, c.rcache, c.rcache_idx)
      BY DEF ReadGood, ReadState
    <2> HIDE DEF v
    <2>4. after \in Caches /\ Stack(stack, after, idx)
      BY <2>1, <2>3, PushStacks
    <2>5. idx \in 0 .. IdxTop /\ stack \in Seq(Value)
      BY <2>3, <2>4, IdxFacts DEF Stack, Value
    <2> HIDE DEF after, stack, idx
    <2> QED
      BY <2>2, <2>4, <2>5 DEF ReadGood, ReadState
  <1>2. CASE ~ (Read(a) # <<>> /\ ~cache_disable)
    BY <1>2 DEF ReadAddr, Cached
  <1> QED
    BY <1>1, <1>2

(* The same for a call that writes, and the bytes it writes to.             *)
WriteState == [bytes : Store, vectors : [VectorAddrs -> Byte], wcache : Caches,
               wcache_idx : 0 .. IdxTop, pushed_w : Seq(Value)]
WriteGood == {w \in WriteState : Stack(w.pushed_w, w.wcache, w.wcache_idx)}

(* One write keeps the bytes' types and the cache in order.                 *)
LEMMA WriteKeeps ==
  ASSUME ChainsInv, NEW w \in WriteGood, NEW x \in Addr \X Byte
  PROVE  WriteAddr(w, x) \in WriteGood
  <1> DEFINE a == x[1]
             v == x[2]
             by == Accepting(a, "write")
             accepted == by # <<>>
             cached == (accepted \/ a \in VectorAddrs) /\ ~cache_disable
             b1 == IF accepted THEN WriteByte(by[1], a, w.bytes, v) ELSE w.bytes
             b2 == PostOps(a, b1, v)
             vec == IF a \in VectorAddrs /\ ~accepted THEN [w.vectors EXCEPT ![a] = v] ELSE w.vectors
             after == IF cached THEN Push(w.wcache, w.wcache_idx, v) ELSE w.wcache
             idx == IF cached THEN IncIdx(w.wcache_idx) ELSE w.wcache_idx
             stack == IF cached THEN Stacked(w.pushed_w, v) ELSE w.pushed_w
  <1>1. v \in Byte /\ v \in Value
    BY DEF Value
  <1>2. /\ w.bytes \in Store /\ w.vectors \in [VectorAddrs -> Byte] /\ w.wcache \in Caches
        /\ w.wcache_idx \in 0 .. IdxTop /\ w.pushed_w \in Seq(Value)
        /\ Stack(w.pushed_w, w.wcache, w.wcache_idx)
    BY DEF WriteGood, WriteState
  <1>3. WriteAddr(w, x) = [bytes |-> b2, vectors |-> vec, wcache |-> after, wcache_idx |-> idx,
                           pushed_w |-> stack]
    BY DEF WriteAddr, WriteBy
  <1> HIDE DEF v, a
  <1>4. b1 \in Store
    <2> HIDE DEF by
    <2> QED
      BY <1>1, <1>2, WriteFacts
  <1>5. b2 \in Store
    <2>1. post_op \in Seq(Allocated)
      BY DEF ChainsInv
    <2>2. \A y \in Store, m \in Allocated : Heard(y, m, a, v) \in Store
      BY <1>1, WriteFacts DEF Heard
    <2> HIDE DEF b1
    <2> QED
      BY <1>4, <2>1, <2>2, PostFold
  <1>6. vec \in [VectorAddrs -> Byte]
    <2> HIDE DEF by
    <2> QED
      BY <1>1, <1>2
  <1>7. after \in Caches /\ Stack(stack, after, idx) /\ idx \in 0 .. IdxTop /\ stack \in Seq(Value)
    <2>1. CASE cached
      <3>1. /\ after = Push(w.wcache, w.wcache_idx, v) /\ idx = IncIdx(w.wcache_idx)
            /\ stack = Stacked(w.pushed_w, v)
        BY <2>1
      <3> HIDE DEF cached, after, idx, stack
      <3>2. after \in Caches /\ Stack(stack, after, idx)
        BY <1>1, <1>2, <3>1, PushStacks
      <3> QED
        BY <1>2, <3>1, <3>2, IdxFacts DEF Stack, Value
    <2>2. CASE ~cached
      <3>1. after = w.wcache /\ idx = w.wcache_idx /\ stack = w.pushed_w
        BY <2>2
      <3> HIDE DEF cached, after, idx, stack
      <3> QED
        BY <1>2, <3>1
    <2> QED
      BY <2>1, <2>2
  <1> HIDE DEF b2, vec, after, idx, stack
  <1> QED
    BY <1>3, <1>5, <1>6, <1>7 DEF WriteGood, WriteState

-----------------------------------------------------------------------------
(* The calls that read and write.                                           *)

(* The part of the invariant that accesses change.                          *)
MemoryInv ==
  /\ bytes \in Store /\ vectors \in [VectorAddrs -> Byte]
  /\ rcache \in Caches /\ rcache_idx \in 0 .. IdxTop
  /\ wcache \in Caches /\ wcache_idx \in 0 .. IdxTop
  /\ CachesInv

(* The addresses of a call on a range.                                      *)
LEMMA AddrsFacts ==
  ASSUME NEW r \in AddrRanges, NEW end \in Int, r.addr_lo <= end, end <= Size + Size
  PROVE  AddrsTo(r, end) \in Seq(Addr) /\ Len(AddrsTo(r, end)) = end - r.addr_lo
  <1> DEFINE lo == r.addr_lo
             n == end - lo
  <1>0. AddrTop \in Nat /\ lo \in Nat /\ n \in Nat
    BY RangeTopAssumption DEF AddrRanges, Addr
  <1>1. \A i \in 1 .. n : lo + i - 1 \in Nat /\ lo + i - 1 < Size + Size
    BY <1>0 DEF Size
  <1>2. \A x \in Nat : x < Size + Size => Wrap(x) \in Addr
    BY <1>0 DEF Size, Wrap, Addr
  <1>3. AddrsTo(r, end) = [i \in 1 .. n |-> Wrap(lo + i - 1)]
    BY DEF AddrsTo
  <1> HIDE DEF lo, n
  <1>4. \A i \in 1 .. n : Wrap(lo + i - 1) \in Addr
    BY <1>1, <1>2
  <1> QED
    BY <1>0, <1>3, <1>4 DEF n, lo

(* The accesses of a call that writes data to addresses.                    *)
LEMMA FilledFacts ==
  ASSUME NEW addrs \in Seq(Addr), NEW data, \A i \in 1 .. Len(addrs) : data[i] \in Byte
  PROVE  Filled(addrs, data) \in Seq(Addr \X Byte)
  BY DEF Filled

(* Where the calls on ranges end.                                           *)
LEMMA EndFacts ==
  ASSUME NEW r \in AddrRanges
  PROVE  /\ r.addr_lo \in Nat /\ r.addr_len \in Nat
         /\ End(r) \in Nat /\ r.addr_lo <= End(r) /\ End(r) <= Size + Size
         /\ FillEnd(r) \in Nat /\ r.addr_lo <= FillEnd(r) /\ FillEnd(r) <= End(r) /\ FillEnd(r) <= Size
         /\ FileEnd(r) \in Nat /\ r.addr_lo <= FileEnd(r) /\ FileEnd(r) <= Size
         /\ Size \in Nat /\ Size >= 1
  BY RangeTopAssumption DEF AddrRanges, Addr, End, FillEnd, FileEnd, Lesser, Size

(* A call that reads keeps the bytes and puts the cache in order.           *)
LEMMA ReadAllKeeps ==
  ASSUME ChainsInv, MemoryInv, NEW addrs \in Seq(Addr), ReadAll(addrs)
  PROVE  MemoryInv'
  <1> DEFINE before == [rcache |-> rcache, rcache_idx |-> rcache_idx, pushed_r |-> pushed_r]
             after == FoldLeft(ReadAddr, before, addrs)
  <1>1. before \in ReadGood
    BY DEF MemoryInv, CachesInv, Stack, ReadGood, ReadState, Value
  <1>2. \A c \in ReadGood, a \in Addr : ReadAddr(c, a) \in ReadGood
    BY ReadKeeps DEF MemoryInv
  <1>3. /\ rcache' = after.rcache /\ rcache_idx' = after.rcache_idx /\ pushed_r' = after.pushed_r
        /\ UNCHANGED <<bytes, vectors, wcache, wcache_idx, pushed_w>>
    BY DEF ReadAll, memVars
  <1> HIDE DEF before
  <1>4. after \in ReadGood
    BY <1>1, <1>2, ReadFold
  <1> HIDE DEF after
  <1> QED
    BY <1>3, <1>4 DEF MemoryInv, CachesInv, ReadGood, ReadState

(* A call that writes keeps the bytes' types and puts the cache in order.   *)
LEMMA WriteAllKeeps ==
  ASSUME ChainsInv, MemoryInv, NEW accesses \in Seq(Addr \X Byte), NEW intended,
         WriteAll(accesses, intended)
  PROVE  MemoryInv'
  <1> DEFINE after == FoldLeft(WriteAddr, Memory, accesses)
  <1>1. Memory \in WriteGood
    BY DEF MemoryInv, CachesInv, Stack, WriteGood, WriteState, Value, Memory
  <1>2. \A w \in WriteGood, x \in Addr \X Byte : WriteAddr(w, x) \in WriteGood
    BY WriteKeeps
  <1>3. /\ bytes' = after.bytes /\ vectors' = after.vectors /\ wcache' = after.wcache
        /\ wcache_idx' = after.wcache_idx /\ pushed_w' = after.pushed_w
        /\ UNCHANGED <<rcache, rcache_idx, pushed_r>>
    BY DEF WriteAll
  <1>4. after \in WriteGood
    BY <1>1, <1>2, WriteFold
  <1> HIDE DEF after
  <1> QED
    BY <1>3, <1>4 DEF MemoryInv, CachesInv, WriteGood, WriteState

(* What the calls that access memory have in common.                        *)
Reads == \E addrs \in Seq(Addr) : ReadAll(addrs)
Intents == Seq(Addr \X (Byte \cup {Unknown}))
Follows(intended, accesses) ==
  /\ Len(accesses) <= Len(intended)
  /\ \A i \in 1 .. Len(accesses) :
       intended[i][1] = accesses[i][1] /\ intended[i][2] \in {accesses[i][2], Unknown}
  /\ \A i \in Len(accesses) + 1 .. Len(intended) : intended[i][2] = Unknown
Writes ==
  \E accesses \in Seq(Addr \X Byte), intended \in Intents :
    Follows(intended, accesses) /\ WriteAll(accesses, intended)

(* What a call means to write is what it writes, but for a last address.    *)
LEMMA FollowsFacts ==
  ASSUME NEW done \in Seq(Addr \X Byte)
  PROVE  /\ done \in Intents /\ Follows(done, done)
         /\ Append(done, <<AddrTop, Unknown>>) \in Intents
         /\ Follows(Append(done, <<AddrTop, Unknown>>), done)
         /\ Len(done) >= 1 =>
              /\ [done EXCEPT ![Len(done)] = <<@[1], Unknown>>] \in Intents
              /\ Follows([done EXCEPT ![Len(done)] = <<@[1], Unknown>>], done)
  <1> DEFINE n == Len(done)
             V == Addr \X (Byte \cup {Unknown})
             more == Append(done, <<AddrTop, Unknown>>)
             less == [done EXCEPT ![n] = <<@[1], Unknown>>]
  <1>1. n \in Nat /\ DOMAIN done = 1 .. n /\ \A i \in 1 .. n : done[i] \in Addr \X Byte
    OBVIOUS
  <1>2. \A i \in 1 .. n : done[i] \in V /\ <<done[i][1], Unknown>> \in V
    BY <1>1
  <1>3. <<AddrTop, Unknown>> \in V
    BY RangeTopAssumption DEF Addr
  <1>4. done \in Seq(V) /\ Follows(done, done)
    <2>1. Addr \X Byte \subseteq V
      OBVIOUS
    <2> HIDE DEF V
    <2>2. done \in Seq(V)
      BY <2>1, SeqMonotonic
    <2> QED
      BY <2>2 DEF Follows
  <1> HIDE DEF V
  <1>5. more \in Seq(V) /\ Len(more) = n + 1 /\ more[n + 1] = <<AddrTop, Unknown>>
        /\ \A i \in 1 .. n : more[i] = done[i]
    BY <1>1, <1>3, <1>4
  <1>6. Follows(more, done)
    <2> HIDE DEF more
    <2>1. \A i \in n + 1 .. n + 1 : i = n + 1
      BY <1>1
    <2> QED
      BY <1>1, <1>5, <2>1 DEF Follows
  <1>7. ASSUME n >= 1 PROVE less \in Seq(V) /\ Follows(less, done)
    <2> DEFINE e(i) == IF i = n THEN <<done[n][1], Unknown>> ELSE done[i]
    <2>1. less = [i \in 1 .. n |-> e(i)]
      BY <1>1, <1>7
    <2>2. \A i \in 1 .. n : e(i) \in V
      BY <1>2
    <2>0. \A i \in 1 .. n : e(i)[1] = done[i][1] /\ e(i)[2] \in {done[i][2], Unknown}
      OBVIOUS
    <2> HIDE DEF n, e, less
    <2>3. less \in Seq(V) /\ Len(less) = n
      BY <1>1, <2>1, <2>2
    <2>4. \A i \in 1 .. n : less[i][1] = done[i][1] /\ less[i][2] \in {done[i][2], Unknown}
      BY <2>0, <2>1
    <2>5. \A i \in n + 1 .. n : FALSE
      BY <1>1
    <2> QED
      BY <1>1, <2>3, <2>4, <2>5 DEF Follows, n
  <1> QED
    BY <1>4, <1>5, <1>6, <1>7 DEF Intents, V

(* A fill or a copy writes as much of its data as it has addresses.         *)
LEMMA FillWrites ==
  ASSUME NEW r \in AddrRanges, NEW data, \A i \in 1 .. r.addr_len : data[i] \in Byte, FillAll(r, data)
  PROVE  Writes
  <1> DEFINE addrs == AddrsTo(r, FillEnd(r))
             done == Filled(addrs, data)
  <1>1. addrs \in Seq(Addr) /\ Len(addrs) = FillEnd(r) - r.addr_lo
    BY EndFacts, AddrsFacts
  <1>2. Len(addrs) <= r.addr_len
    BY <1>1, EndFacts DEF End
  <1>3. done \in Seq(Addr \X Byte)
    <2>1. \A i \in 1 .. Len(addrs) : data[i] \in Byte
      BY <1>1, <1>2, EndFacts
    <2> HIDE DEF addrs
    <2> QED
      BY <1>1, <2>1, FilledFacts
  <1>4. WriteAll(done, done) \/ WriteAll(done, Append(done, <<AddrTop, Unknown>>))
    BY DEF FillAll
  <1> HIDE DEF done
  <1> QED
    BY <1>3, <1>4, FollowsFacts DEF Writes

(* A load writes no more than the range, the address after it and the file  *)
(* have.                                                                    *)
LEMMA LoadWrites ==
  ASSUME NEW r \in AddrRanges, NEW file \in Seq(Byte), membus_load(r, file)
  PROVE  Writes
  <1> DEFINE len == FileEnd(r) - r.addr_lo
             addrs == AddrsTo(r, FileEnd(r) + 1)
  <1>1. PICK n \in 0 .. Lesser(Len(file), len + 1) :
          LET done == Filled(SubSeq(addrs, 1, n), file)
          IN  WriteAll(done, IF n <= len THEN done ELSE [done EXCEPT ![n] = <<@[1], Unknown>>])
    BY DEF membus_load
  <1>2. addrs \in Seq(Addr) /\ Len(addrs) = len + 1 /\ len \in Nat
    <2>1. /\ FileEnd(r) + 1 \in Int /\ r.addr_lo <= FileEnd(r) + 1
          /\ FileEnd(r) + 1 <= Size + Size
      BY EndFacts
    <2>2. (FileEnd(r) + 1) - r.addr_lo = len + 1 /\ len \in Nat
      BY EndFacts
    <2> QED
      BY <2>1, <2>2, AddrsFacts
  <1> DEFINE taken == SubSeq(addrs, 1, n)
             done == Filled(taken, file)
  <1>3. n \in Nat /\ n <= Len(file) /\ n <= Len(addrs) /\ Len(file) \in Nat
    BY <1>2 DEF Lesser
  <1>4. taken \in Seq(Addr) /\ Len(taken) = n
    <2>1. \A i \in 1 .. n : addrs[i] \in Addr
      BY <1>2, <1>3
    <2> HIDE DEF addrs
    <2> QED
      BY <1>3, <2>1, PrefixOf
  <1>5. done \in Seq(Addr \X Byte)
    <2>1. \A i \in 1 .. Len(taken) : file[i] \in Byte
      BY <1>3, <1>4
    <2> HIDE DEF taken
    <2> QED
      BY <1>4, <2>1, FilledFacts
  <1>6. Len(done) = n
    <2> HIDE DEF taken
    <2> QED
      BY <1>3, <1>4 DEF Filled
  <1>7. \/ WriteAll(done, done)
        \/ n >= 1 /\ WriteAll(done, [done EXCEPT ![n] = <<@[1], Unknown>>])
    BY <1>1, <1>2
  <1> HIDE DEF done
  <1> QED
    BY <1>5, <1>6, <1>7, FollowsFacts DEF Writes

(* Every access of the next-state relation reads or writes that way.        *)
LEMMA AccessCalls ==
  /\ \A a \in Accessed : membus_read_addr(a) => Reads
  /\ \A a \in Accessed, v \in Written : membus_write_addr(a, v) => Writes
  /\ \A r \in FillRanges :
       /\ membus_copy_out_bytes(r) \/ membus_save(r) \/ membus_fprintf(r) => Reads
       /\ \A v \in Written : membus_write_byte_to_range(r, v) => Writes
       /\ \A w \in Words : membus_write_word_to_range(r, w[1], w[2]) => Writes
       /\ \A data \in Contents : membus_copy_in_bytes(r, data) \/ membus_load(r, data) => Writes
  <1>1. ASSUME NEW a \in Accessed, membus_read_addr(a) PROVE Reads
    <2>1. <<a>> \in Seq(Addr)
      BY AccessAssumption
    <2> QED
      BY <1>1, <2>1 DEF Reads, membus_read_addr
  <1>2. ASSUME NEW a \in Accessed, NEW v \in Written, membus_write_addr(a, v) PROVE Writes
    <2> DEFINE done == << <<a, v>> >>
    <2>1. done \in Seq(Addr \X Byte)
      BY AccessAssumption
    <2>2. WriteAll(done, done)
      BY <1>2 DEF membus_write_addr
    <2> HIDE DEF done
    <2> QED
      BY <2>1, <2>2, FollowsFacts DEF Writes
  <1>3. ASSUME NEW r \in FillRanges, membus_copy_out_bytes(r) \/ membus_save(r) \/ membus_fprintf(r)
        PROVE  Reads
    <2>1. r \in AddrRanges
      BY AccessAssumption
    <2>2. /\ AddrsTo(r, FillEnd(r)) \in Seq(Addr) /\ AddrsTo(r, FileEnd(r)) \in Seq(Addr)
          /\ AddrsTo(r, End(r)) \in Seq(Addr)
      BY <2>1, EndFacts, AddrsFacts
    <2> QED
      BY <1>3, <2>2 DEF Reads, membus_copy_out_bytes, membus_save, membus_fprintf
  <1>4. ASSUME NEW r \in FillRanges, NEW v \in Written, membus_write_byte_to_range(r, v) PROVE Writes
    <2>1. r \in AddrRanges /\ v \in Byte /\ r.addr_len <= Size /\ r.addr_len \in Nat /\ Size \in Nat
      BY AccessAssumption, RangeTopAssumption DEF AddrRanges, Addr, Size
    <2> DEFINE data == [i \in 1 .. Size |-> v]
    <2>2. \A i \in 1 .. r.addr_len : data[i] \in Byte
      BY <2>1
    <2>3. FillAll(r, data)
      BY <1>4 DEF membus_write_byte_to_range
    <2> HIDE DEF data
    <2> QED
      BY <2>1, <2>2, <2>3, FillWrites
  <1>5. ASSUME NEW r \in FillRanges, NEW w \in Words, membus_write_word_to_range(r, w[1], w[2])
        PROVE  Writes
    <2>1. /\ r \in AddrRanges /\ w[1] \in Byte /\ w[2] \in Byte
          /\ r.addr_len <= Size /\ r.addr_len \in Nat /\ Size \in Nat
      BY AccessAssumption, RangeTopAssumption DEF AddrRanges, Addr, Size
    <2> DEFINE data == [i \in 1 .. Size |-> IF i % 2 = 1 THEN w[1] ELSE w[2]]
    <2>2. \A i \in 1 .. r.addr_len : data[i] \in Byte
      BY <2>1
    <2>3. FillAll(r, data)
      BY <1>5 DEF membus_write_word_to_range
    <2> HIDE DEF data
    <2> QED
      BY <2>1, <2>2, <2>3, FillWrites
  <1>6. ASSUME NEW r \in FillRanges, NEW data \in Contents,
               membus_copy_in_bytes(r, data) \/ membus_load(r, data)
        PROVE  Writes
    <2>1. r \in AddrRanges /\ data \in Seq(Byte) /\ r.addr_len \in Nat /\ Len(data) \in Nat
      BY AccessAssumption, RangeTopAssumption DEF AddrRanges, Addr
    <2>2. CASE membus_copy_in_bytes(r, data)
      <3>1. \A i \in 1 .. r.addr_len : data[i] \in Byte
        BY <2>1, <2>2 DEF membus_copy_in_bytes
      <3> QED
        BY <2>1, <2>2, <3>1, FillWrites DEF membus_copy_in_bytes
    <2>3. CASE membus_load(r, data)
      BY <2>1, <2>3, LoadWrites
    <2> QED
      BY <1>6, <2>2, <2>3
  <1> QED
    BY <1>1, <1>2, <1>3, <1>4, <1>5, <1>6

(* The pops take the byte pushed last from the slot below the index.        *)
LEMMA PopsKeep ==
  ASSUME MemoryInv, membus_rcache_pop \/ membus_wcache_pop
  PROVE  MemoryInv'
  <1>1. CASE membus_rcache_pop
    <2>1. Stack(Front(pushed_r), rcache, DecIdx(rcache_idx)) /\ DecIdx(rcache_idx) \in 0 .. IdxTop
      <3>1. IdxTop \in Nat
        BY CacheAssumption
      <3> QED
        BY <1>1, <3>1, PopStacks DEF MemoryInv, CachesInv, membus_rcache_pop, DecIdx
    <2> QED
      BY <1>1, <2>1 DEF membus_rcache_pop, memVars, MemoryInv, CachesInv
  <1>2. CASE membus_wcache_pop
    <2>1. Stack(Front(pushed_w), wcache, DecIdx(wcache_idx)) /\ DecIdx(wcache_idx) \in 0 .. IdxTop
      <3>1. IdxTop \in Nat
        BY CacheAssumption
      <3> QED
        BY <1>2, <3>1, PopStacks DEF MemoryInv, CachesInv, membus_wcache_pop, DecIdx
    <2> QED
      BY <1>2, <2>1 DEF membus_wcache_pop, memVars, MemoryInv, CachesInv
  <1> QED
    BY <1>1, <1>2

-----------------------------------------------------------------------------
(* Counting a module's places on the bus.                                   *)

(* A function that is one to one and onto keeps the count.                  *)
LEMMA SameCount ==
  ASSUME NEW S, NEW T, NEW f \in [S -> T], IsFiniteSet(S),
         \A a, b \in S : f[a] = f[b] => a = b, \A t \in T : \E s \in S : f[s] = t
  PROVE  IsFiniteSet(T) /\ Cardinality(T) = Cardinality(S)
  <1>1. f \in Bijection(S, T)
    BY DEF Bijection, Injection, Surjection, IsInjective
  <1>2. ExistsBijection(S, T)
    BY <1>1 DEF ExistsBijection
  <1> QED
    BY <1>2, FS_Bijection

Places(s, x) == {j \in DOMAIN s : s[j] = x}
Count(s, x) == Cardinality(Places(s, x))

(* A sequence has each element at a number of places.                       *)
LEMMA CountType ==
  ASSUME NEW s \in Seq(Allocated), NEW x
  PROVE  IsFiniteSet(Places(s, x)) /\ Count(s, x) \in Nat
  <1>1. Places(s, x) \in SUBSET (1 .. Len(s)) /\ Len(s) \in Int
    BY DEF Places
  <1>2. IsFiniteSet(1 .. Len(s))
    BY <1>1, FS_Interval
  <1>3. IsFiniteSet(Places(s, x))
    BY <1>1, <1>2, FS_Subset
  <1> QED
    BY <1>3, FS_CardinalityType DEF Count

(* t is s with e put in at p.                                               *)
Inserted(s, t, p, e, n) ==
  /\ n \in Nat /\ DOMAIN s = 1 .. n /\ DOMAIN t = 1 .. n + 1 /\ p \in 1 .. n + 1
  /\ t[p] = e
  /\ \A i \in 1 .. n : IF i < p THEN t[i] = s[i] ELSE t[i + 1] = s[i]
Shift(p, i) == IF i < p THEN i ELSE i + 1

(* Positions move up by one from where an element is put in.                *)
LEMMA ShiftFacts ==
  ASSUME NEW s, NEW t, NEW p, NEW e, NEW n, Inserted(s, t, p, e, n)
  PROVE  /\ p \in Int /\ p \in DOMAIN t /\ t[p] = e
         /\ \A i \in DOMAIN s : i \in Int /\ Shift(p, i) \in DOMAIN t \ {p} /\ t[Shift(p, i)] = s[i]
         /\ \A i, j \in DOMAIN s : Shift(p, i) = Shift(p, j) => i = j
         /\ \A k \in DOMAIN t \ {p} : \E i \in DOMAIN s : Shift(p, i) = k
  <1>1. p \in 1 .. n + 1 /\ n \in Nat /\ DOMAIN s = 1 .. n /\ DOMAIN t = 1 .. n + 1 /\ t[p] = e
    BY DEF Inserted
  <1>2. ASSUME NEW i \in 1 .. n
        PROVE  Shift(p, i) \in (1 .. n + 1) \ {p} /\ t[Shift(p, i)] = s[i]
    BY <1>1 DEF Shift, Inserted
  <1>3. ASSUME NEW i \in 1 .. n, NEW j \in 1 .. n, Shift(p, i) = Shift(p, j) PROVE i = j
    BY <1>1, <1>3 DEF Shift
  <1>4. ASSUME NEW k \in (1 .. n + 1) \ {p} PROVE \E i \in 1 .. n : Shift(p, i) = k
    <2>1. CASE k < p
      <3>1. k \in 1 .. n /\ Shift(p, k) = k
        BY <1>1, <2>1 DEF Shift
      <3> QED
        BY <3>1
    <2>2. CASE ~ (k < p)
      <3>1. k - 1 \in 1 .. n /\ Shift(p, k - 1) = k
        BY <1>1, <2>2 DEF Shift
      <3> QED
        BY <3>1
    <2> QED
      BY <2>1, <2>2
  <1>5. p \in Int /\ p \in DOMAIN t
    BY <1>1
  <1>6. \A i \in DOMAIN s : i \in Int
    BY <1>1
  <1>7. \A i \in DOMAIN s : Shift(p, i) \in DOMAIN t \ {p} /\ t[Shift(p, i)] = s[i]
    BY <1>1, <1>2
  <1>8. \A i, j \in DOMAIN s : Shift(p, i) = Shift(p, j) => i = j
    BY <1>1, <1>3
  <1>9. \A k \in DOMAIN t \ {p} : \E i \in DOMAIN s : Shift(p, i) = k
    BY <1>1, <1>4
  <1> QED
    BY <1>1, <1>5, <1>6, <1>7, <1>8, <1>9

One(e, x) == IF e = x THEN 1 ELSE 0

(* Putting in an element adds one to its count only.                        *)
LEMMA CountInserted ==
  ASSUME NEW s \in Seq(Allocated), NEW t \in Seq(Allocated), NEW p, NEW e, NEW n,
         Inserted(s, t, p, e, n), NEW x
  PROVE  Count(t, x) = Count(s, x) + One(e, x)
  <1> DEFINE f == [i \in Places(s, x) |-> Shift(p, i)]
             U == Places(t, x) \ {p}
  <1>1. IsFiniteSet(Places(s, x)) /\ IsFiniteSet(Places(t, x)) /\ Count(s, x) \in Nat /\ Count(t, x) \in Nat
    BY CountType
  <1>2. f \in [Places(s, x) -> U]
    BY ShiftFacts DEF Places
  <1>3. \A i, j \in Places(s, x) : f[i] = f[j] => i = j
    BY ShiftFacts DEF Places
  <1>4. \A k \in U : \E i \in Places(s, x) : f[i] = k
    <2> SUFFICES ASSUME NEW k \in U PROVE \E i \in Places(s, x) : Shift(p, i) = k
      OBVIOUS
    <2>1. k \in DOMAIN t \ {p} /\ t[k] = x
      BY DEF Places
    <2>2. PICK i \in DOMAIN s : Shift(p, i) = k
      BY <2>1, ShiftFacts
    <2>3. s[i] = x
      BY <2>1, <2>2, ShiftFacts
    <2> QED
      BY <2>2, <2>3 DEF Places
  <1> HIDE DEF f
  <1>5. Cardinality(U) = Count(s, x)
    <2> HIDE DEF U
    <2> QED
      BY <1>1, <1>2, <1>3, <1>4, SameCount DEF Count
  <1>6. Cardinality(U) = IF p \in Places(t, x) THEN Count(t, x) - 1 ELSE Count(t, x)
    BY <1>1, FS_RemoveElement DEF Count
  <1>7. p \in Places(t, x) <=> e = x
    BY ShiftFacts DEF Places
  <1> QED
    BY <1>1, <1>5, <1>6, <1>7 DEF One

Rows(chains, x) == UNION {{i} \X {j \in DOMAIN chains[i] : chains[i][j] = x} : i \in DOMAIN chains}

(* The positions behind Occurrences.                                        *)
LEMMA RowsFacts ==
  ASSUME NEW chains \in Seq(Seq(Allocated)), NEW x
  PROVE  /\ \A q : q \in Rows(chains, x)
                     <=> \E i \in DOMAIN chains : q \in {i} \X Places(chains[i], x)
         /\ IsFiniteSet(Rows(chains, x)) /\ Occurrences(chains, x) = Cardinality(Rows(chains, x))
         /\ Occurrences(chains, x) \in Nat
  <1> DEFINE Row(i) == {i} \X Places(chains[i], x)
             rows == {Row(i) : i \in DOMAIN chains}
             f == [i \in DOMAIN chains |-> Row(i)]
  <1>1. Rows(chains, x) = UNION rows /\ Occurrences(chains, x) = Cardinality(Rows(chains, x))
    BY DEF Rows, Places, Occurrences
  <1>2. ASSUME NEW q PROVE q \in UNION rows <=> \E i \in DOMAIN chains : q \in Row(i)
    <2> HIDE DEF Row
    <2> QED
      OBVIOUS
  <1>3. IsFiniteSet(rows)
    <2>1. f \in Surjection(DOMAIN chains, rows)
      <3> HIDE DEF Row
      <3> QED
        BY DEF Surjection
    <2>2. IsFiniteSet(DOMAIN chains)
      <3>1. DOMAIN chains = 1 .. Len(chains) /\ Len(chains) \in Int
        OBVIOUS
      <3>2. IsFiniteSet(1 .. Len(chains))
        BY <3>1, FS_Interval
      <3> QED
        BY <3>1, <3>2
    <2> HIDE DEF f, rows
    <2> QED
      BY <2>1, <2>2, FS_Surjection
  <1>4. \A R \in rows : IsFiniteSet(R)
    <2> SUFFICES ASSUME NEW i \in DOMAIN chains PROVE IsFiniteSet(Row(i))
      <3> HIDE DEF Row
      <3> QED
        OBVIOUS
    <2>1. chains[i] \in Seq(Allocated)
      OBVIOUS
    <2>2. IsFiniteSet(Places(chains[i], x)) /\ IsFiniteSet({i})
      BY <2>1, CountType, FS_Singleton
    <2> QED
      BY <2>2, FS_Product
  <1>5. IsFiniteSet(Rows(chains, x))
    <2> HIDE DEF rows
    <2> QED
      BY <1>1, <1>3, <1>4, FS_UNION
  <1> HIDE DEF rows
  <1> QED
    BY <1>1, <1>2, <1>5, FS_CardinalityType

(* Putting in a chain adds its modules.                                     *)
LEMMA OccurrencesInserted ==
  ASSUME NEW c \in Seq(Seq(Allocated)), NEW d \in Seq(Seq(Allocated)), NEW p, NEW e, NEW n,
         Inserted(c, d, p, e, n), NEW x
  PROVE  Occurrences(d, x) = Occurrences(c, x) + Count(e, x)
  <1> DEFINE old == Rows(c, x)
             all == Rows(d, x)
             R == {p} \X Places(e, x)
             U == all \ R
             f == [q \in old |-> <<Shift(p, q[1]), q[2]>>]
             g == [j \in Places(e, x) |-> <<p, j>>]
  <1>1. p \in DOMAIN d /\ d[p] = e
    BY ShiftFacts
  <1>2. /\ \A q : q \in old <=> \E i \in DOMAIN c : q \in {i} \X Places(c[i], x)
        /\ IsFiniteSet(old) /\ Occurrences(c, x) = Cardinality(old) /\ Occurrences(c, x) \in Nat
    BY RowsFacts
  <1>3. /\ \A q : q \in all <=> \E i \in DOMAIN d : q \in {i} \X Places(d[i], x)
        /\ IsFiniteSet(all) /\ Occurrences(d, x) = Cardinality(all) /\ Occurrences(d, x) \in Nat
    BY RowsFacts
  <1> HIDE DEF old, all
  <1>4. Cardinality(R) = Count(e, x)
    <2>1. IsFiniteSet(Places(e, x))
      <3>1. e \in Seq(Allocated)
        BY <1>1
      <3> QED
        BY <3>1, CountType
    <2>2. /\ g \in [Places(e, x) -> R]
          /\ \A i, j \in Places(e, x) : g[i] = g[j] => i = j
          /\ \A r \in R : \E j \in Places(e, x) : g[j] = r
      OBVIOUS
    <2> HIDE DEF g, R
    <2> QED
      BY <2>1, <2>2, SameCount DEF Count
  <1>5. Cardinality(U) = Cardinality(old)
    <2>1. ASSUME NEW q \in old
          PROVE  /\ q = <<q[1], q[2]>> /\ q[1] \in DOMAIN c /\ q[2] \in Places(c[q[1]], x)
                 /\ <<Shift(p, q[1]), q[2]>> \in U
      <3>1. PICK i \in DOMAIN c : q \in {i} \X Places(c[i], x)
        BY <1>2
      <3>2. q = <<i, q[2]>> /\ q[2] \in Places(c[i], x)
        BY <3>1
      <3>3. Shift(p, i) \in DOMAIN d /\ Shift(p, i) # p /\ d[Shift(p, i)] = c[i]
        BY ShiftFacts
      <3>4. <<Shift(p, i), q[2]>> \in {Shift(p, i)} \X Places(d[Shift(p, i)], x)
        BY <3>2, <3>3
      <3>5. <<Shift(p, i), q[2]>> \in all /\ <<Shift(p, i), q[2]>> \notin R
        BY <1>3, <3>3, <3>4
      <3>6. q[1] = i
        BY <3>1
      <3> QED
        BY <3>2, <3>5, <3>6
    <2>2. f \in [old -> U]
      BY <2>1
    <2>3. ASSUME NEW q \in old, NEW r \in old, f[q] = f[r] PROVE q = r
      <3>1. Shift(p, q[1]) = Shift(p, r[1]) /\ q[2] = r[2]
        BY <2>3
      <3>2. q[1] = r[1]
        <4>1. q[1] \in DOMAIN c /\ r[1] \in DOMAIN c
          BY <2>1
        <4>2. \A i, j \in DOMAIN c : Shift(p, i) = Shift(p, j) => i = j
          BY ShiftFacts
        <4> QED
          BY <3>1, <4>1, <4>2
      <3> QED
        BY <2>1, <3>1, <3>2
    <2>4. ASSUME NEW r \in U PROVE \E q \in old : f[q] = r
      <3>1. PICK k \in DOMAIN d : r \in {k} \X Places(d[k], x)
        BY <1>3
      <3>2. r = <<k, r[2]>> /\ r[2] \in Places(d[k], x)
        BY <3>1
      <3>3. k # p
        BY <1>1, <3>1
      <3>4. PICK i \in DOMAIN c : Shift(p, i) = k /\ d[k] = c[i]
        BY <3>3, ShiftFacts
      <3>5. <<i, r[2]>> \in {i} \X Places(c[i], x)
        BY <3>2, <3>4
      <3>6. <<i, r[2]>> \in old
        BY <1>2, <3>5
      <3>7. f[<<i, r[2]>>] = r
        BY <3>2, <3>4, <3>6
      <3> QED
        BY <3>6, <3>7
    <2> HIDE DEF f, U
    <2> QED
      BY <1>2, <2>2, <2>3, <2>4, SameCount
  <1>6. Cardinality(U) = Cardinality(all) - Cardinality(R)
    <2>1. R \subseteq all
      <3> SUFFICES ASSUME NEW r \in R PROVE r \in all
        OBVIOUS
      <3>1. r \in {p} \X Places(d[p], x)
        BY <1>1
      <3> QED
        BY <1>1, <1>3, <3>1
    <2>2. all \cap R = R
      BY <2>1
    <2> HIDE DEF R
    <2>3. Cardinality(all \ R) = Cardinality(all) - Cardinality(all \cap R)
      BY <1>3, FS_Difference
    <2> QED
      BY <2>2, <2>3
  <1>7. Count(e, x) \in Nat
    BY <1>1, CountType
  <1> HIDE DEF U, R
  <1> QED
    BY <1>2, <1>3, <1>4, <1>5, <1>6, <1>7

(* InsertAt puts an element in.                                             *)
LEMMA InsertAtFacts ==
  ASSUME NEW T, NEW s \in Seq(T), NEW e \in T, NEW p \in 1 .. Len(s) + 1
  PROVE  /\ InsertAt(s, p, e) \in Seq(T) /\ Len(InsertAt(s, p, e)) = Len(s) + 1
         /\ Inserted(s, InsertAt(s, p, e), p, e, Len(s))
  <1> DEFINE n == Len(s)
             k == p - 1
             front == SubSeq(s, 1, k)
             back == SubSeq(s, p, n)
             new == front \o <<e>> \o back
  <1>1. n \in Nat /\ k \in Nat /\ k <= n /\ p = k + 1 /\ p \in Nat
    OBVIOUS
  <1>2. front \in Seq(T) /\ Len(front) = k /\ \A i \in 1 .. k : front[i] = s[i]
    <2>1. \A i \in 1 .. k : s[i] \in T
      BY <1>1
    <2> HIDE DEF k
    <2> QED
      BY <1>1, <2>1, PrefixOf
  <1>3. back \in Seq(T) /\ Len(back) = n - k /\ \A i \in 1 .. n - k : back[i] = s[k + i]
    <2>1. back = [i \in 1 .. n - k |-> s[k + i]]
      BY <1>1
    <2>2. \A i \in 1 .. n - k : s[k + i] \in T
      BY <1>1
    <2>3. n - k \in Nat
      BY <1>1
    <2> HIDE DEF back, n, k
    <2> QED
      BY <2>1, <2>2, <2>3
  <1>4. InsertAt(s, p, e) = new
    BY DEF InsertAt
  <1> HIDE DEF front, back, n, k
  <1> DEFINE head == front \o <<e>>
  <1>10. head \in Seq(T) /\ Len(head) = k + 1 /\ head[k + 1] = e /\ \A i \in 1 .. k : head[i] = s[i]
    BY <1>1, <1>2
  <1>11. new = head \o back
    OBVIOUS
  <1> HIDE DEF head, new
  <1>5. new \in Seq(T) /\ Len(new) = n + 1
    <2>1. head \in Seq(T) /\ back \in Seq(T)
      BY <1>3, <1>10
    <2>2. head \o back \in Seq(T) /\ Len(head \o back) = Len(head) + Len(back)
      BY <2>1
    <2>3. Len(head) + Len(back) = n + 1
      BY <1>1, <1>3, <1>10
    <2> QED
      BY <1>11, <2>2, <2>3
  <1>6. new[k + 1] = e /\ \A i \in 1 .. k : new[i] = s[i]
    BY <1>1, <1>3, <1>10, <1>11
  <1>7. ASSUME NEW i \in k + 1 .. n PROVE new[i + 1] = s[i]
    <2>1. i - k \in 1 .. n - k /\ k + (i - k) = i
      BY <1>1
    <2>2. new[i + 1] = back[i - k]
      <3>1. i + 1 \in Len(head) + 1 .. Len(head) + Len(back) /\ (i + 1) - Len(head) = i - k
        BY <1>1, <1>3, <1>10
      <3> QED
        BY <1>3, <1>10, <1>11, <3>1
    <2> QED
      BY <1>3, <2>1, <2>2
  <1>8. DOMAIN s = 1 .. n /\ DOMAIN new = 1 .. n + 1
    BY <1>1, <1>5 DEF n
  <1>9. \A i \in 1 .. n : IF i < p THEN new[i] = s[i] ELSE new[i + 1] = s[i]
    BY <1>1, <1>6, <1>7
  <1> QED
    BY <1>1, <1>4, <1>5, <1>6, <1>8, <1>9 DEF Inserted, n

(* d is c with another element at k.                                        *)
Replaced(c, d, k) ==
  Len(d) = Len(c) /\ k \in 1 .. Len(c) /\ \A i \in 1 .. Len(c) : i # k => d[i] = c[i]

(* Replacing a chain by another changes the count by theirs.                *)
LEMMA OccurrencesReplaced ==
  ASSUME NEW c \in Seq(Seq(Allocated)), NEW d \in Seq(Seq(Allocated)), NEW k, Replaced(c, d, k), NEW x
  PROVE  Occurrences(d, x) - Count(d[k], x) = Occurrences(c, x) - Count(c[k], x)
  <1> DEFINE n == Len(c) - 1
             b == [i \in 1 .. n |-> IF i < k THEN c[i] ELSE c[i + 1]]
  <1>1. n \in Nat /\ k \in 1 .. n + 1 /\ DOMAIN c = 1 .. n + 1 /\ DOMAIN d = 1 .. n + 1 /\ k \in Int
    BY DEF Replaced
  <1>2. b \in Seq(Seq(Allocated)) /\ DOMAIN b = 1 .. n
    <2>1. \A i \in 1 .. n : (IF i < k THEN c[i] ELSE c[i + 1]) \in Seq(Allocated)
      BY <1>1
    <2> DEFINE V == Seq(Allocated)
    <2>2. \A i \in 1 .. n : (IF i < k THEN c[i] ELSE c[i + 1]) \in V
      BY <2>1
    <2> HIDE DEF n, V
    <2>3. b = [i \in 1 .. n |-> IF i < k THEN c[i] ELSE c[i + 1]] /\ n \in Nat
      BY <1>1
    <2> HIDE DEF b
    <2>4. b \in Seq(V) /\ DOMAIN b = 1 .. n
      BY <2>2, <2>3
    <2> QED
      BY <2>4 DEF V
  <1>3. Inserted(b, c, k, c[k], n)
    BY <1>1, <1>2 DEF Inserted
  <1>4. Inserted(b, d, k, d[k], n)
    <2>1. \A i \in 1 .. n : IF i < k THEN d[i] = c[i] ELSE d[i + 1] = c[i + 1]
      BY <1>1 DEF Replaced
    <2> HIDE DEF n
    <2> QED
      BY <1>1, <1>2, <2>1 DEF Inserted
  <1> HIDE DEF b, n
  <1>5. Occurrences(c, x) = Occurrences(b, x) + Count(c[k], x)
    BY <1>2, <1>3, OccurrencesInserted
  <1>6. Occurrences(d, x) = Occurrences(b, x) + Count(d[k], x)
    BY <1>2, <1>4, OccurrencesInserted
  <1>7. c[k] \in Seq(Allocated) /\ d[k] \in Seq(Allocated)
    BY <1>1
  <1>8. Count(c[k], x) \in Nat /\ Count(d[k], x) \in Nat /\ Occurrences(b, x) \in Nat
    BY <1>2, <1>7, CountType, RowsFacts
  <1> QED
    BY <1>5, <1>6, <1>8

(* Indexes of which each has all before it are those up to their number.    *)
LEMMA Beginning ==
  ASSUME NEW n \in Nat, NEW S \in SUBSET (1 .. n), \A i \in S : \A j \in 1 .. i : j \in S
  PROVE  \E k \in 0 .. n : S = 1 .. k /\ Cardinality(S) = k
  <1> DEFINE rest == {i \in 1 .. n + 1 : i \notin S}
  <1>1. rest \subseteq Nat /\ rest # {}
    <2>1. n + 1 \in rest
      OBVIOUS
    <2> QED
      BY <2>1
  <1>2. PICK k \in rest : \A i \in rest : k <= i
    <2> HIDE DEF rest
    <2> QED
      BY <1>1, NatLeast
  <1>3. k \in 1 .. n + 1 /\ k \notin S /\ \A i \in 1 .. n + 1 : i < k => i \in S
    BY <1>2
  <1> HIDE DEF rest
  <1>4. k - 1 \in 0 .. n /\ S = 1 .. k - 1
    <2>1. ASSUME NEW i \in S PROVE i \in 1 .. k - 1
      <3>1. i \in 1 .. n /\ i \in Nat
        OBVIOUS
      <3>2. ~ (k <= i)
        BY <1>3, <3>1
      <3> QED
        BY <1>3, <3>1, <3>2
    <2>2. ASSUME NEW i \in 1 .. k - 1 PROVE i \in S
      BY <1>3
    <2>3. S \subseteq 1 .. k - 1 /\ 1 .. k - 1 \subseteq S
      BY <2>1, <2>2
    <2>4. S = 1 .. k - 1
      BY <2>3, Zenon
    <2>5. k - 1 \in 0 .. n
      BY <1>3
    <2> QED
      BY <2>4, <2>5
  <1>5. Cardinality(1 .. k - 1) = k - 1
    <2> DEFINE m == k - 1
    <2>1. m \in Nat /\ 1 \in Int /\ m \in Int
      BY <1>4
    <2> HIDE DEF m
    <2>2. Cardinality(1 .. m) = IF 1 > m THEN 0 ELSE m - 1 + 1
      BY <2>1, FS_Interval
    <2>3. Cardinality(1 .. m) = m
      BY <2>1, <2>2
    <2> QED
      BY <2>3 DEF m
  <1> QED
    BY <1>4, <1>5

(* The place for a module is before the first that does not begin below it. *)
PlaceFor(chain, m, p) ==
  /\ \A j \in 1 .. p - 1 : Lo(chain[j]) < Lo(m)
  /\ p <= Len(chain) => ~ (Lo(chain[p]) < Lo(m))

(* membus_register_module puts a module in a chain once.                    *)
LEMMA InsertFacts ==
  ASSUME NEW chain \in Seq(Allocated), NEW m \in Allocated
  PROVE  /\ Insert(chain, m) \in Seq(Allocated) /\ Insert(chain, m) # chain
         /\ \A x : Count(Insert(chain, m), x) = Count(chain, x) + One(m, x)
         /\ \E p : Inserted(chain, Insert(chain, m), p, m, Len(chain)) /\ PlaceFor(chain, m, p)
  <1> DEFINE below == {i \in DOMAIN chain : \A j \in 1 .. i : Lo(chain[j]) < Lo(m)}
             p == Cardinality(below) + 1
  <1>1. Len(chain) \in Nat /\ below \in SUBSET (1 .. Len(chain)) /\ DOMAIN chain = 1 .. Len(chain)
    OBVIOUS
  <1>2. PICK k \in 0 .. Len(chain) : below = 1 .. k /\ Cardinality(below) = k
    <2>1. \A i \in below : \A j \in 1 .. i : j \in below
      BY <1>1
    <2> HIDE DEF below
    <2> QED
      BY <1>1, <2>1, Beginning
  <1>3. Insert(chain, m) = InsertAt(chain, p, m)
    BY DEF Insert
  <1>4. p = k + 1 /\ p \in 1 .. Len(chain) + 1 /\ p - 1 = k
    <2> HIDE DEF below
    <2> QED
      BY <1>1, <1>2
  <1>5. PlaceFor(chain, m, p)
    <2>1. ASSUME NEW j \in 1 .. k PROVE Lo(chain[j]) < Lo(m)
      <3>1. j \in below /\ j \in 1 .. j
        BY <1>2
      <3> QED
        BY <3>1
    <2>2. ASSUME k + 1 <= Len(chain), Lo(chain[k + 1]) < Lo(m) PROVE FALSE
      <3>1. \A j \in 1 .. k + 1 : j \in 1 .. k \/ j = k + 1
        OBVIOUS
      <3>2. k + 1 \in below
        BY <1>1, <2>1, <2>2, <3>1
      <3> QED
        BY <1>2, <3>2
    <2> HIDE DEF p
    <2> QED
      BY <1>4, <2>1, <2>2 DEF PlaceFor
  <1> HIDE DEF p
  <1>6. /\ Insert(chain, m) \in Seq(Allocated) /\ Len(Insert(chain, m)) = Len(chain) + 1
        /\ Inserted(chain, Insert(chain, m), p, m, Len(chain))
    BY <1>3, <1>4, InsertAtFacts
  <1> QED
    BY <1>1, <1>5, <1>6, CountInserted

Tiers == [tier : Int, chain : Seq(Allocated)]

(* The chains of the tiers are chains of modules.                           *)
LEMMA TierChainsType ==
  ASSUME NEW tiers \in Seq(Tiers)
  PROVE  /\ TierChains(tiers) \in Seq(Seq(Allocated)) /\ Len(TierChains(tiers)) = Len(tiers)
         /\ DOMAIN TierChains(tiers) = 1 .. Len(tiers)
         /\ \A i \in 1 .. Len(tiers) : /\ TierChains(tiers)[i] = tiers[i].chain
                                       /\ tiers[i] \in Tiers
  <1>1. \A i \in 1 .. Len(tiers) : tiers[i] \in Tiers
    OBVIOUS
  <1>2. Len(tiers) \in Nat /\ DOMAIN tiers = 1 .. Len(tiers)
    OBVIOUS
  <1>3. \A i \in 1 .. Len(tiers) : tiers[i].chain \in Seq(Allocated)
    BY <1>1 DEF Tiers
  <1>4. TierChains(tiers) = [i \in 1 .. Len(tiers) |-> tiers[i].chain]
    BY <1>2 DEF TierChains
  <1> QED
    BY <1>1, <1>2, <1>3, <1>4

(* A tier put in adds its chain.                                            *)
LEMMA TierInserted ==
  ASSUME NEW s \in Seq(Tiers), NEW t \in Seq(Tiers), NEW e \in Tiers, NEW p, Inserted(s, t, p, e, Len(s)), NEW x
  PROVE  Occurrences(TierChains(t), x) = Occurrences(TierChains(s), x) + Count(e.chain, x)
  <1>1. /\ TierChains(s) \in Seq(Seq(Allocated)) /\ DOMAIN TierChains(s) = 1 .. Len(s)
        /\ \A i \in 1 .. Len(s) : TierChains(s)[i] = s[i].chain
    BY TierChainsType
  <1>2. /\ TierChains(t) \in Seq(Seq(Allocated)) /\ DOMAIN TierChains(t) = 1 .. Len(t)
        /\ \A i \in 1 .. Len(t) : TierChains(t)[i] = t[i].chain
    BY TierChainsType
  <1>3. /\ Len(s) \in Nat /\ DOMAIN t = 1 .. Len(s) + 1 /\ p \in 1 .. Len(s) + 1 /\ t[p] = e
        /\ \A i \in 1 .. Len(s) : IF i < p THEN t[i] = s[i] ELSE t[i + 1] = s[i]
    BY DEF Inserted
  <1>4. Len(t) = Len(s) + 1
    BY <1>3
  <1>5. Inserted(TierChains(s), TierChains(t), p, e.chain, Len(s))
    <2>1. ASSUME NEW i \in 1 .. Len(s)
          PROVE  IF i < p THEN TierChains(t)[i] = TierChains(s)[i] ELSE TierChains(t)[i + 1] = TierChains(s)[i]
      <3>1. i \in 1 .. Len(t) /\ i + 1 \in 1 .. Len(t)
        BY <1>3, <1>4
      <3> QED
        BY <1>1, <1>2, <1>3, <3>1
    <2> QED
      BY <1>1, <1>2, <1>3, <1>4, <2>1 DEF Inserted
  <1> QED
    BY <1>1, <1>2, <1>5, OccurrencesInserted

(* The tiers do not share a number.                                         *)
Distinct(tiers) == \A i, j \in DOMAIN tiers : tiers[i].tier = tiers[j].tier => i = j

(* membus_register_module keeps the tiers apart, adds the module once, and  *)
(* otherwise loses chains or none.                                          *)
LEMMA WithTierFacts ==
  ASSUME ChainsInv, NEW tier \in Int, NEW m \in Allocated
  PROVE  /\ WithTier(tier, m) \in Seq(Tiers) /\ Distinct(WithTier(tier, m))
         /\ WithTier(tier, m) # modules
         /\ \A x : Occurrences(TierChains(WithTier(tier, m)), x)
                     <= Occurrences(TierChains(modules), x) + One(m, x)
  <1> DEFINE lower == Cardinality({i \in DOMAIN modules : modules[i].tier < tier})
             here == {i \in DOMAIN modules : modules[i].tier = tier}
             new == [tier |-> tier, chain |-> <<m>>]
             n == Len(modules)
             W == WithTier(tier, m)
  <1>1. /\ modules \in Seq(Tiers) /\ n \in Nat /\ DOMAIN modules = 1 .. n /\ Distinct(modules)
        /\ \A i \in 1 .. n : modules[i] \in Tiers
    <2>1. modules \in Seq(Tiers) /\ Distinct(modules)
      BY DEF ChainsInv, Tiers, Distinct
    <2> QED
      BY <2>1
  <1>2. new \in Tiers /\ new.tier = tier /\ new.chain = <<m>>
    BY DEF Tiers
  <1>3. \A x : Count(<<m>>, x) = One(m, x)
    <2> TAKE x
    <2>1. Places(<<m>>, x) = IF m = x THEN {1} ELSE {}
      BY DEF Places
    <2> QED
      BY <2>1, FS_EmptySet, FS_Singleton DEF Count, One
  <1>4. CASE here # {}
    <2> DEFINE Row(i) == [modules[i] EXCEPT !.chain = Insert(@, m)]
    <2>1. PICK k \in 1 .. n : modules[k].tier = tier /\ here = {k}
      <3>1. PICK k \in here : TRUE
        BY <1>4
      <3>2. \A i \in here : i = k
        BY <3>1 DEF Distinct, ChainsInv
      <3> QED
        BY <1>1, <3>1, <3>2
    <2>2. W = [i \in DOMAIN modules |-> IF i \in here THEN Row(i) ELSE modules[i]]
      BY <1>4 DEF WithTier
    <2> HIDE DEF here
    <2>3. W = [i \in 1 .. n |-> IF i = k THEN Row(k) ELSE modules[i]]
      BY <1>1, <2>1, <2>2
    <2> DEFINE chain == modules[k].chain
               after == Insert(chain, m)
    <2>4. chain \in Seq(Allocated)
      BY <1>1 DEF Tiers
    <2>5. after \in Seq(Allocated) /\ after # chain /\ \A x : Count(after, x) = Count(chain, x) + One(m, x)
      BY <2>4, InsertFacts
    <2>6. Row(k) \in Tiers /\ Row(k).tier = modules[k].tier /\ Row(k).chain = after
      BY <1>1, <2>5 DEF Tiers
    <2> HIDE DEF Row, W, n, chain, after
    <2>7. W \in Seq(Tiers) /\ Len(W) = n /\ DOMAIN W = 1 .. n
      <3>1. \A i \in 1 .. n : (IF i = k THEN Row(k) ELSE modules[i]) \in Tiers
        BY <1>1, <2>6
      <3> QED
        BY <1>1, <2>3, <3>1
    <2>8. \A i \in 1 .. n : W[i].tier = modules[i].tier /\ (i # k => W[i] = modules[i])
      BY <2>3, <2>6
    <2>9. W[k].chain = after
      BY <2>3, <2>6
    <2>10. Distinct(W)
      BY <1>1, <2>7, <2>8 DEF Distinct
    <2>11. W # modules
      BY <2>5, <2>9 DEF chain
    <2>12. ASSUME NEW x
           PROVE  Occurrences(TierChains(W), x) <= Occurrences(TierChains(modules), x) + One(m, x)
      <3> DEFINE c == TierChains(modules)
                 d == TierChains(W)
      <3>1. c \in Seq(Seq(Allocated)) /\ Len(c) = n /\ \A i \in 1 .. n : c[i] = modules[i].chain
        BY <1>1, TierChainsType DEF n
      <3>2. d \in Seq(Seq(Allocated)) /\ Len(d) = n /\ \A i \in 1 .. n : d[i] = W[i].chain
        BY <2>7, TierChainsType
      <3>3. \A i \in 1 .. n : i # k => d[i] = c[i]
        BY <2>8, <3>1, <3>2
      <3>4. c[k] = chain /\ d[k] = after
        BY <2>9, <3>1, <3>2 DEF chain
      <3> HIDE DEF c, d
      <3>5. Occurrences(d, x) - Count(d[k], x) = Occurrences(c, x) - Count(c[k], x)
        <4>1. Replaced(c, d, k)
          BY <3>1, <3>2, <3>3 DEF Replaced
        <4>2. c \in Seq(Seq(Allocated)) /\ d \in Seq(Seq(Allocated))
          BY <3>1, <3>2
        <4> QED
          BY <4>1, <4>2, OccurrencesReplaced
      <3>6. /\ Occurrences(d, x) \in Nat /\ Occurrences(c, x) \in Nat /\ Count(chain, x) \in Nat
            /\ One(m, x) \in Nat
        BY <2>4, <3>1, <3>2, CountType, RowsFacts DEF One
      <3>7. Count(after, x) = Count(chain, x) + One(m, x)
        BY <2>5
      <3>8. Occurrences(d, x) <= Occurrences(c, x) + One(m, x)
        BY <3>4, <3>5, <3>6, <3>7
      <3> QED
        BY <3>8 DEF c, d
    <2> QED
      BY <2>7, <2>10, <2>11, <2>12 DEF W
  <1>5. CASE here = {} /\ lower > 0
    <2>1. W = InsertAt(modules, lower + 1, new)
      BY <1>5 DEF WithTier
    <2>2. lower \in Nat /\ lower <= n
      <3> DEFINE B == {i \in DOMAIN modules : modules[i].tier < tier}
      <3>1. B \in SUBSET (1 .. n)
        BY <1>1
      <3> HIDE DEF n, B
      <3>2. IsFiniteSet(1 .. n) /\ Cardinality(1 .. n) = IF 1 > n THEN 0 ELSE n - 1 + 1
        BY <1>1, FS_Interval
      <3>3. IsFiniteSet(B) /\ Cardinality(B) <= Cardinality(1 .. n)
        BY <3>1, <3>2, FS_Subset
      <3>4. Cardinality(B) \in Nat
        BY <3>3, FS_CardinalityType
      <3>5. lower = Cardinality(B)
        BY DEF B
      <3> HIDE DEF lower
      <3> QED
        BY <1>1, <3>2, <3>3, <3>4, <3>5
    <2>3. \A i \in 1 .. n : modules[i].tier # tier
      BY <1>1, <1>5
    <2> DEFINE p == lower + 1
    <2>4. p \in 1 .. n + 1 /\ p \in Int
      <3> HIDE DEF lower, n
      <3> QED
        BY <1>1, <2>2
    <2> HIDE DEF lower, here, new, p
    <2>5. W \in Seq(Tiers) /\ Len(W) = n + 1 /\ Inserted(modules, W, p, new, n)
      BY <1>1, <1>2, <2>1, <2>4, InsertAtFacts DEF p
    <2> HIDE DEF W, n
    <2>6. Distinct(W)
      <3>1. DOMAIN W = 1 .. n + 1 /\ DOMAIN modules = 1 .. n /\ W[p] = new
        BY <1>1, <2>5 DEF Inserted
      <3>2. \A i \in DOMAIN W \ {p} : \E j \in DOMAIN modules : Shift(p, j) = i /\ W[i] = modules[j]
        <4>1. Inserted(modules, W, p, new, n)
          BY <2>5
        <4>2. \A j \in DOMAIN modules : W[Shift(p, j)] = modules[j]
          BY <4>1, ShiftFacts
        <4>3. \A i \in DOMAIN W \ {p} : \E j \in DOMAIN modules : Shift(p, j) = i
          BY <4>1, ShiftFacts
        <4> QED
          BY <4>2, <4>3
      <3> SUFFICES ASSUME NEW i \in DOMAIN W, NEW j \in DOMAIN W, W[i].tier = W[j].tier PROVE i = j
        BY DEF Distinct
      <3>3. CASE i = p /\ j # p
        BY <1>1, <1>2, <2>3, <3>1, <3>2, <3>3
      <3>4. CASE i # p /\ j = p
        BY <1>1, <1>2, <2>3, <3>1, <3>2, <3>4
      <3>5. CASE i # p /\ j # p
        <4>1. PICK y \in DOMAIN modules : Shift(p, y) = i /\ W[i] = modules[y]
          BY <3>2, <3>5
        <4>2. PICK z \in DOMAIN modules : Shift(p, z) = j /\ W[j] = modules[z]
          BY <3>2, <3>5
        <4> QED
          BY <1>1, <4>1, <4>2 DEF Distinct
      <3> QED
        BY <3>3, <3>4, <3>5
    <2>7. W # modules
      BY <1>1, <2>5 DEF n
    <2>8. ASSUME NEW x
          PROVE  Occurrences(TierChains(W), x) <= Occurrences(TierChains(modules), x) + One(m, x)
      <3>1. Occurrences(TierChains(W), x) = Occurrences(TierChains(modules), x) + Count(new.chain, x)
        BY <1>1, <1>2, <2>5, TierInserted DEF n
      <3>2. Occurrences(TierChains(W), x) \in Nat
        BY <2>5, TierChainsType, RowsFacts
      <3> QED
        BY <1>2, <1>3, <3>1, <3>2
    <2> QED
      BY <2>5, <2>6, <2>7, <2>8 DEF W
  <1>6. CASE here = {} /\ ~ (lower > 0)
    <2>1. W = <<new>>
      BY <1>6 DEF WithTier
    <2>2. W \in Seq(Tiers) /\ Len(W) = 1 /\ W[1] = new /\ DOMAIN W = {1}
      BY <1>2, <2>1
    <2>3. Distinct(W)
      BY <2>2 DEF Distinct
    <2>4. W # modules
      <3>1. SUFFICES ASSUME W = modules PROVE FALSE
        OBVIOUS
      <3>2. 1 \in DOMAIN modules /\ modules[1].tier = tier
        BY <1>2, <2>2, <3>1
      <3> QED
        BY <1>6, <3>2
    <2>5. ASSUME NEW x
          PROVE  Occurrences(TierChains(W), x) <= Occurrences(TierChains(modules), x) + One(m, x)
      <3> DEFINE none == <<>>
      <3>1. none \in Seq(Tiers) /\ Len(none) = 0
        OBVIOUS
      <3>2. Inserted(none, W, 1, new, Len(none))
        BY <2>1 DEF Inserted
      <3>3. Occurrences(TierChains(none), x) = 0
        <4>1. Rows(TierChains(none), x) = {}
          BY DEF Rows, TierChains
        <4>2. TierChains(none) \in Seq(Seq(Allocated))
          BY <3>1, TierChainsType
        <4> QED
          BY <4>1, <4>2, RowsFacts, FS_EmptySet
      <3> HIDE DEF none, W, new
      <3>4. Occurrences(TierChains(W), x) = 0 + One(m, x)
        <4>1. Occurrences(TierChains(W), x) = Occurrences(TierChains(none), x) + Count(new.chain, x)
          <5>1. new \in Tiers /\ W \in Seq(Tiers) /\ none \in Seq(Tiers)
            BY <1>2, <2>2, <3>1
          <5> QED
            BY <3>2, <5>1, TierInserted
        <4> QED
          BY <1>2, <1>3, <3>3, <4>1
      <3>5. Occurrences(TierChains(modules), x) \in Nat /\ One(m, x) \in Nat
        BY <1>1, TierChainsType, RowsFacts DEF One
      <3> QED
        BY <3>4, <3>5
    <2> HIDE DEF W
    <2> QED
      BY <2>2, <2>3, <2>4, <2>5 DEF W
  <1> QED
    BY <1>4, <1>5, <1>6

(* Putting sequences together adds their counts.                            *)
LEMMA CountConcat ==
  ASSUME NEW a \in Seq(Allocated), NEW b \in Seq(Allocated), NEW x
  PROVE  Count(a \o b, x) = Count(a, x) + Count(b, x)
  <1> DEFINE n == Len(a)
             new == a \o b
             all == Places(new, x)
             front == Places(a, x)
             back == all \ front
             f == [j \in Places(b, x) |-> n + j]
  <1>1. n \in Nat /\ DOMAIN a = 1 .. n /\ Len(b) \in Nat /\ DOMAIN b = 1 .. Len(b)
    OBVIOUS
  <1>2. /\ new \in Seq(Allocated) /\ DOMAIN new = 1 .. n + Len(b)
        /\ \A i \in 1 .. n : new[i] = a[i]
        /\ \A j \in 1 .. Len(b) : new[n + j] = b[j]
    <2>1. new \in Seq(Allocated) /\ Len(new) = n + Len(b)
      OBVIOUS
    <2>2. \A i \in 1 .. Len(new) : new[i] = IF i <= Len(a) THEN a[i] ELSE b[i - Len(a)]
      BY ConcatProperties
    <2> HIDE DEF new
    <2>3. DOMAIN new = 1 .. n + Len(b)
      BY <2>1
    <2>4. \A j \in 1 .. Len(b) : n + j \in 1 .. Len(new) /\ ~ (n + j <= Len(a)) /\ (n + j) - Len(a) = j
      BY <1>1, <2>1
    <2>5. \A j \in 1 .. Len(b) : new[n + j] = b[j]
      <3> TAKE j \in 1 .. Len(b)
      <3>1. new[n + j] = b[(n + j) - Len(a)] /\ (n + j) - Len(a) = j
        BY <2>2, <2>4
      <3> QED
        BY <3>1
    <2>6. \A i \in 1 .. n : i \in 1 .. Len(new) /\ i <= Len(a)
      BY <1>1, <2>1
    <2>7. \A i \in 1 .. n : new[i] = a[i]
      BY <2>2, <2>6
    <2> QED
      BY <2>1, <2>3, <2>5, <2>7
  <1> HIDE DEF new
  <1>3. front \subseteq all
    BY <1>1, <1>2 DEF Places
  <1>4. /\ IsFiniteSet(front) /\ IsFiniteSet(Places(b, x)) /\ IsFiniteSet(all)
        /\ Count(a, x) \in Nat /\ Count(b, x) \in Nat /\ Count(new, x) \in Nat
    BY <1>2, CountType
  <1>5. \A j \in Places(b, x) : n + j \in back
    BY <1>1, <1>2 DEF Places
  <1>6. \A k \in back : \E j \in Places(b, x) : n + j = k
    <2> SUFFICES ASSUME NEW k \in back PROVE \E j \in Places(b, x) : n + j = k
      OBVIOUS
    <2>1. k \in 1 .. n + Len(b) /\ new[k] = x /\ k \notin front
      BY <1>2 DEF Places
    <2>2. ~ (k <= n)
      BY <1>1, <1>2, <2>1 DEF Places
    <2>3. k - n \in 1 .. Len(b) /\ n + (k - n) = k
      BY <1>1, <2>1, <2>2
    <2>4. k - n \in Places(b, x)
      BY <1>1, <1>2, <2>1, <2>3 DEF Places
    <2> QED
      BY <2>3, <2>4
  <1>7. \A i, j \in Places(b, x) : n + i = n + j => i = j
    BY <1>1 DEF Places
  <1>8. /\ f \in [Places(b, x) -> back]
        /\ \A i, j \in Places(b, x) : f[i] = f[j] => i = j
        /\ \A k \in back : \E j \in Places(b, x) : f[j] = k
    <2> HIDE DEF back
    <2>1. \A j \in Places(b, x) : f[j] = n + j
      OBVIOUS
    <2>2. f \in [Places(b, x) -> back]
      BY <1>5
    <2> HIDE DEF f
    <2> QED
      BY <1>6, <1>7, <2>1, <2>2
  <1> HIDE DEF f, all, front, back
  <1>9. Cardinality(back) = Count(b, x)
    <2> DEFINE S == Places(b, x)
    <2>1. /\ f \in [S -> back] /\ IsFiniteSet(S)
          /\ \A i, j \in S : f[i] = f[j] => i = j
          /\ \A k \in back : \E j \in S : f[j] = k
      BY <1>4, <1>8
    <2> HIDE DEF S
    <2>2. Cardinality(back) = Cardinality(S)
      BY <2>1, SameCount
    <2> QED
      BY <2>2 DEF Count, S
  <1>10. Cardinality(all \ front) = Cardinality(all) - Cardinality(all \cap front) /\ all \cap front = front
    BY <1>3, <1>4, FS_Difference
  <1>11. Count(new, x) = Cardinality(all) /\ Count(a, x) = Cardinality(front) /\ back = all \ front
    BY DEF Count, all, front, back
  <1>12. Count(b, x) = Count(new, x) - Count(a, x)
    BY <1>9, <1>10, <1>11
  <1>13. Count(new, x) = Count(a, x) + Count(b, x)
    BY <1>4, <1>12
  <1> QED
    BY <1>13 DEF new

(* The beginning of a sequence of chains.                                   *)
Begin(c, i) == [j \in 1 .. i |-> c[j]]

(* The chain after them adds its modules.                                   *)
LEMMA BeginFacts ==
  ASSUME NEW c \in Seq(Seq(Allocated)), NEW x
  PROVE  /\ Occurrences(Begin(c, 0), x) = 0
         /\ Begin(c, Len(c)) = c
         /\ \A i \in 1 .. Len(c) : Occurrences(Begin(c, i), x) = Occurrences(Begin(c, i - 1), x) + Count(c[i], x)
  <1>1. ASSUME NEW i \in 0 .. Len(c) PROVE Begin(c, i) \in Seq(Seq(Allocated)) /\ DOMAIN Begin(c, i) = 1 .. i
    <2> DEFINE V == Seq(Allocated)
    <2>1. i \in Nat /\ \A j \in 1 .. i : c[j] \in V
      OBVIOUS
    <2> HIDE DEF V
    <2>2. [j \in 1 .. i |-> c[j]] \in Seq(V)
      BY <2>1
    <2> QED
      BY <2>1, <2>2 DEF V, Begin
  <1>2. Occurrences(Begin(c, 0), x) = 0
    <2>1. Rows(Begin(c, 0), x) = {}
      BY DEF Rows, Begin
    <2> QED
      BY <1>1, <2>1, RowsFacts, FS_EmptySet
  <1>3. Begin(c, Len(c)) = c
    BY DEF Begin
  <1>4. ASSUME NEW i \in 1 .. Len(c)
        PROVE  Occurrences(Begin(c, i), x) = Occurrences(Begin(c, i - 1), x) + Count(c[i], x)
    <2> DEFINE k == i - 1
    <2>1. k \in Nat /\ i = k + 1 /\ k \in 0 .. Len(c) /\ i \in 0 .. Len(c)
      OBVIOUS
    <2> HIDE DEF k
    <2>2. Inserted(Begin(c, k), Begin(c, i), i, c[i], k)
      BY <2>1 DEF Inserted, Begin
    <2>3. Begin(c, k) \in Seq(Seq(Allocated)) /\ Begin(c, i) \in Seq(Seq(Allocated))
      BY <1>1, <2>1
    <2> QED
      BY <2>2, <2>3, OccurrencesInserted DEF k
  <1> QED
    BY <1>2, <1>3, <1>4

(* Putting the chains one behind the other keeps the count.                 *)
LEMMA FlattenFacts ==
  ASSUME NEW c \in Seq(Seq(Allocated))
  PROVE  FlattenSeq(c) \in Seq(Allocated) /\ \A x : Count(FlattenSeq(c), x) = Occurrences(c, x)
  <1> DEFINE n == Len(c)
             V == Seq(Allocated)
             Next1(g, i) == IF i = 1 THEN c[i] ELSE g[i - 1] \o c[i]
             Has(k) == \E g \in [1 .. k -> V] : \A i \in 1 .. k : g[i] = Next1(g, i)
             flatten == CHOOSE g : g = [i \in 1 .. n |-> Next1(g, i)]
             S == {k \in Nat : k <= n => Has(k)}
  <1>1. n \in Nat /\ \A i \in 1 .. n : c[i] \in V
    OBVIOUS
  <1>2. 0 \in S
    <2> DEFINE g == [i \in 1 .. 0 |-> <<>>]
    <2>1. g \in [1 .. 0 -> V] /\ \A i \in 1 .. 0 : g[i] = Next1(g, i)
      OBVIOUS
    <2> HIDE DEF g, Next1
    <2>2. Has(0)
      BY <2>1
    <2> HIDE DEF Has
    <2> QED
      BY <2>2
  <1>3. ASSUME NEW k \in Nat, k \in S PROVE k + 1 \in S
    <2> SUFFICES ASSUME k + 1 <= n PROVE Has(k + 1)
      <3> HIDE DEF Has
      <3> QED
        OBVIOUS
    <2>1. Has(k)
      <3> HIDE DEF Has
      <3> QED
        BY <1>1, <1>3
    <2>2. PICK g \in [1 .. k -> V] : \A i \in 1 .. k : g[i] = Next1(g, i)
      BY <2>1
    <2> DEFINE h == [i \in 1 .. k + 1 |-> IF i <= k THEN g[i] ELSE Next1(g, i)]
    <2>3. Next1(g, k + 1) \in V
      <3>1. c[k + 1] \in V
        BY <1>1
      <3>2. k # 0 => g[k] \in V
        BY <2>2
      <3> QED
        BY <3>1, <3>2
    <2>4. h \in [1 .. k + 1 -> V]
      <3> HIDE DEF Next1
      <3> SUFFICES ASSUME NEW i \in 1 .. k + 1 PROVE (IF i <= k THEN g[i] ELSE Next1(g, i)) \in V
        OBVIOUS
      <3>1. i <= k => g[i] \in V
        BY <2>2
      <3>2. ~ (i <= k) => i = k + 1
        OBVIOUS
      <3> HIDE DEF V
      <3> QED
        BY <2>3, <3>1, <3>2
    <2>5. ASSUME NEW i \in 1 .. k + 1 PROVE h[i] = Next1(h, i)
      <3>1. i # 1 => i - 1 \in 1 .. k /\ h[i - 1] = g[i - 1]
        BY <2>2
      <3>2. Next1(h, i) = Next1(g, i)
        <4> HIDE DEF h
        <4> QED
          BY <3>1
      <3>3. h[i] = Next1(g, i)
        <4> HIDE DEF Next1
        <4> QED
          BY <2>2
      <3> HIDE DEF h, Next1
      <3> QED
        BY <3>2, <3>3
    <2> HIDE DEF h, Next1
    <2> QED
      BY <2>4, <2>5
  <1>4. Has(n)
    <2> HIDE DEF Has, n
    <2>1. \A k \in Nat : k \in S
      <3> HIDE DEF S
      <3> QED
        BY <1>2, <1>3, NatInduct
    <2> QED
      BY <1>1, <2>1
  <1>5. flatten = [i \in 1 .. n |-> Next1(flatten, i)]
    <2>1. PICK g \in [1 .. n -> V] : \A i \in 1 .. n : g[i] = Next1(g, i)
      BY <1>4
    <2> HIDE DEF Next1, n
    <2>2. g = [i \in 1 .. n |-> Next1(g, i)]
      BY <2>1
    <2> QED
      BY <2>2, Zenon
  <1>6. FlattenSeq(c) = IF n = 0 THEN c ELSE flatten[n]
    BY DEF FlattenSeq
  <1>7. \A i \in 1 .. n : flatten[i] = Next1(flatten, i)
    <2> HIDE DEF flatten, Next1
    <2> QED
      BY <1>5
  <1> HIDE DEF flatten
  <1>8. ASSUME NEW x
        PROVE  \A i \in Nat : i \in 1 .. n => flatten[i] \in V /\ Count(flatten[i], x) = Occurrences(Begin(c, i), x)
    <2> DEFINE Q(i) == i \in 1 .. n => flatten[i] \in V /\ Count(flatten[i], x) = Occurrences(Begin(c, i), x)
               P == {i \in Nat : Q(i)}
    <2>1. 0 \in P
      OBVIOUS
    <2>2. ASSUME NEW i \in Nat, i \in P PROVE i + 1 \in P
      <3> SUFFICES ASSUME i + 1 \in 1 .. n
                   PROVE  /\ flatten[i + 1] \in V
                          /\ Count(flatten[i + 1], x) = Occurrences(Begin(c, i + 1), x)
        OBVIOUS
      <3>1. Occurrences(Begin(c, i + 1), x) = Occurrences(Begin(c, i), x) + Count(c[i + 1], x)
        <4>1. (i + 1) - 1 = i
          OBVIOUS
        <4> QED
          BY <4>1, BeginFacts
      <3>2. c[i + 1] \in V
        BY <1>1
      <3>3. CASE i = 0
        <4>1. flatten[i + 1] = c[i + 1]
          BY <1>7, <3>3
        <4>2. Occurrences(Begin(c, i), x) = 0
          BY <3>3, BeginFacts
        <4>3. Count(c[i + 1], x) \in Nat
          BY <3>2, CountType
        <4> QED
          BY <3>1, <3>2, <4>1, <4>2, <4>3
      <3>4. CASE i # 0
        <4>1. flatten[i + 1] = flatten[i] \o c[i + 1]
          <5>1. (i + 1) - 1 = i /\ i + 1 # 1
            BY <3>4
          <5> QED
            BY <1>7, <5>1
        <4>2. flatten[i] \in V /\ Count(flatten[i], x) = Occurrences(Begin(c, i), x)
          BY <2>2, <3>4
        <4>3. Count(flatten[i] \o c[i + 1], x) = Count(flatten[i], x) + Count(c[i + 1], x)
          BY <3>2, <4>2, CountConcat
        <4> QED
          BY <3>1, <3>2, <4>1, <4>2, <4>3
      <3> QED
        BY <3>3, <3>4
    <2> HIDE DEF P
    <2>3. \A i \in Nat : i \in P
      BY <2>1, <2>2, NatInduct
    <2> QED
      BY <2>3 DEF P
  <1>9. CASE n = 0
    <2>1. c = <<>> /\ FlattenSeq(c) = c
      BY <1>6, <1>9
    <2>2. ASSUME NEW x PROVE Count(FlattenSeq(c), x) = Occurrences(c, x)
      <3>1. Places(c, x) = {} /\ Rows(c, x) = {}
        BY <2>1 DEF Places, Rows
      <3>2. Count(c, x) = 0 /\ Occurrences(c, x) = 0
        BY <3>1, RowsFacts, FS_EmptySet DEF Count
      <3> QED
        BY <2>1, <3>2
    <2>3. FlattenSeq(c) \in Seq(Allocated)
      <3>1. <<>> \in Seq(Allocated) /\ FlattenSeq(c) = <<>>
        BY <2>1
      <3> QED
        BY <3>1, Zenon
    <2> QED
      BY <2>2, <2>3
  <1>10. CASE n # 0
    <2>1. FlattenSeq(c) = flatten[n] /\ n \in 1 .. n /\ n \in Nat
      BY <1>1, <1>6, <1>10
    <2>2. \A x : flatten[n] \in V /\ Count(flatten[n], x) = Occurrences(Begin(c, n), x)
      BY <1>8, <2>1
    <2>3. \A x : Begin(c, n) = c
      BY BeginFacts
    <2> QED
      BY <2>1, <2>2, <2>3
  <1> QED
    BY <1>9, <1>10

-----------------------------------------------------------------------------
(* Reference counts.                                                        *)

(* Only the mirrors of a module depend on its life.                         *)
LEMMA MirrorFacts ==
  ASSUME NEW x \in Module, NEW gone
  PROVE  /\ Mirrors(x, gone) \in Nat
         /\ \A m \in Module : Kind(m) # "mirror" \/ Decl[m].of # x => Mirrors(x, gone \cup {m}) = Mirrors(x, gone)
         /\ \A m \in Allocated \ gone : Kind(m) = "mirror" /\ Decl[m].of = x =>
               Mirrors(x, gone) >= 1 /\ Mirrors(x, gone \cup {m}) = Mirrors(x, gone) - 1
  <1> DEFINE all == MirrorsOf[x]
             left == all \ gone
  <1>1. all = {y \in Allocated : Kind(y) = "mirror" /\ Decl[y].of = x}
    BY DEF MirrorsOf
  <1>2. IsFiniteSet(left)
    <2>1. left \in SUBSET Module
      BY <1>1 DEF Allocated
    <2> QED
      BY <2>1, ModuleAssumption, FS_Subset
  <1>3. Mirrors(x, gone) = Cardinality(left) /\ Cardinality(left) \in Nat
    BY <1>2, FS_CardinalityType DEF Mirrors
  <1>4. ASSUME NEW m \in Module, Kind(m) # "mirror" \/ Decl[m].of # x
        PROVE  Mirrors(x, gone \cup {m}) = Mirrors(x, gone)
    <2>1. m \notin all
      BY <1>1, <1>4
    <2>2. all \ (gone \cup {m}) = left
      BY <2>1
    <2> QED
      BY <2>2 DEF Mirrors
  <1>5. ASSUME NEW m \in Allocated \ gone, Kind(m) = "mirror", Decl[m].of = x
        PROVE  Mirrors(x, gone) >= 1 /\ Mirrors(x, gone \cup {m}) = Mirrors(x, gone) - 1
    <2>1. m \in left
      BY <1>1, <1>5
    <2>2. all \ (gone \cup {m}) = left \ {m}
      OBVIOUS
    <2> HIDE DEF left, all
    <2>3. Cardinality(left \ {m}) = Cardinality(left) - 1 /\ IsFiniteSet(left \ {m})
      BY <1>2, <2>1, FS_RemoveElement
    <2>4. Cardinality(left \ {m}) \in Nat
      BY <2>3, FS_CardinalityType
    <2>5. Mirrors(x, gone \cup {m}) = Cardinality(left \ {m})
      BY <2>2 DEF Mirrors, all
    <2> QED
      BY <1>3, <2>3, <2>4, <2>5
  <1> QED
    BY <1>3, <1>4, <1>5

(* own is the number of references that are not a mirror's, used are the    *)
(* modules that somebody gave up.                                           *)
Accounts(refs, gone, own, used) ==
  /\ refs \in [Module -> Nat] /\ gone \subseteq Module /\ own \in [Module -> Nat]
  /\ \A x \in Module : /\ refs[x] = own[x] + Mirrors(x, gone)
                       /\ x \in gone => refs[x] = 0
                       /\ x \in used /\ refs[x] = 0 => x \in gone

(* membus_module_release keeps the accounts: what it frees gives up its     *)
(* original in the same call.                                               *)
LEMMA ReleasedKeeps ==
  ASSUME NEW refs, NEW gone, NEW own, NEW used, Accounts(refs, gone, own, used),
         NEW m \in Allocated, own[m] >= 1
  PROVE  Accounts(Released(refs, gone, m).refs, Released(refs, gone, m).freed,
                  [own EXCEPT ![m] = @ - 1], used)
  <1> DEFINE r1 == Decrement(refs, m)
             t == Target(m)
             less == [own EXCEPT ![m] = @ - 1]
             after == Released(refs, gone, m)
  <1>0. m \in Module /\ t \in Module /\ Kind(t) # "mirror" /\ (t # m => Kind(m) = "mirror" /\ Decl[m].of = t)
        /\ (t = m => Kind(m) # "mirror")
    BY SpanFacts DEF Allocated, Target
  <1>1. /\ refs \in [Module -> Nat] /\ gone \subseteq Module /\ own \in [Module -> Nat]
        /\ \A x \in Module : /\ refs[x] = own[x] + Mirrors(x, gone)
                             /\ x \in gone => refs[x] = 0
                             /\ x \in used /\ refs[x] = 0 => x \in gone
                             /\ Mirrors(x, gone) \in Nat
    BY MirrorFacts DEF Accounts
  <1>2. less \in [Module -> Nat] /\ less[m] = own[m] - 1 /\ \A x \in Module : x # m => less[x] = own[x]
    BY <1>0, <1>1
  <1>3. refs[m] >= 1 /\ m \notin gone
    BY <1>0, <1>1
  <1>4. r1 \in [Module -> Nat] /\ r1[m] = refs[m] - 1 /\ \A x \in Module : x # m => r1[x] = refs[x]
    BY <1>0, <1>1, <1>3 DEF Decrement
  <1> HIDE DEF r1, t, less
  <1>5. CASE r1[m] # 0
    <2>1. after.refs = r1 /\ after.freed = gone
      BY <1>5 DEF Released, r1
    <2>2. ASSUME NEW x \in Module
          PROVE  /\ r1[x] = less[x] + Mirrors(x, gone)
                 /\ x \in gone => r1[x] = 0
                 /\ x \in used /\ r1[x] = 0 => x \in gone
      BY <1>0, <1>1, <1>2, <1>3, <1>4, <1>5
    <2> HIDE DEF after
    <2> QED
      BY <1>1, <1>2, <1>4, <2>1, <2>2 DEF Accounts, less, after
  <1>6. CASE r1[m] = 0 /\ t = m
    <2>1. after.refs = r1 /\ after.freed = gone \cup {m}
      BY <1>6 DEF Released, r1, t
    <2>2. ASSUME NEW x \in Module
          PROVE  /\ r1[x] = less[x] + Mirrors(x, gone \cup {m})
                 /\ x \in gone \cup {m} => r1[x] = 0
                 /\ x \in used /\ r1[x] = 0 => x \in gone \cup {m}
      <3>1. Mirrors(x, gone \cup {m}) = Mirrors(x, gone)
        BY <1>0, <1>6, MirrorFacts
      <3> QED
        BY <1>0, <1>1, <1>2, <1>4, <1>6, <3>1
    <2>3. gone \cup {m} \subseteq Module
      BY <1>0, <1>1
    <2> HIDE DEF after
    <2> QED
      BY <1>2, <1>4, <2>1, <2>2, <2>3 DEF Accounts, less, after
  <1>7. CASE r1[m] = 0 /\ t # m
    <2> DEFINE r2 == Decrement(r1, t)
               f1 == gone \cup {m}
               f2 == IF r2[t] = 0 THEN f1 \cup {t} ELSE f1
    <2>1. after.refs = r2 /\ after.freed = f2
      BY <1>7 DEF Released, r1, t
    <2>2. Mirrors(t, gone) >= 1 /\ Mirrors(t, f1) = Mirrors(t, gone) - 1
      BY <1>0, <1>3, <1>7, MirrorFacts
    <2>3. /\ r2 \in [Module -> Nat] /\ r2[t] = refs[t] - 1 /\ r2[m] = 0
          /\ \A x \in Module : x # m /\ x # t => r2[x] = refs[x]
      <3>1. refs[t] >= 1 /\ r1[t] = refs[t]
        <4>1. refs[t] = own[t] + Mirrors(t, gone) /\ own[t] \in Nat /\ Mirrors(t, gone) \in Nat
          BY <1>0, <1>1
        <4> QED
          BY <1>0, <1>4, <1>7, <2>2, <4>1
      <3>2. r2 = [r1 EXCEPT ![t] = r1[t] - 1]
        BY DEF Decrement
      <3> HIDE DEF r2
      <3>3. r2 \in [Module -> Nat] /\ r2[t] = r1[t] - 1 /\ \A x \in Module : x # t => r2[x] = r1[x]
        <4>1. r1[t] - 1 \in Nat
          BY <1>0, <1>4, <3>1
        <4> QED
          BY <1>0, <1>4, <3>2, <4>1
      <3> QED
        BY <1>0, <1>4, <1>7, <3>1, <3>3
    <2>4. \A x \in Module : x # t => Mirrors(x, f1) = Mirrors(x, gone)
      BY <1>0, <1>7, MirrorFacts
    <2> HIDE DEF r2, f1
    <2>5. \A x \in Module : Mirrors(x, f2) = Mirrors(x, f1)
      BY <1>0, MirrorFacts
    <2>6. t \notin gone
      BY <1>0, <1>1, <2>2
    <2>7. ASSUME NEW x \in Module
          PROVE  /\ r2[x] = less[x] + Mirrors(x, f2)
                 /\ x \in f2 => r2[x] = 0
                 /\ x \in used /\ r2[x] = 0 => x \in f2
      <3>1. x \in f2 <=> x \in gone \/ x = m \/ (x = t /\ r2[t] = 0)
        BY DEF f1
      <3>2. CASE x = m
        <4>1. less[m] = 0 /\ Mirrors(m, f2) = 0
          <5>1. /\ refs[m] = own[m] + Mirrors(m, gone) /\ own[m] \in Nat /\ Mirrors(m, gone) \in Nat
                /\ Mirrors(m, f2) = Mirrors(m, gone)
            BY <1>0, <1>1, <1>7, <2>4, <2>5
          <5>2. refs[m] - 1 = 0 /\ less[m] = own[m] - 1
            BY <1>2, <1>4, <1>7
          <5> QED
            BY <5>1, <5>2
        <4> QED
          BY <2>3, <3>1, <3>2, <4>1
      <3>3. CASE x = t
        <4>1. /\ refs[t] = own[t] + Mirrors(t, gone) /\ own[t] \in Nat /\ Mirrors(t, gone) \in Nat
              /\ Mirrors(t, f2) = Mirrors(t, gone) - 1 /\ less[t] = own[t]
          BY <1>0, <1>1, <1>2, <1>7, <2>2, <2>5
        <4>2. r2[t] = less[t] + Mirrors(t, f2)
          BY <2>3, <4>1
        <4>3. x \in f2 <=> r2[t] = 0
          BY <1>7, <2>6, <3>1, <3>3
        <4> QED
          BY <3>3, <4>2, <4>3
      <3>4. CASE x # m /\ x # t
        BY <1>0, <1>1, <1>2, <2>3, <2>4, <2>5, <3>1, <3>4
      <3> QED
        BY <3>2, <3>3, <3>4
    <2>8. f2 \subseteq Module
      BY <1>0, <1>1 DEF f1
    <2> HIDE DEF after, f2
    <2> QED
      BY <1>2, <2>1, <2>3, <2>7, <2>8 DEF Accounts, less, after
  <1> QED
    BY <1>5, <1>6, <1>7

(* membus_free releases the modules one after the other.                    *)
ReleaseAll(refs, gone, s) ==
  FoldLeft(LAMBDA x, m : Released(x.refs, x.freed, m), [refs |-> refs, freed |-> gone], s)

(* It keeps the accounts, where every module it releases is on the bus.     *)
LEMMA ReleaseAllKeeps ==
  ASSUME NEW refs, NEW gone, NEW own, NEW used, Accounts(refs, gone, own, used),
         NEW s \in Seq(Allocated), \A x \in Module : own[x] >= Count(s, x)
  PROVE  Accounts(ReleaseAll(refs, gone, s).refs, ReleaseAll(refs, gone, s).freed,
                  [x \in Module |-> own[x] - Count(s, x)], used)
  <1> DEFINE n == Len(s)
             V == [refs : [Module -> Int], freed : SUBSET Module]
             b == [refs |-> refs, freed |-> gone]
             Rel(x, m) == Released(x.refs, x.freed, m)
             F == [x \in V \X (1 .. n) |-> Rel(x[1], s[x[2]])]
             Body(g) == [d \in SUBSET DOMAIN s |-> IF d = {} THEN b ELSE Rel(g[d \ {Max(d)}], s[Max(d)])]
             iter == CHOOSE g : g = Body(g)
  <1>1. n \in Nat /\ DOMAIN s = 1 .. n /\ \A i \in 1 .. n : s[i] \in Allocated
    OBVIOUS
  <1>2. \A x \in V, m \in Allocated : Rel(x, m) \in V
    <2> SUFFICES ASSUME NEW x \in V, NEW m \in Allocated PROVE Rel(x, m) \in V
      OBVIOUS
    <2>1. m \in Module /\ Target(m) \in Module
      BY SpanFacts DEF Allocated
    <2>2. \A f \in [Module -> Int], y \in Module : Decrement(f, y) \in [Module -> Int]
      BY DEF Decrement
    <2> QED
      BY <2>1, <2>2 DEF Released
  <1>3. b \in V
    BY DEF Accounts
  <1>4. ReleaseAll(refs, gone, s) = iter[DOMAIN s]
    BY DEF ReleaseAll, FoldLeft, MapThenFoldSet
  <1> HIDE DEF V, Rel, n, b
  <1>5. F \in [V \X (1 .. n) -> V] /\ \A c \in V, i \in 1 .. n : F[<<c, i>>] = Rel(c, s[i])
    BY <1>1, <1>2
  <1> HIDE DEF F
  <1>6. PICK g \in [SUBSET (1 .. n) -> V] : IsIter(g, n, b, F)
    BY <1>1, <1>3, <1>5, IterExists
  <1>7. ASSUME NEW d \in SUBSET (1 .. n)
        PROVE  g[d] = IF d = {} THEN b ELSE Rel(g[d \ {Max(d)}], s[Max(d)])
    BY <1>1, <1>5, <1>6, IterStep DEF IsIter
  <1>8. g = Body(g)
    BY <1>1, <1>7
  <1>9. iter = Body(iter)
    <2> HIDE DEF Body
    <2> QED
      BY <1>8
  <1> HIDE DEF iter
  <1>10. ASSUME NEW i \in 1 .. n PROVE iter[1 .. i] = Rel(iter[1 .. i - 1], s[i])
    <2>1. /\ Max(1 .. i) = i /\ (1 .. i) \ {i} = 1 .. i - 1
          /\ 1 .. i # {} /\ 1 .. i \in SUBSET DOMAIN s
      BY <1>1, PrefixMax
    <2>2. iter[1 .. i] = Rel(iter[(1 .. i) \ {Max(1 .. i)}], s[Max(1 .. i)])
      BY <1>9, <2>1
    <2> QED
      BY <2>1, <2>2
  <1>11. iter[1 .. 0] = b
    <2>1. 1 .. 0 = {}
      OBVIOUS
    <2> QED
      BY <1>9, <2>1
  <1> DEFINE Left(i) == [x \in Module |-> own[x] - Count(Begin(s, i), x)]
             Good(i) == Accounts(iter[1 .. i].refs, iter[1 .. i].freed, Left(i), used)
             P == {i \in Nat : i <= n => Good(i)}
  <1>12. \A i \in 0 .. n : Begin(s, i) \in Seq(Allocated) /\ Len(Begin(s, i)) = i
    BY <1>1 DEF Begin
  <1>13. own \in [Module -> Nat]
    BY DEF Accounts
  <1>14. 0 \in P
    <2>1. \A x \in Module : Count(Begin(s, 0), x) = 0
      <3> TAKE x \in Module
      <3>1. Places(Begin(s, 0), x) = {}
        BY DEF Places, Begin
      <3> QED
        BY <3>1, FS_EmptySet DEF Count
    <2>2. Left(0) = own
      <3>1. \A x \in Module : own[x] - Count(Begin(s, 0), x) = own[x]
        BY <1>13, <2>1
      <3> QED
        BY <1>13, <3>1
    <2> HIDE DEF Left
    <2>3. Good(0)
      BY <1>11, <2>2 DEF b
    <2> HIDE DEF Good
    <2> QED
      BY <2>3
  <1>15. ASSUME NEW i \in Nat, i \in P PROVE i + 1 \in P
    <2> SUFFICES ASSUME i + 1 <= n PROVE Good(i + 1)
      <3> HIDE DEF Good
      <3> QED
        OBVIOUS
    <2> DEFINE m == s[i + 1]
               before == iter[1 .. i]
               less == [Left(i) EXCEPT ![m] = @ - 1]
    <2>1. Good(i)
      <3> HIDE DEF Good
      <3> QED
        BY <1>1, <1>15
    <2>2. m \in Allocated /\ m \in Module /\ i \in 0 .. n /\ i + 1 \in 0 .. n /\ i + 1 \in 1 .. n
      BY <1>1 DEF Allocated
    <2>3. iter[1 .. i + 1] = Rel(before, m)
      <3>1. (i + 1) - 1 = i
        OBVIOUS
      <3> QED
        BY <1>10, <2>2, <3>1
    <2>4. ASSUME NEW x \in Module
          PROVE  /\ Count(Begin(s, i + 1), x) = Count(Begin(s, i), x) + One(m, x)
                 /\ Count(Begin(s, i), x) \in Nat /\ Count(Begin(s, i + 1), x) \in Nat
                 /\ Count(Begin(s, i + 1), x) <= Count(s, x) /\ Count(s, x) \in Nat
      <3>1. Inserted(Begin(s, i), Begin(s, i + 1), i + 1, m, i)
        BY <2>2 DEF Inserted, Begin
      <3>2. Places(Begin(s, i + 1), x) \in SUBSET Places(s, x)
        BY <1>1, <2>2 DEF Places, Begin
      <3>3. IsFiniteSet(Places(s, x)) /\ Count(s, x) \in Nat
        BY CountType
      <3>4. Cardinality(Places(Begin(s, i + 1), x)) <= Cardinality(Places(s, x))
        BY <3>2, <3>3, FS_Subset
      <3>5. Begin(s, i) \in Seq(Allocated) /\ Begin(s, i + 1) \in Seq(Allocated)
        BY <1>12, <2>2
      <3> HIDE DEF m
      <3>6. Count(Begin(s, i + 1), x) = Count(Begin(s, i), x) + One(m, x)
        BY <3>1, <3>5, CountInserted
      <3> QED
        BY <3>3, <3>4, <3>5, <3>6, CountType DEF Count
    <2>5. Left(i) \in [Module -> Int] /\ \A x \in Module : Left(i)[x] = own[x] - Count(Begin(s, i), x)
      BY <1>13, <2>4
    <2>6. Left(i)[m] >= 1
      <3>1. own[m] >= Count(s, m) /\ own[m] \in Nat
        BY <1>13, <2>2
      <3>2. One(m, m) = 1
        BY DEF One
      <3>3. Left(i)[m] = own[m] - Count(Begin(s, i), m)
        BY <2>2, <2>5
      <3>4. Count(Begin(s, i), m) \in Nat /\ Count(Begin(s, i), m) + 1 <= Count(s, m) /\ Count(s, m) \in Nat
        BY <2>2, <2>4, <3>2, CountType
      <3> QED
        BY <3>1, <3>3, <3>4
    <2>7. Left(i + 1) = less
      <3>1. \A x \in Module : own[x] - Count(Begin(s, i + 1), x)
                                = IF x = m THEN Left(i)[x] - 1 ELSE Left(i)[x]
        BY <1>13, <2>4, <2>5 DEF One
      <3>2. less = [x \in Module |-> IF x = m THEN Left(i)[x] - 1 ELSE Left(i)[x]]
        OBVIOUS
      <3> QED
        BY <3>1, <3>2
    <2> HIDE DEF Left, m, before
    <2>8. Accounts(before.refs, before.freed, Left(i), used)
      BY <2>1 DEF before
    <2>9. Accounts(Rel(before, m).refs, Rel(before, m).freed, less, used)
      BY <2>2, <2>6, <2>8, ReleasedKeeps DEF Rel
    <2> QED
      BY <2>3, <2>7, <2>9
  <1>16. Good(n)
    <2>1. \A i \in Nat : i \in P
      <3> HIDE DEF P
      <3> QED
        BY <1>14, <1>15, NatInduct
    <2> HIDE DEF Good
    <2> QED
      BY <1>1, <2>1
  <1>17. Begin(s, n) = s
    BY <1>1 DEF Begin
  <1> QED
    BY <1>1, <1>4, <1>16, <1>17

(* The modules' places on the bus, tier by tier.                            *)
LEMMA OnBus ==
  ASSUME NEW pre \in Seq(Allocated), NEW post \in Seq(Allocated), NEW tiers \in Seq(Tiers), NEW x
  PROVE  /\ Occurrences(<<pre, post>> \o TierChains(tiers), x)
              = Count(pre, x) + Count(post, x) + Occurrences(TierChains(tiers), x)
         /\ Count(pre, x) \in Nat /\ Count(post, x) \in Nat /\ Occurrences(TierChains(tiers), x) \in Nat
  <1> DEFINE c == TierChains(tiers)
             V == Seq(Allocated)
             d1 == <<post>> \o c
             d2 == <<pre, post>> \o c
             n == Len(c)
  <1>1. c \in Seq(V) /\ n \in Nat /\ DOMAIN c = 1 .. n
    BY TierChainsType
  <1>2. pre \in V /\ post \in V
    OBVIOUS
  <1> HIDE DEF c, V
  <1>3. /\ d1 \in Seq(V) /\ DOMAIN d1 = 1 .. n + 1 /\ d1[1] = post
        /\ \A i \in 1 .. n : d1[i + 1] = c[i]
    BY <1>1, <1>2
  <1>4. /\ d2 \in Seq(V) /\ DOMAIN d2 = 1 .. (n + 1) + 1 /\ d2[1] = pre /\ d2[2] = post
        /\ \A i \in 1 .. n : d2[i + 2] = c[i]
    BY <1>1, <1>2
  <1> HIDE DEF d1, d2, n
  <1>5. Inserted(c, d1, 1, post, n)
    BY <1>1, <1>3 DEF Inserted
  <1>6. Inserted(d1, d2, 1, pre, n + 1)
    <2>1. ASSUME NEW i \in 1 .. n + 1 PROVE d2[i + 1] = d1[i]
      <3>1. CASE i = 1
        BY <1>3, <1>4, <3>1
      <3>2. CASE i # 1
        <4>1. i - 1 \in 1 .. n /\ (i - 1) + 1 = i /\ (i - 1) + 2 = i + 1
          BY <1>1, <3>2
        <4>2. d1[(i - 1) + 1] = c[i - 1] /\ d2[(i - 1) + 2] = c[i - 1]
          BY <1>3, <1>4, <4>1
        <4> QED
          BY <4>1, <4>2
      <3> QED
        BY <3>1, <3>2
    <2>2. \A i \in 1 .. n + 1 : ~ (i < 1)
      OBVIOUS
    <2>3. n + 1 \in Nat /\ 1 \in 1 .. (n + 1) + 1
      BY <1>1
    <2> QED
      BY <1>3, <1>4, <2>1, <2>2, <2>3 DEF Inserted
  <1>7. Occurrences(d1, x) = Occurrences(c, x) + Count(post, x)
    BY <1>1, <1>3, <1>5, OccurrencesInserted DEF V
  <1>8. Occurrences(d2, x) = Occurrences(d1, x) + Count(pre, x)
    BY <1>3, <1>4, <1>6, OccurrencesInserted DEF V
  <1>9. Count(pre, x) \in Nat /\ Count(post, x) \in Nat /\ Occurrences(c, x) \in Nat
    BY <1>1, CountType, RowsFacts DEF V
  <1>10. Occurrences(d2, x) = Count(pre, x) + Count(post, x) + Occurrences(c, x)
    BY <1>7, <1>8, <1>9
  <1> QED
    BY <1>9, <1>10 DEF c, d2

(* References that are not a mirror's, and the modules somebody gave up.    *)
Own(pre, post, tiers, drops, hold) ==
  [x \in Module |-> Count(pre, x) + Count(post, x) + Occurrences(TierChains(tiers), x) + drops[x] + hold[x]]
Used(reg) == {x \in Module : \E i \in DOMAIN reg : reg[i][2] = x}

(* RefsKept, of given values.                                               *)
Refs(pre, post, tiers, drops, hold, refs, gone, reg) ==
  \A m \in Module :
    LET owners == Occurrences(<<pre, post>> \o TierChains(tiers), m)
                    + drops[m] + Mirrors(m, gone) + hold[m]
        used == \E i \in DOMAIN reg : reg[i][2] = m
    IN  /\ refs[m] = owners
        /\ m \in gone => owners = 0
        /\ used /\ owners = 0 => m \in gone

(* RefsKept says that the accounts are right.                               *)
LEMMA RefsAccounts ==
  ASSUME NEW pre \in Seq(Allocated), NEW post \in Seq(Allocated), NEW tiers \in Seq(Tiers),
         NEW drops \in [Module -> Nat], NEW hold \in [Module -> Nat], NEW refs \in [Module -> Nat],
         NEW gone \in SUBSET Module, NEW reg
  PROVE  /\ Own(pre, post, tiers, drops, hold) \in [Module -> Nat]
         /\ Refs(pre, post, tiers, drops, hold, refs, gone, reg)
              <=> Accounts(refs, gone, Own(pre, post, tiers, drops, hold), Used(reg))
  <1> DEFINE own == Own(pre, post, tiers, drops, hold)
             Owners(m) == Occurrences(<<pre, post>> \o TierChains(tiers), m)
                            + drops[m] + Mirrors(m, gone) + hold[m]
  <1>1. ASSUME NEW m \in Module
        PROVE  own[m] \in Nat /\ Owners(m) = own[m] + Mirrors(m, gone)
    <2>1. /\ Occurrences(<<pre, post>> \o TierChains(tiers), m)
               = Count(pre, m) + Count(post, m) + Occurrences(TierChains(tiers), m)
          /\ Count(pre, m) \in Nat /\ Count(post, m) \in Nat /\ Occurrences(TierChains(tiers), m) \in Nat
      BY OnBus
    <2>2. Mirrors(m, gone) \in Nat /\ drops[m] \in Nat /\ hold[m] \in Nat
      BY MirrorFacts
    <2>3. own[m] = Count(pre, m) + Count(post, m) + Occurrences(TierChains(tiers), m) + drops[m] + hold[m]
      BY DEF Own
    <2> DEFINE chains == <<pre, post>> \o TierChains(tiers)
    <2>4. Owners(m) = Occurrences(chains, m) + drops[m] + Mirrors(m, gone) + hold[m]
      OBVIOUS
    <2> HIDE DEF own, Owners, chains
    <2>5. Occurrences(chains, m) = Count(pre, m) + Count(post, m) + Occurrences(TierChains(tiers), m)
      BY <2>1 DEF chains
    <2> QED
      BY <2>1, <2>2, <2>3, <2>4, <2>5
  <1>2. own \in [Module -> Nat]
    <2>1. own = [x \in Module |-> own[x]]
      BY DEF Own
    <2> HIDE DEF own
    <2> QED
      BY <1>1, <2>1
  <1>3. Refs(pre, post, tiers, drops, hold, refs, gone, reg)
          <=> \A m \in Module : /\ refs[m] = Owners(m)
                                /\ m \in gone => Owners(m) = 0
                                /\ m \in Used(reg) /\ Owners(m) = 0 => m \in gone
    <2> HIDE DEF Owners
    <2>1. Refs(pre, post, tiers, drops, hold, refs, gone, reg)
            <=> \A m \in Module : /\ refs[m] = Owners(m)
                                  /\ m \in gone => Owners(m) = 0
                                  /\ (\E i \in DOMAIN reg : reg[i][2] = m) /\ Owners(m) = 0 => m \in gone
      BY Zenon DEF Refs, Owners
    <2>2. \A m \in Module : m \in Used(reg) <=> \E i \in DOMAIN reg : reg[i][2] = m
      BY DEF Used
    <2> QED
      BY <2>1, <2>2
  <1> HIDE DEF own, Owners
  <1>4. Accounts(refs, gone, own, Used(reg))
          <=> \A m \in Module : /\ refs[m] = own[m] + Mirrors(m, gone)
                                /\ m \in gone => refs[m] = 0
                                /\ m \in Used(reg) /\ refs[m] = 0 => m \in gone
    BY <1>2 DEF Accounts
  <1>5. Refs(pre, post, tiers, drops, hold, refs, gone, reg) <=> Accounts(refs, gone, own, Used(reg))
    BY <1>1, <1>3, <1>4
  <1> QED
    BY <1>2, <1>5 DEF own

-----------------------------------------------------------------------------
(* The inductive invariant, in the parts that actions change together.      *)
FlagsInv == cache_disable \in BOOLEAN /\ is_up \in BOOLEAN
RefsInv ==
  /\ ref_count \in [Module -> Nat] /\ freed \subseteq Module
  /\ holds \in [Module -> Nat] /\ dropped \in [Module -> Nat]
  /\ RefsKept

(* It is these parts.                                                       *)
LEMMA Parts == IInv <=> ChainsInv /\ RefsInv /\ MemoryInv /\ FlagsInv
  <1>1. ChainsInv => /\ modules \in Seq([tier : Int, chain : Seq(Module)])
                     /\ pre_op \in Seq(Module) /\ post_op \in Seq(Module)
    <2> SUFFICES ASSUME ChainsInv
                 PROVE  /\ modules \in Seq([tier : Int, chain : Seq(Module)])
                        /\ pre_op \in Seq(Module) /\ post_op \in Seq(Module)
      OBVIOUS
    <2>1. Seq(Allocated) \subseteq Seq(Module)
      BY SeqMonotonic DEF Allocated
    <2>2. Seq([tier : Int, chain : Seq(Allocated)]) \subseteq Seq([tier : Int, chain : Seq(Module)])
      <3>1. [tier : Int, chain : Seq(Allocated)] \subseteq [tier : Int, chain : Seq(Module)]
        BY <2>1
      <3> QED
        BY <3>1, SeqMonotonic
    <2> QED
      BY <2>1, <2>2 DEF ChainsInv
  <1> QED
    BY <1>1 DEF IInv, TypeOK, RefsInv, MemoryInv, FlagsInv, Store, Caches, Value

(* The references are in order where the accounts are.                      *)
LEMMA AccountsInv ==
  ASSUME ChainsInv, RefsInv
  PROVE  /\ modules \in Seq(Tiers)
         /\ Own(pre_op, post_op, modules, dropped, holds) \in [Module -> Nat]
         /\ Accounts(ref_count, freed, Own(pre_op, post_op, modules, dropped, holds), Used(registered))
  <1>1. modules \in Seq(Tiers) /\ pre_op \in Seq(Allocated) /\ post_op \in Seq(Allocated)
    BY DEF ChainsInv, Tiers
  <1>2. Refs(pre_op, post_op, modules, dropped, holds, ref_count, freed, registered)
    BY DEF RefsInv, RefsKept, Refs
  <1> QED
    BY <1>1, <1>2, RefsAccounts DEF RefsInv

(* The same after a step.                                                   *)
LEMMA AccountsNext ==
  ASSUME modules' \in Seq(Tiers), pre_op' \in Seq(Allocated), post_op' \in Seq(Allocated),
         dropped' \in [Module -> Nat], holds' \in [Module -> Nat],
         Accounts(ref_count', freed', Own(pre_op', post_op', modules', dropped', holds'), Used(registered'))
  PROVE  RefsInv'
  <1>1. ref_count' \in [Module -> Nat] /\ freed' \in SUBSET Module
    BY DEF Accounts
  <1>2. Refs(pre_op', post_op', modules', dropped', holds', ref_count', freed', registered')
    BY <1>1, RefsAccounts
  <1> QED
    BY <1>1, <1>2 DEF RefsInv, RefsKept, Refs

(* A registration puts the module in one place more; the places a tier that *)
(* is lost had are counted.                                                 *)
LEMMA RegisterKeeps ==
  ASSUME ChainsInv, RefsInv, NEW reg \in Registrations, Register(reg[1], reg[2])
  PROVE  ChainsInv' /\ RefsInv'
  <1> DEFINE tier == reg[1]
             m == reg[2]
             own == Own(pre_op, post_op, modules, dropped, holds)
             after == Own(pre_op', post_op', modules', dropped', holds')
             Occ(x) == Occurrences(TierChains(modules), x)
             OccNext(x) == Occurrences(TierChains(modules'), x)
  <1>1. tier \in Int /\ m \in Allocated /\ m \in Module /\ reg = <<tier, m>>
    BY RegistrationsAssumption DEF Allocated
  <1>2. /\ m \notin freed /\ freed' = freed /\ holds' = holds
        /\ ref_count' = [ref_count EXCEPT ![m] = @ + 1]
        /\ registered' = Append(registered, <<tier, m>>)
        /\ dropped' = [x \in Module |-> dropped[x] + Occ(x) + (IF x = m /\ modules' # modules THEN 1 ELSE 0)
                                          - OccNext(x)]
        /\ \/ pre_op' = Insert(pre_op, m) /\ UNCHANGED <<modules, post_op>>
           \/ post_op' = Insert(post_op, m) /\ UNCHANGED <<modules, pre_op>>
           \/ modules' = WithTier(tier, m) /\ UNCHANGED <<pre_op, post_op>>
    BY DEF Register
  <1>3. /\ modules \in Seq(Tiers) /\ Distinct(modules)
        /\ pre_op \in Seq(Allocated) /\ post_op \in Seq(Allocated) /\ registered \in Seq(Registrations)
    BY DEF ChainsInv, Tiers, Distinct
  <1>4. /\ ref_count \in [Module -> Nat] /\ freed \subseteq Module
        /\ holds \in [Module -> Nat] /\ dropped \in [Module -> Nat]
    BY DEF RefsInv
  <1> HIDE DEF m, tier
  <1>5. /\ modules' \in Seq(Tiers) /\ Distinct(modules')
        /\ pre_op' \in Seq(Allocated) /\ post_op' \in Seq(Allocated)
        /\ registered' \in Seq(Registrations)
    <2>1. registered' \in Seq(Registrations)
      BY <1>1, <1>2, <1>3
    <2>2. Insert(pre_op, m) \in Seq(Allocated) /\ Insert(post_op, m) \in Seq(Allocated)
      BY <1>1, <1>3, InsertFacts
    <2>3. WithTier(tier, m) \in Seq(Tiers) /\ Distinct(WithTier(tier, m))
      BY <1>1, WithTierFacts
    <2> QED
      BY <1>2, <1>3, <2>1, <2>2, <2>3
  <1>6. ChainsInv'
    BY <1>5 DEF ChainsInv, Tiers, Distinct
  <1>7. ASSUME NEW x \in Module
        PROVE  /\ dropped'[x] \in Nat
               /\ Count(pre_op', x) + Count(post_op', x) + OccNext(x) + dropped'[x] + holds'[x]
                    = Count(pre_op, x) + Count(post_op, x) + Occ(x) + dropped[x] + holds[x] + One(m, x)
    <2>1. /\ Count(pre_op, x) \in Nat /\ Count(post_op, x) \in Nat /\ Occ(x) \in Nat
          /\ Count(pre_op', x) \in Nat /\ Count(post_op', x) \in Nat /\ OccNext(x) \in Nat
      BY <1>3, <1>5, OnBus
    <2>2. dropped[x] \in Nat /\ holds[x] \in Nat /\ holds'[x] = holds[x] /\ One(m, x) \in Nat
      BY <1>2, <1>4 DEF One
    <2>3. dropped'[x] = dropped[x] + Occ(x) + (IF x = m /\ modules' # modules THEN 1 ELSE 0) - OccNext(x)
      <3> HIDE DEF Occ, OccNext
      <3> QED
        BY <1>2
    <2>4. CASE modules' = modules
      <3>1. OccNext(x) = Occ(x) /\ dropped'[x] = dropped[x] + Occ(x) + 0 - OccNext(x)
        BY <2>3, <2>4
      <3>2. Count(pre_op', x) + Count(post_op', x) = Count(pre_op, x) + Count(post_op, x) + One(m, x)
        <4>1. /\ Count(Insert(pre_op, m), x) = Count(pre_op, x) + One(m, x)
              /\ Count(Insert(post_op, m), x) = Count(post_op, x) + One(m, x)
          BY <1>1, <1>3, InsertFacts
        <4>2. WithTier(tier, m) # modules
          BY <1>1, WithTierFacts
        <4>3. \/ pre_op' = Insert(pre_op, m) /\ post_op' = post_op
              \/ post_op' = Insert(post_op, m) /\ pre_op' = pre_op
          BY <1>2, <2>4, <4>2
        <4> QED
          BY <2>1, <2>2, <4>1, <4>3
      <3> HIDE DEF Occ, OccNext
      <3>3. dropped'[x] = dropped[x]
        BY <2>1, <2>2, <3>1
      <3> QED
        BY <2>1, <2>2, <3>1, <3>2, <3>3
    <2>5. CASE modules' # modules
      <3>1. modules' = WithTier(tier, m) /\ pre_op' = pre_op /\ post_op' = post_op
        BY <1>2, <2>5
      <3>2. OccNext(x) <= Occ(x) + One(m, x)
        BY <1>1, <3>1, WithTierFacts
      <3> HIDE DEF Occ, OccNext
      <3>3. dropped'[x] = dropped[x] + Occ(x) + One(m, x) - OccNext(x)
        BY <2>3, <2>5 DEF One
      <3> QED
        BY <2>1, <2>2, <3>1, <3>2, <3>3
    <2> QED
      BY <2>4, <2>5
  <1>8. dropped' \in [Module -> Nat]
    <2>1. dropped' = [x \in Module |-> dropped'[x]]
      BY <1>2
    <2> QED
      BY <1>7, <2>1
  <1>9. /\ own \in [Module -> Nat] /\ Accounts(ref_count, freed, own, Used(registered))
    BY AccountsInv
  <1>10. \A x \in Module : after[x] = own[x] + One(m, x) /\ own[x] \in Nat
    <2> SUFFICES ASSUME NEW x \in Module PROVE after[x] = own[x] + One(m, x) /\ own[x] \in Nat
      OBVIOUS
    <2>1. /\ own[x] = Count(pre_op, x) + Count(post_op, x) + Occ(x) + dropped[x] + holds[x]
          /\ after[x] = Count(pre_op', x) + Count(post_op', x) + OccNext(x) + dropped'[x] + holds'[x]
      BY DEF Own
    <2>2. own[x] \in Nat
      <3> HIDE DEF own
      <3> QED
        BY <1>9
    <2> HIDE DEF own, after, Occ, OccNext
    <2> QED
      BY <1>7, <2>1, <2>2
  <1>11. Accounts(ref_count', freed', after, Used(registered'))
    <2>1. after = [x \in Module |-> after[x]]
      BY DEF Own
    <2> HIDE DEF own, after
    <2>2. after \in [Module -> Nat]
      <3>1. \A x \in Module : after[x] \in Nat
        BY <1>10 DEF One
      <3> QED
        BY <2>1, <3>1
    <2>3. \A x \in Module : ref_count'[x] = ref_count[x] + One(m, x)
      BY <1>1, <1>2, <1>4 DEF One
    <2>4. ref_count' \in [Module -> Nat]
      BY <1>1, <1>2, <1>4
    <2>5. \A x \in Module : x \in Used(registered') => x \in Used(registered) \/ x = m
      <3> SUFFICES ASSUME NEW x \in Used(registered'), x # m PROVE x \in Used(registered)
        OBVIOUS
      <3>1. PICK i \in DOMAIN registered' : registered'[i][2] = x
        BY DEF Used
      <3>2. /\ DOMAIN registered' = 1 .. Len(registered) + 1 /\ Len(registered) \in Nat
            /\ DOMAIN registered = 1 .. Len(registered)
            /\ registered'[Len(registered) + 1] = <<tier, m>>
            /\ \A j \in DOMAIN registered : registered'[j] = registered[j]
        BY <1>2, <1>3
      <3>3. i # Len(registered) + 1
        BY <3>1, <3>2
      <3>4. i \in DOMAIN registered
        BY <3>2, <3>3
      <3> QED
        BY <3>1, <3>2, <3>4 DEF Used
    <2>6. ASSUME NEW x \in Module
          PROVE  /\ ref_count'[x] = after[x] + Mirrors(x, freed')
                 /\ x \in freed' => ref_count'[x] = 0
                 /\ x \in Used(registered') /\ ref_count'[x] = 0 => x \in freed'
      <3>1. /\ ref_count[x] = own[x] + Mirrors(x, freed)
            /\ x \in freed => ref_count[x] = 0
            /\ x \in Used(registered) /\ ref_count[x] = 0 => x \in freed
        BY <1>9 DEF Accounts
      <3>2. Mirrors(x, freed) \in Nat /\ freed' = freed /\ m \notin freed /\ ref_count[x] \in Nat
        BY <1>2, <1>4, MirrorFacts
      <3>3. ref_count'[x] = ref_count[x] + One(m, x) /\ after[x] = own[x] + One(m, x) /\ own[x] \in Nat
        BY <1>10, <2>3
      <3>4. CASE x = m
        <4>1. One(m, x) = 1
          BY <3>4 DEF One
        <4> QED
          BY <3>1, <3>2, <3>3, <3>4, <4>1
      <3>5. CASE x # m
        <4>1. One(m, x) = 0
          BY <3>5 DEF One
        <4> QED
          BY <2>5, <3>1, <3>2, <3>3, <3>5, <4>1
      <3> QED
        BY <3>4, <3>5
    <2> QED
      BY <1>2, <1>4, <2>2, <2>4, <2>6 DEF Accounts
  <1>12. RefsInv'
    BY <1>2, <1>4, <1>5, <1>8, <1>11, AccountsNext
  <1> QED
    BY <1>6, <1>12

(* A reference taken is counted.                                            *)
LEMMA RetainKeeps ==
  ASSUME ChainsInv, RefsInv, NEW m \in Held, membus_module_retain(m)
  PROVE  ChainsInv' /\ RefsInv'
  <1> DEFINE own == Own(pre_op, post_op, modules, dropped, holds)
             after == Own(pre_op', post_op', modules', dropped', holds')
  <1>1. /\ m \in Module /\ m \notin freed
        /\ ref_count' = [ref_count EXCEPT ![m] = @ + 1] /\ holds' = [holds EXCEPT ![m] = @ + 1]
        /\ UNCHANGED <<modules, pre_op, post_op, registered, freed, dropped>>
    BY HeldAssumption DEF membus_module_retain, busVars, Allocated
  <1>2. ChainsInv'
    BY <1>1 DEF ChainsInv
  <1>3. /\ modules \in Seq(Tiers) /\ own \in [Module -> Nat]
        /\ Accounts(ref_count, freed, own, Used(registered))
    BY AccountsInv
  <1>4. /\ ref_count \in [Module -> Nat] /\ freed \subseteq Module
        /\ holds \in [Module -> Nat] /\ dropped \in [Module -> Nat]
    BY DEF RefsInv
  <1>5. /\ holds' \in [Module -> Nat] /\ ref_count' \in [Module -> Nat]
        /\ ref_count'[m] = ref_count[m] + 1 /\ holds'[m] = holds[m] + 1
        /\ \A x \in Module : x # m => ref_count'[x] = ref_count[x] /\ holds'[x] = holds[x]
    BY <1>1, <1>4
  <1>6. \A x \in Module : after[x] = own[x] + One(m, x)
    <2> SUFFICES ASSUME NEW x \in Module PROVE after[x] = own[x] + One(m, x)
      OBVIOUS
    <2> DEFINE c == Count(pre_op, x) + Count(post_op, x) + Occurrences(TierChains(modules), x)
    <2>1. own[x] = c + dropped[x] + holds[x] /\ after[x] = c + dropped[x] + holds'[x]
      BY <1>1 DEF Own
    <2>2. c \in Nat
      <3>1. pre_op \in Seq(Allocated) /\ post_op \in Seq(Allocated)
        BY DEF ChainsInv
      <3>2. /\ Count(pre_op, x) \in Nat /\ Count(post_op, x) \in Nat
            /\ Occurrences(TierChains(modules), x) \in Nat
        BY <1>3, <3>1, OnBus
      <3> QED
        BY <3>2
    <2> HIDE DEF own, after, c
    <2> QED
      BY <1>4, <1>5, <2>1, <2>2 DEF One
  <1>7. after = [x \in Module |-> after[x]]
    BY DEF Own
  <1> HIDE DEF own, after
  <1>8. after \in [Module -> Nat]
    <2>1. \A x \in Module : after[x] \in Nat
      BY <1>3, <1>6 DEF One
    <2> QED
      BY <1>7, <2>1
  <1>9. Accounts(ref_count', freed', after, Used(registered'))
    <2>1. ASSUME NEW x \in Module
          PROVE  /\ ref_count'[x] = after[x] + Mirrors(x, freed)
                 /\ x \in freed => ref_count'[x] = 0
                 /\ x \in Used(registered) /\ ref_count'[x] = 0 => x \in freed
      <3>1. /\ ref_count[x] = own[x] + Mirrors(x, freed)
            /\ x \in freed => ref_count[x] = 0
            /\ x \in Used(registered) /\ ref_count[x] = 0 => x \in freed
        BY <1>3 DEF Accounts
      <3>2. Mirrors(x, freed) \in Nat /\ ref_count[x] \in Nat /\ own[x] \in Nat
        BY <1>3, <1>4, MirrorFacts
      <3>3. CASE x = m
        <4>1. after[x] = own[x] + 1
          BY <1>6, <3>3 DEF One
        <4> QED
          BY <1>1, <1>5, <3>1, <3>2, <3>3, <4>1
      <3>4. CASE x # m
        <4>1. after[x] = own[x]
          BY <1>6, <3>2, <3>4 DEF One
        <4> QED
          BY <1>5, <3>1, <3>4, <4>1
      <3> QED
        BY <3>3, <3>4
    <2>2. freed' = freed /\ registered' = registered
      BY <1>1
    <2> QED
      BY <1>4, <1>5, <1>8, <2>1, <2>2 DEF Accounts
  <1>10. RefsInv'
    <2>1. /\ modules' \in Seq(Tiers) /\ pre_op' \in Seq(Allocated) /\ post_op' \in Seq(Allocated)
          /\ dropped' \in [Module -> Nat]
      BY <1>1, <1>3, <1>4 DEF ChainsInv
    <2> QED
      BY <1>5, <1>9, <2>1, AccountsNext DEF after
  <1> QED
    BY <1>2, <1>10

(* A reference given back is given up.                                      *)
LEMMA ReleaseKeeps ==
  ASSUME ChainsInv, RefsInv, NEW m \in Held, membus_module_release(m)
  PROVE  ChainsInv' /\ RefsInv'
  <1> DEFINE own == Own(pre_op, post_op, modules, dropped, holds)
             less == [own EXCEPT ![m] = @ - 1]
             after == Own(pre_op', post_op', modules', dropped', holds')
             r == Released(ref_count, freed, m)
  <1>1. /\ m \in Allocated /\ m \in Module /\ holds[m] > 0 /\ holds' = [holds EXCEPT ![m] = @ - 1]
        /\ ref_count' = r.refs /\ freed' = r.freed
        /\ UNCHANGED <<modules, pre_op, post_op, registered, dropped>>
    BY HeldAssumption DEF membus_module_release, busVars, Allocated
  <1>2. ChainsInv'
    BY <1>1 DEF ChainsInv
  <1>3. /\ modules \in Seq(Tiers) /\ own \in [Module -> Nat]
        /\ Accounts(ref_count, freed, own, Used(registered))
    BY AccountsInv
  <1>4. holds \in [Module -> Nat] /\ dropped \in [Module -> Nat]
    BY DEF RefsInv
  <1>5. /\ holds' \in [Module -> Nat] /\ holds'[m] = holds[m] - 1 /\ holds[m] \in Nat /\ holds[m] >= 1
        /\ \A x \in Module : x # m => holds'[x] = holds[x]
    BY <1>1, <1>4
  <1>6. ASSUME NEW x \in Module PROVE after[x] = own[x] - One(m, x) /\ own[x] >= holds[x]
    <2> DEFINE c == Count(pre_op, x) + Count(post_op, x) + Occurrences(TierChains(modules), x)
    <2>1. own[x] = c + dropped[x] + holds[x] /\ after[x] = c + dropped[x] + holds'[x]
      BY <1>1 DEF Own
    <2>2. c \in Nat
      <3>1. pre_op \in Seq(Allocated) /\ post_op \in Seq(Allocated)
        BY DEF ChainsInv
      <3>2. /\ Count(pre_op, x) \in Nat /\ Count(post_op, x) \in Nat
            /\ Occurrences(TierChains(modules), x) \in Nat
        BY <1>3, <3>1, OnBus
      <3> QED
        BY <3>2
    <2> HIDE DEF own, after, c
    <2> QED
      BY <1>4, <1>5, <2>1, <2>2 DEF One
  <1>7. after = [x \in Module |-> after[x]]
    BY DEF Own
  <1> HIDE DEF own, after, r
  <1>8. own[m] >= 1
    BY <1>1, <1>3, <1>5, <1>6
  <1>9. after = less
    <2>1. less = [x \in Module |-> IF x = m THEN own[x] - 1 ELSE own[x]]
      BY <1>3
    <2>2. \A x \in Module : after[x] = IF x = m THEN own[x] - 1 ELSE own[x]
      BY <1>3, <1>6 DEF One
    <2> HIDE DEF less
    <2> QED
      BY <1>7, <2>1, <2>2
  <1>10. Accounts(ref_count', freed', after, Used(registered'))
    <2>1. Accounts(r.refs, r.freed, less, Used(registered))
      BY <1>1, <1>3, <1>8, ReleasedKeeps DEF r
    <2>2. registered' = registered
      BY <1>1
    <2> QED
      BY <1>1, <1>9, <2>1, <2>2
  <1>11. RefsInv'
    <2>1. /\ modules' \in Seq(Tiers) /\ pre_op' \in Seq(Allocated) /\ post_op' \in Seq(Allocated)
          /\ dropped' \in [Module -> Nat]
      BY <1>1, <1>3, <1>4 DEF ChainsInv
    <2> QED
      BY <1>5, <1>10, <2>1, AccountsNext DEF after
  <1> QED
    BY <1>2, <1>11

(* The bus gives up one reference for every place it has a module at.       *)
LEMMA FreeKeeps ==
  ASSUME ChainsInv, RefsInv, membus_free
  PROVE  ChainsInv' /\ RefsInv'
  <1> DEFINE own == Own(pre_op, post_op, modules, dropped, holds)
             after == Own(pre_op', post_op', modules', dropped', holds')
             flat == FlattenSeq(TierChains(modules))
             s == pre_op \o flat \o post_op
             r == ReleaseAll(ref_count, freed, s)
             less == [x \in Module |-> own[x] - Count(s, x)]
  <1>1. /\ ref_count' = r.refs /\ freed' = r.freed
        /\ modules' = <<>> /\ pre_op' = <<>> /\ post_op' = <<>>
        /\ UNCHANGED <<registered, holds, dropped>>
    BY DEF membus_free, ReleaseAll
  <1>2. /\ modules' \in Seq(Tiers) /\ pre_op' \in Seq(Allocated) /\ post_op' \in Seq(Allocated)
    BY <1>1
  <1>3. ChainsInv'
    <2>1. DOMAIN modules' = {}
      BY <1>1
    <2> QED
      BY <1>1, <1>2, <2>1 DEF ChainsInv, Tiers
  <1>4. /\ modules \in Seq(Tiers) /\ own \in [Module -> Nat]
        /\ Accounts(ref_count, freed, own, Used(registered))
    BY AccountsInv
  <1>5. holds \in [Module -> Nat] /\ dropped \in [Module -> Nat]
    BY DEF RefsInv
  <1>6. pre_op \in Seq(Allocated) /\ post_op \in Seq(Allocated)
    BY DEF ChainsInv
  <1>7. /\ flat \in Seq(Allocated)
        /\ \A x : Count(flat, x) = Occurrences(TierChains(modules), x)
    BY <1>4, TierChainsType, FlattenFacts
  <1> HIDE DEF flat
  <1>8. s \in Seq(Allocated)
    BY <1>6, <1>7
  <1>9. ASSUME NEW x \in Module
        PROVE  own[x] >= Count(s, x) /\ own[x] - Count(s, x) = dropped[x] + holds[x]
    <2>1. /\ Count(pre_op, x) \in Nat /\ Count(post_op, x) \in Nat
          /\ Occurrences(TierChains(modules), x) \in Nat
      BY <1>4, <1>6, OnBus
    <2>2. Count(s, x) = Count(pre_op, x) + Count(flat, x) + Count(post_op, x)
      <3>1. pre_op \o flat \in Seq(Allocated)
        BY <1>6, <1>7
      <3>2. Count(s, x) = Count(pre_op \o flat, x) + Count(post_op, x)
        BY <1>6, <3>1, CountConcat
      <3>3. Count(pre_op \o flat, x) = Count(pre_op, x) + Count(flat, x)
        BY <1>6, <1>7, CountConcat
      <3> HIDE DEF s
      <3> QED
        BY <3>2, <3>3
    <2>3. own[x] = Count(pre_op, x) + Count(post_op, x) + Occurrences(TierChains(modules), x)
                     + dropped[x] + holds[x]
      BY DEF Own
    <2>4. Count(flat, x) = Occurrences(TierChains(modules), x)
      BY <1>7
    <2> HIDE DEF own, s
    <2> QED
      BY <1>5, <2>1, <2>2, <2>3, <2>4
  <1>10. \A x \in Module : after[x] = dropped[x] + holds[x]
    <2> SUFFICES ASSUME NEW x \in Module PROVE after[x] = dropped[x] + holds[x]
      OBVIOUS
    <2>1. /\ Count(pre_op', x) = 0 /\ Count(post_op', x) = 0
          /\ Occurrences(TierChains(modules'), x) = 0
      <3>1. Places(<<>>, x) = {} /\ Rows(TierChains(<<>>), x) = {}
        BY DEF Places, Rows, TierChains
      <3>2. Count(<<>>, x) = 0
        BY <3>1, FS_EmptySet DEF Count
      <3>3. Occurrences(TierChains(<<>>), x) = 0
        <4>1. <<>> \in Seq(Tiers)
          OBVIOUS
        <4>2. TierChains(<<>>) \in Seq(Seq(Allocated))
          BY <4>1, TierChainsType
        <4> QED
          BY <3>1, <4>2, RowsFacts, FS_EmptySet
      <3> QED
        BY <1>1, <3>2, <3>3
    <2>2. after[x] = Count(pre_op', x) + Count(post_op', x) + Occurrences(TierChains(modules'), x)
                       + dropped'[x] + holds'[x]
      BY DEF Own
    <2>3. dropped'[x] = dropped[x] /\ holds'[x] = holds[x] /\ dropped[x] \in Nat /\ holds[x] \in Nat
      BY <1>1, <1>5
    <2> HIDE DEF after
    <2> QED
      BY <2>1, <2>2, <2>3
  <1>11. after = [x \in Module |-> after[x]]
    BY DEF Own
  <1> HIDE DEF own, after, s
  <1>12. after = less
    BY <1>9, <1>10, <1>11
  <1>13. Accounts(ref_count', freed', after, Used(registered'))
    <2>1. Accounts(r.refs, r.freed, less, Used(registered))
      BY <1>4, <1>8, <1>9, ReleaseAllKeeps
    <2>2. registered' = registered
      BY <1>1
    <2> HIDE DEF less, r
    <2> QED
      BY <1>1, <1>12, <2>1, <2>2
  <1>14. RefsInv'
    <2>1. dropped' \in [Module -> Nat] /\ holds' \in [Module -> Nat]
      BY <1>1, <1>5
    <2> QED
      BY <1>2, <1>13, <2>1, AccountsNext DEF after
  <1> QED
    BY <1>3, <1>14

-----------------------------------------------------------------------------
(* The bus of membus_alloc is in order: there is nothing on it.             *)
LEMMA InitInv == Init => IInv
  <1> SUFFICES ASSUME Init PROVE IInv
    OBVIOUS
  <1>1. ChainsInv
    <2>1. modules = <<>> /\ pre_op = <<>> /\ post_op = <<>> /\ registered = <<>>
      BY DEF Init
    <2> QED
      BY <2>1 DEF ChainsInv
  <1>2. MemoryInv
    <2>1. bytes \in Store
      <3>1. \A c \in Cells : FirstByte(c) \in Value
        BY DEF FirstByte, Value, Byte
      <3>2. bytes = [c \in Cells |-> FirstByte(c)]
        BY DEF Init
      <3> QED
        BY <3>1, <3>2 DEF Store
    <2>2. vectors \in [VectorAddrs -> Byte]
      <3> DEFINE first == <<240, 15, 15, 240, 254, 202>>
      <3>1. \A i \in 1 .. 6 : first[i] \in Byte
        BY DEF Byte
      <3>2. \A a \in VectorAddrs : a - AddrTop + 6 \in 1 .. 6
        BY RangeTopAssumption DEF VectorAddrs
      <3>3. \A a \in VectorAddrs : FirstVector(a) = first[a - AddrTop + 6]
        BY DEF FirstVector
      <3>4. vectors = [a \in VectorAddrs |-> FirstVector(a)]
        BY DEF Init
      <3> HIDE DEF first
      <3>5. \A a \in VectorAddrs : FirstVector(a) \in Byte
        BY <3>1, <3>2, <3>3
      <3> QED
        BY <3>4, <3>5
    <2>3. /\ rcache \in Caches /\ rcache_idx \in 0 .. IdxTop /\ wcache \in Caches /\ wcache_idx \in 0 .. IdxTop
      BY FirstIdxAssumption DEF Init, Caches, Value
    <2>4. Stack(<<>>, rcache, rcache_idx) /\ Stack(<<>>, wcache, wcache_idx)
      BY CacheAssumption DEF Stack
    <2>5. pushed_r = <<>> /\ pushed_w = <<>>
      BY DEF Init
    <2> QED
      BY <2>1, <2>2, <2>3, <2>4, <2>5 DEF MemoryInv, CachesInv
  <1>3. FlagsInv
    BY DEF Init, FlagsInv
  <1>4. RefsInv
    <2>1. /\ modules = <<>> /\ pre_op = <<>> /\ post_op = <<>> /\ registered = <<>>
          /\ ref_count = [m \in Module |-> Mirrors(m, {})] /\ freed = {}
          /\ holds = [m \in Module |-> 0] /\ dropped = [m \in Module |-> 0]
      BY DEF Init
    <2>2. \A m \in Module : Mirrors(m, {}) \in Nat
      BY MirrorFacts
    <2>3. /\ ref_count \in [Module -> Nat] /\ freed \in SUBSET Module
          /\ holds \in [Module -> Nat] /\ dropped \in [Module -> Nat]
      BY <2>1, <2>2
    <2> DEFINE own == Own(pre_op, post_op, modules, dropped, holds)
    <2>4. modules \in Seq(Tiers) /\ pre_op \in Seq(Allocated) /\ post_op \in Seq(Allocated)
      BY <2>1
    <2>5. \A x \in Module : own[x] = 0
      <3> SUFFICES ASSUME NEW x \in Module PROVE own[x] = 0
        OBVIOUS
      <3>1. Places(<<>>, x) = {} /\ Rows(TierChains(<<>>), x) = {}
        BY DEF Places, Rows, TierChains
      <3>2. Count(<<>>, x) = 0
        BY <3>1, FS_EmptySet DEF Count
      <3>3. Occurrences(TierChains(<<>>), x) = 0
        <4>1. TierChains(<<>>) \in Seq(Seq(Allocated))
          BY <2>1, <2>4, TierChainsType
        <4> QED
          BY <3>1, <4>1, RowsFacts, FS_EmptySet
      <3>4. own[x] = Count(pre_op, x) + Count(post_op, x) + Occurrences(TierChains(modules), x)
                       + dropped[x] + holds[x]
        BY DEF Own
      <3>5. Count(pre_op, x) = 0 /\ Count(post_op, x) = 0 /\ Occurrences(TierChains(modules), x) = 0
            /\ dropped[x] = 0 /\ holds[x] = 0
        BY <2>1, <3>2, <3>3
      <3> HIDE DEF own
      <3> QED
        BY <3>4, <3>5
    <2>6. own \in [Module -> Nat]
      BY <2>3, <2>4, RefsAccounts
    <2>7. Used(registered) = {}
      BY <2>1 DEF Used
    <2> HIDE DEF own
    <2>8. Accounts(ref_count, freed, own, Used(registered))
      BY <2>1, <2>2, <2>3, <2>5, <2>6, <2>7 DEF Accounts
    <2>9. Refs(pre_op, post_op, modules, dropped, holds, ref_count, freed, registered)
      BY <2>3, <2>4, <2>8, RefsAccounts DEF own
    <2> QED
      BY <2>3, <2>9 DEF RefsInv, RefsKept, Refs
  <1> QED
    BY <1>1, <1>2, <1>3, <1>4, Parts

(* The calls that leave the bus and the counts alone.                       *)
LEMMA BusUnchanged ==
  ASSUME ChainsInv, RefsInv, UNCHANGED <<busVars, refVars>>
  PROVE  ChainsInv' /\ RefsInv'
  <1>1. UNCHANGED <<modules, pre_op, post_op, registered, ref_count, freed, holds, dropped>>
    BY DEF busVars, refVars
  <1> QED
    BY <1>1 DEF ChainsInv, RefsInv, RefsKept

(* Every step keeps the invariant.                                          *)
LEMMA NextInv == IInv /\ [Next]_vars => IInv'
  <1> SUFFICES ASSUME IInv, [Next]_vars PROVE ChainsInv' /\ RefsInv' /\ MemoryInv' /\ FlagsInv'
    <2>1. IInv' <=> ChainsInv' /\ RefsInv' /\ MemoryInv' /\ FlagsInv'
      BY Parts, PTL
    <2> QED
      BY <2>1
  <1>0. ChainsInv /\ RefsInv /\ MemoryInv /\ FlagsInv
    BY Parts
  <1>1. ASSUME NEW reg \in Registrations, Register(reg[1], reg[2])
        PROVE  ChainsInv' /\ RefsInv' /\ MemoryInv' /\ FlagsInv'
    <2>1. ChainsInv' /\ RefsInv'
      BY <1>0, <1>1, RegisterKeeps
    <2>2. UNCHANGED <<memVars, cacheVars, is_up>>
      BY <1>1 DEF Register
    <2> QED
      BY <1>0, <2>1, <2>2 DEF memVars, cacheVars, MemoryInv, CachesInv, FlagsInv
  <1>2. ASSUME Reads PROVE ChainsInv' /\ RefsInv' /\ MemoryInv' /\ FlagsInv'
    <2>1. PICK addrs \in Seq(Addr) : ReadAll(addrs)
      BY <1>2 DEF Reads
    <2>2. UNCHANGED <<busVars, refVars, cache_disable, is_up>>
      BY <2>1 DEF ReadAll
    <2>3. MemoryInv'
      BY <1>0, <2>1, ReadAllKeeps
    <2>4. ChainsInv' /\ RefsInv'
      BY <1>0, <2>2, BusUnchanged
    <2> QED
      BY <1>0, <2>2, <2>3, <2>4 DEF FlagsInv
  <1>3. ASSUME Writes PROVE ChainsInv' /\ RefsInv' /\ MemoryInv' /\ FlagsInv'
    <2>1. PICK accesses \in Seq(Addr \X Byte), intended \in Intents : WriteAll(accesses, intended)
      BY <1>3 DEF Writes
    <2>2. UNCHANGED <<busVars, refVars, cache_disable, is_up>>
      BY <2>1 DEF WriteAll
    <2>3. MemoryInv'
      BY <1>0, <2>1, WriteAllKeeps
    <2>4. ChainsInv' /\ RefsInv'
      BY <1>0, <2>2, BusUnchanged
    <2> QED
      BY <1>0, <2>2, <2>3, <2>4 DEF FlagsInv
  <1>4. CASE membus_rcache_pop \/ membus_wcache_pop
    <2>1. UNCHANGED <<busVars, refVars, cache_disable, is_up>>
      BY <1>4 DEF membus_rcache_pop, membus_wcache_pop
    <2>2. MemoryInv'
      BY <1>0, <1>4, PopsKeep
    <2>3. ChainsInv' /\ RefsInv'
      BY <1>0, <2>1, BusUnchanged
    <2> QED
      BY <1>0, <2>1, <2>2, <2>3 DEF FlagsInv
  <1>5. ASSUME NEW should_disable \in BOOLEAN, membus_set_cache_disable(should_disable)
        PROVE  ChainsInv' /\ RefsInv' /\ MemoryInv' /\ FlagsInv'
    <2>1. /\ cache_disable' = should_disable
          /\ UNCHANGED <<busVars, refVars, memVars, rcache, rcache_idx, wcache, wcache_idx, pushed_r,
                         pushed_w, is_up>>
      BY <1>5 DEF membus_set_cache_disable
    <2>2. ChainsInv' /\ RefsInv'
      BY <1>0, <2>1, BusUnchanged
    <2> QED
      BY <1>0, <2>1, <2>2 DEF memVars, MemoryInv, CachesInv, FlagsInv
  <1>6. ASSUME NEW m \in Held, membus_module_retain(m) \/ membus_module_release(m)
        PROVE  ChainsInv' /\ RefsInv' /\ MemoryInv' /\ FlagsInv'
    <2>1. ChainsInv' /\ RefsInv'
      BY <1>0, <1>6, RetainKeeps, ReleaseKeeps
    <2>2. UNCHANGED <<memVars, cacheVars, is_up>>
      BY <1>6 DEF membus_module_retain, membus_module_release
    <2> QED
      BY <1>0, <2>1, <2>2 DEF memVars, cacheVars, MemoryInv, CachesInv, FlagsInv
  <1>7. CASE membus_free
    <2>1. ChainsInv' /\ RefsInv'
      BY <1>0, <1>7, FreeKeeps
    <2>2. is_up' = FALSE /\ UNCHANGED <<memVars, cacheVars>>
      BY <1>7 DEF membus_free
    <2> QED
      BY <1>0, <2>1, <2>2 DEF memVars, cacheVars, MemoryInv, CachesInv, FlagsInv
  <1>8. CASE UNCHANGED vars
    <2>1. ChainsInv' /\ RefsInv'
      BY <1>0, <1>8, BusUnchanged DEF vars
    <2> QED
      BY <1>0, <1>8, <2>1 DEF vars, memVars, cacheVars, MemoryInv, CachesInv, FlagsInv
  <1>9. ASSUME NEW r \in FillRanges,
               \/ membus_copy_out_bytes(r) \/ membus_save(r) \/ membus_fprintf(r)
               \/ \E v \in Written : membus_write_byte_to_range(r, v)
               \/ \E w \in Words : membus_write_word_to_range(r, w[1], w[2])
               \/ \E data \in Contents : membus_copy_in_bytes(r, data) \/ membus_load(r, data)
        PROVE  Reads \/ Writes
    BY <1>9, AccessCalls
  <1>10. ASSUME NEW a \in Accessed, membus_read_addr(a) \/ \E v \in Written : membus_write_addr(a, v)
         PROVE  Reads \/ Writes
    BY <1>10, AccessCalls
  <1> QED
    BY <1>1, <1>2, <1>3, <1>4, <1>5, <1>6, <1>7, <1>8, <1>9, <1>10 DEF Next

(* The inductive invariant of the bus.                                      *)
THEOREM Invariance == Spec => []IInv
  BY InitInv, NextInv, PTL DEF Spec

(* TypeOK of the memory bus: in particular the caches' indexes stay bytes,  *)
(* the reference counts never pass below zero, and what a read answers is   *)
(* a byte, or a byte that nobody wrote, whatever is registered where.       *)
THEOREM TypeCorrect == Spec => []TypeOK
  <1>1. IInv => TypeOK
    BY DEF IInv
  <1> QED
    BY <1>1, Invariance, PTL

(* The caches return the bytes read and written in the reverse order, for   *)
(* every number of slots and every index they start from                    *)
(* (membus_rcache_push, membus_rcache_pop and their twins).                 *)
THEOREM CachesPopLatest == Spec => []PopsLatest
  <1>1. IInv => PopsLatest
    BY DEF IInv, CachesInv, Stack, PopsLatest
  <1> QED
    BY <1>1, Invariance, PTL

(* A module's count is that of its places on the bus, of the mirrors of it  *)
(* that live, and of the references taken; nobody's module is freed and a   *)
(* bus frees what nobody holds (membus_register_module, membus_free,        *)
(* membus_module_release).                                                  *)
THEOREM RefsAreKept == Spec => []RefsKept
  <1>1. IInv => RefsKept
    BY DEF IInv
  <1> QED
    BY <1>1, Invariance, PTL

-----------------------------------------------------------------------------
(* The ranges of addresses: the functions of memory_addr_range.c compute    *)
(* what their names say on ranges that do not pass the end of memory.       *)

(* A range that fits ends where its addresses end. *)
LEMMA FinalInRange ==
  ASSUME NEW r \in AddrRanges, Fits(r), r.addr_len # 0
  PROVE  /\ Final(r) \in Addr
         /\ Final(r) = r.addr_lo + r.addr_len - 1
         /\ r.addr_lo \in Addr /\ r.addr_lo <= Final(r)
         /\ \A a \in Addr : does_include(r, a) <=> r.addr_lo <= a /\ a <= Final(r)
  BY RangeTopAssumption DEF AddrRanges, Addr, Size, Fits, Final, Wrap, does_include

(* with_lo_and_hi makes the range of the addresses from lo to hi, unless    *)
(* these are all the addresses there are.                                   *)
LEMMA LoHiExact ==
  ASSUME NEW lo \in Addr, NEW hi \in Addr, lo <= hi, lo # 0 \/ hi # AddrTop, NEW a \in Addr
  PROVE  does_include(with_lo_and_hi(lo, hi), a) <=> lo <= a /\ a <= hi
<1>1. with_lo_and_hi(lo, hi) = [addr_lo |-> lo, addr_len |-> hi - lo + 1]
  BY RangeTopAssumption DEF with_lo_and_hi, Wrap, Addr, Size
<1>2. QED
  BY <1>1, RangeTopAssumption DEF does_include, Addr

(* memory_addr_range_do_intersect is true exactly of ranges that share an   *)
(* address.                                                                 *)
THEOREM DoIntersectExact ==
  ASSUME NEW r1 \in AddrRanges, NEW r2 \in AddrRanges, Fits(r1), Fits(r2)
  PROVE  do_intersect(r1, r2) <=> Addrs(r1) \cap Addrs(r2) # {}
<1>1. CASE r1.addr_len = 0 \/ r2.addr_len = 0
  BY <1>1 DEF do_intersect, Addrs, does_include
<1>2. CASE r1.addr_len # 0 /\ r2.addr_len # 0
  <2>1. \A a \in Addr : a \in Addrs(r1) <=> r1.addr_lo <= a /\ a <= Final(r1)
    BY <1>2, FinalInRange DEF Addrs
  <2>2. \A a \in Addr : a \in Addrs(r2) <=> r2.addr_lo <= a /\ a <= Final(r2)
    BY <1>2, FinalInRange DEF Addrs
  <2>3. /\ r1.addr_lo \in Addr /\ r2.addr_lo \in Addr /\ Final(r1) \in Addr /\ Final(r2) \in Addr
        /\ r1.addr_lo <= Final(r1) /\ r2.addr_lo <= Final(r2)
    BY <1>2, FinalInRange
  <2>4. do_intersect(r1, r2) <=> (IF r2.addr_lo <= r1.addr_lo THEN Final(r2) >= r1.addr_lo
                                  ELSE Final(r1) >= r2.addr_lo)
    BY <1>2 DEF do_intersect
  <2>5. Addrs(r1) \subseteq Addr
    BY DEF Addrs
  <2>6. ASSUME do_intersect(r1, r2) PROVE Greater(r1.addr_lo, r2.addr_lo) \in Addrs(r1) \cap Addrs(r2)
    BY <2>1, <2>2, <2>3, <2>4, <2>6 DEF Greater, Addr
  <2>7. ASSUME NEW a \in Addrs(r1) \cap Addrs(r2) PROVE do_intersect(r1, r2)
    BY <2>1, <2>2, <2>3, <2>4, <2>5, <2>7 DEF Addr
  <2>8. QED BY <2>6, <2>7
<1>3. QED BY <1>1, <1>2

(* memory_addr_range_intersection returns the range of the addresses both   *)
(* ranges include.                                                          *)
THEOREM IntersectionExact ==
  ASSUME NEW r1 \in AddrRanges, NEW r2 \in AddrRanges, Fits(r1), Fits(r2)
  PROVE  Addrs(intersection(r1, r2)) = Addrs(r1) \cap Addrs(r2)
<1>1. CASE ~do_intersect(r1, r2)
  <2>1. Addrs(r1) \cap Addrs(r2) = {}
    BY <1>1, DoIntersectExact
  <2>2. Addrs(undef) = {}
    BY DEF Addrs, undef, does_include
  <2>3. QED BY <1>1, <2>1, <2>2 DEF intersection
<1>2. CASE do_intersect(r1, r2)
  <2> DEFINE lo == Greater(r1.addr_lo, r2.addr_lo)
             hi == Lesser(Final(r1), Final(r2))
  <2>1. r1.addr_len # 0 /\ r2.addr_len # 0
    BY <1>2 DEF do_intersect
  <2>2. /\ r1.addr_lo \in Addr /\ r2.addr_lo \in Addr /\ Final(r1) \in Addr /\ Final(r2) \in Addr
        /\ r1.addr_lo <= Final(r1) /\ r2.addr_lo <= Final(r2)
    BY <2>1, FinalInRange
  <2>3. lo \in Addr /\ hi \in Addr /\ lo <= hi
    BY <1>2, <2>2 DEF Greater, Lesser, do_intersect, Addr
  <2>4. lo # 0 \/ hi # AddrTop
    <3>1. Final(r1) - r1.addr_lo + 1 = r1.addr_len /\ r1.addr_len \in Addr
      BY <2>1, FinalInRange DEF AddrRanges, Addr
    <3>2. lo >= r1.addr_lo /\ hi <= Final(r1)
      BY <2>2 DEF Greater, Lesser, Addr
    <3>3. QED BY <3>1, <3>2, <2>2, <2>3, RangeTopAssumption DEF Addr
  <2>5. ASSUME NEW a \in Addr
        PROVE  does_include(intersection(r1, r2), a) <=> does_include(r1, a) /\ does_include(r2, a)
    <3>1. does_include(intersection(r1, r2), a) <=> lo <= a /\ a <= hi
      BY <1>2, <2>3, <2>4, LoHiExact DEF intersection
    <3>2. does_include(r1, a) <=> r1.addr_lo <= a /\ a <= Final(r1)
      BY <2>1, FinalInRange
    <3>3. does_include(r2, a) <=> r2.addr_lo <= a /\ a <= Final(r2)
      BY <2>1, FinalInRange
    <3>4. QED BY <3>1, <3>2, <3>3, <2>2 DEF Greater, Lesser, Addr
  <2>6. QED BY <2>5 DEF Addrs
<1>3. QED BY <1>1, <1>2

(* memory_addr_range_union of ranges that meet returns the range of the     *)
(* addresses either includes, unless these are all the addresses there are: *)
(* their number does not fit the length.                                    *)
THEOREM UnionExact ==
  ASSUME NEW r1 \in AddrRanges, NEW r2 \in AddrRanges, Fits(r1), Fits(r2),
         do_intersect(r1, r2), Addrs(r1) \cup Addrs(r2) # Addr
  PROVE  Addrs(union(r1, r2)) = Addrs(r1) \cup Addrs(r2)
<1> DEFINE lo == Lesser(r1.addr_lo, r2.addr_lo)
           hi == Greater(Final(r1), Final(r2))
<1>1. r1.addr_len # 0 /\ r2.addr_len # 0
  BY DEF do_intersect
<1>2. /\ r1.addr_lo \in Addr /\ r2.addr_lo \in Addr /\ Final(r1) \in Addr /\ Final(r2) \in Addr
      /\ r1.addr_lo <= Final(r1) /\ r2.addr_lo <= Final(r2)
  BY <1>1, FinalInRange
<1>3. lo \in Addr /\ hi \in Addr /\ lo <= hi
  BY <1>2 DEF Greater, Lesser, Addr
<1>4. ASSUME NEW a \in Addr
      PROVE  does_include(r1, a) \/ does_include(r2, a) <=> lo <= a /\ a <= hi
  <2>1. does_include(r1, a) <=> r1.addr_lo <= a /\ a <= Final(r1)
    BY <1>1, FinalInRange
  <2>2. does_include(r2, a) <=> r2.addr_lo <= a /\ a <= Final(r2)
    BY <1>1, FinalInRange
  <2>3. QED BY <2>1, <2>2, <1>2 DEF Greater, Lesser, Addr, do_intersect
<1>5. lo # 0 \/ hi # AddrTop
  <2>1. SUFFICES ASSUME lo = 0, hi = AddrTop PROVE FALSE
    OBVIOUS
  <2>2. \A a \in Addr : lo <= a /\ a <= hi
    BY <2>1, RangeTopAssumption DEF Addr
  <2>3. \A a \in Addr : a \in Addrs(r1) \cup Addrs(r2)
    BY <1>4, <2>2 DEF Addrs
  <2>4. Addrs(r1) \cup Addrs(r2) \subseteq Addr
    BY DEF Addrs
  <2>5. QED BY <2>3, <2>4
<1>6. \A a \in Addr : does_include(union(r1, r2), a) <=> lo <= a /\ a <= hi
  BY <1>3, <1>5, LoHiExact DEF union
<1>7. QED BY <1>4, <1>6 DEF Addrs
=============================================================================
