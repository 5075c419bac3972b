-------------------------- MODULE MembusReadsProofs --------------------------
(***************************************************************************)
(* What an address reads as, whatever the order of the registrations: the  *)
(* walk of the tiers and their chains finds the registration that an       *)
(* address means, and a write reaches its cell and those of the post-op    *)
(* tier.                                                                   *)
(***************************************************************************)
EXTENDS MembusProofs

(* A module begins somewhere, and not after what it covers.                 *)
LEMMA LoType ==
  ASSUME NEW m \in Allocated
  PROVE  Lo(m) \in Nat /\ \A a : Covers(m, a) => Lo(m) <= a
  <1>1. Lo(m) \in Nat
    BY SpanFacts, RangeTopAssumption DEF Lo, Allocated, Addr
  <1> QED
    BY <1>1 DEF Covers, Lo, does_include

-----------------------------------------------------------------------------
(* The order of the registrations.                                          *)

(* Before and InOrder of Membus for a given sequence of registrations.      *)
Precedes(reg, i, j) ==
  \/ reg[i][1] < reg[j][1]
  \/ reg[i][1] = reg[j][1] /\ Lo(reg[i][2]) < Lo(reg[j][2])
  \/ reg[i][1] = reg[j][1] /\ Lo(reg[i][2]) = Lo(reg[j][2]) /\ i > j
Orders(reg, tier, chain, order) ==
  /\ order \in [DOMAIN chain -> DOMAIN reg]
  /\ \A j \in DOMAIN chain : reg[order[j]] = <<tier, chain[j]>>
  /\ \A j, k \in DOMAIN chain : j < k => Precedes(reg, order[j], order[k])
  /\ \A i \in DOMAIN reg : reg[i][1] = tier => \E j \in DOMAIN chain : order[j] = i
Ordered(reg, tier, chain) == \E order : Orders(reg, tier, chain, order)

(* One registration precedes another, and not the other way round.          *)
LEMMA PrecedesFacts ==
  ASSUME NEW reg \in Seq(Registrations), NEW i \in DOMAIN reg, NEW j \in DOMAIN reg
  PROVE  ~ (Precedes(reg, i, j) /\ Precedes(reg, j, i))
  <1>1. /\ i \in Nat /\ j \in Nat /\ reg[i][1] \in Int /\ reg[j][1] \in Int
        /\ reg[i][2] \in Allocated /\ reg[j][2] \in Allocated
    <2>1. reg[i] \in Registrations /\ reg[j] \in Registrations
      OBVIOUS
    <2> QED
      BY <2>1, RegistrationsAssumption
  <1>2. Lo(reg[i][2]) \in Nat /\ Lo(reg[j][2]) \in Nat
    BY <1>1, LoType
  <1> QED
    BY <1>1, <1>2 DEF Precedes

(* Within a chain the modules begin one not before the other.               *)
LEMMA ChainSorted ==
  ASSUME NEW reg \in Seq(Registrations), NEW tier, NEW chain \in Seq(Allocated),
         Ordered(reg, tier, chain), NEW j \in DOMAIN chain, NEW k \in DOMAIN chain, j < k
  PROVE  Lo(chain[j]) <= Lo(chain[k])
  <1>1. PICK order : Orders(reg, tier, chain, order)
    BY DEF Ordered
  <1>2. Precedes(reg, order[j], order[k]) /\ reg[order[j]] = <<tier, chain[j]>> /\ reg[order[k]] = <<tier, chain[k]>>
    BY <1>1 DEF Orders
  <1>3. Lo(chain[j]) \in Nat /\ Lo(chain[k]) \in Nat
    BY LoType
  <1>4. tier \in Int
    <2>1. order[j] \in DOMAIN reg
      BY <1>1 DEF Orders
    <2>2. reg[order[j]] \in Registrations
      BY <2>1
    <2> QED
      BY <1>2, <2>2, RegistrationsAssumption
  <1> QED
    BY <1>2, <1>3, <1>4 DEF Precedes

(* A registration leaves the order of those before it as it is.             *)
LEMMA AppendFacts ==
  ASSUME NEW reg \in Seq(Registrations), NEW e \in Registrations
  PROVE  /\ Append(reg, e) \in Seq(Registrations)
         /\ Len(reg) \in Nat /\ DOMAIN reg = 1 .. Len(reg)
         /\ DOMAIN Append(reg, e) = 1 .. Len(reg) + 1
         /\ Append(reg, e)[Len(reg) + 1] = e
         /\ \A i \in DOMAIN reg : i \in DOMAIN Append(reg, e) /\ Append(reg, e)[i] = reg[i]
  OBVIOUS

(* A chain of another tier stays in order.                                  *)
LEMMA OrderKept ==
  ASSUME NEW reg \in Seq(Registrations), NEW e \in Registrations, NEW tier, NEW chain \in Seq(Allocated),
         Ordered(reg, tier, chain), e[1] # tier
  PROVE  Ordered(Append(reg, e), tier, chain)
  <1> DEFINE after == Append(reg, e)
  <1>1. PICK order : Orders(reg, tier, chain, order)
    BY DEF Ordered
  <1>2. /\ Len(reg) \in Nat /\ DOMAIN reg = 1 .. Len(reg) /\ DOMAIN after = 1 .. Len(reg) + 1
        /\ after[Len(reg) + 1] = e /\ \A i \in DOMAIN reg : i \in DOMAIN after /\ after[i] = reg[i]
    BY AppendFacts
  <1> HIDE DEF after
  <1>3. order \in [DOMAIN chain -> DOMAIN after] /\ \A j \in DOMAIN chain : order[j] \in DOMAIN reg
    BY <1>1, <1>2 DEF Orders
  <1>4. \A j \in DOMAIN chain : after[order[j]] = <<tier, chain[j]>>
    BY <1>1, <1>2, <1>3 DEF Orders
  <1>5. ASSUME NEW j \in DOMAIN chain, NEW k \in DOMAIN chain, j < k
        PROVE  Precedes(after, order[j], order[k])
    <2>1. Precedes(reg, order[j], order[k])
      BY <1>1, <1>5 DEF Orders
    <2>2. after[order[j]] = reg[order[j]] /\ after[order[k]] = reg[order[k]]
      BY <1>2, <1>3
    <2> QED
      BY <2>1, <2>2 DEF Precedes
  <1>6. ASSUME NEW i \in DOMAIN after, after[i][1] = tier PROVE \E j \in DOMAIN chain : order[j] = i
    <2>1. i # Len(reg) + 1
      BY <1>2, <1>6
    <2>2. i \in DOMAIN reg
      BY <1>2, <2>1
    <2> QED
      BY <1>1, <1>2, <1>6, <2>2 DEF Orders
  <1>7. Orders(after, tier, chain, order)
    BY <1>3, <1>4, <1>5, <1>6 DEF Orders
  <1> QED
    BY <1>7 DEF Ordered, after

(* The chain of its own tier is in order with the module in its place: a    *)
(* module goes before those registered earlier that begin where it does.    *)
LEMMA OrderInserted ==
  ASSUME NEW reg \in Seq(Registrations), NEW tier \in Int, NEW m \in Allocated, NEW chain \in Seq(Allocated),
         <<tier, m>> \in Registrations, Ordered(reg, tier, chain),
         NEW new \in Seq(Allocated), NEW p, Inserted(chain, new, p, m, Len(chain)), PlaceFor(chain, m, p)
  PROVE  Ordered(Append(reg, <<tier, m>>), tier, new)
  <1> DEFINE after == Append(reg, <<tier, m>>)
             r == Len(reg) + 1
             n == Len(chain)
  <1>1. PICK order : Orders(reg, tier, chain, order)
    BY DEF Ordered
  <1>2. /\ r \in Nat /\ r >= 1 /\ DOMAIN reg = 1 .. r - 1 /\ DOMAIN after = 1 .. r
        /\ after[r] = <<tier, m>> /\ \A i \in DOMAIN reg : i \in DOMAIN after /\ after[i] = reg[i]
    BY AppendFacts
  <1>3. /\ n \in Nat /\ DOMAIN chain = 1 .. n /\ DOMAIN new = 1 .. n + 1 /\ p \in 1 .. n + 1 /\ p \in Int
        /\ new[p] = m /\ \A i \in 1 .. n : IF i < p THEN new[i] = chain[i] ELSE new[i + 1] = chain[i]
    BY DEF Inserted
  <1> HIDE DEF after, n
  <1>4. \A j \in 1 .. n : /\ order[j] \in DOMAIN reg /\ order[j] < r
                          /\ reg[order[j]] = <<tier, chain[j]>> /\ after[order[j]] = <<tier, chain[j]>>
                          /\ Lo(chain[j]) \in Nat
    <2>1. \A j \in 1 .. n : order[j] \in DOMAIN reg /\ reg[order[j]] = <<tier, chain[j]>>
      BY <1>1, <1>3 DEF Orders
    <2>2. \A j \in 1 .. n : Lo(chain[j]) \in Nat
      <3>1. \A j \in DOMAIN chain : chain[j] \in Allocated
        OBVIOUS
      <3> QED
        BY <1>3, <3>1, LoType
    <2>3. \A i \in DOMAIN reg : i < r /\ after[i] = reg[i]
      BY <1>2
    <2>4. \A j \in 1 .. n : order[j] < r /\ after[order[j]] = reg[order[j]]
      BY <2>1, <2>3
    <2> QED
      BY <2>1, <2>2, <2>4
  <1> HIDE DEF r
  <1>5. Lo(m) \in Nat
    BY LoType
  <1> DEFINE From(k) == IF k < p THEN k ELSE k - 1
             place == [k \in 1 .. n + 1 |-> IF k = p THEN r ELSE order[From(k)]]
  <1>6. \A k \in 1 .. n + 1 : k # p => From(k) \in 1 .. n /\ new[k] = chain[From(k)]
    <2> SUFFICES ASSUME NEW k \in 1 .. n + 1, k # p PROVE From(k) \in 1 .. n /\ new[k] = chain[From(k)]
      OBVIOUS
    <2>1. CASE k < p
      BY <1>3, <2>1
    <2>2. CASE ~ (k < p)
      <3>1. k - 1 \in 1 .. n /\ ~ (k - 1 < p) /\ (k - 1) + 1 = k
        BY <1>3, <2>2
      <3> QED
        BY <1>3, <2>2, <3>1
    <2> QED
      BY <2>1, <2>2
  <1>7. /\ \A k \in 1 .. n + 1 : k # p => place[k] = order[From(k)]
        /\ place[p] = r
    BY <1>3
  <1>8. place \in [DOMAIN new -> DOMAIN after]
    <2>1. \A k \in 1 .. n + 1 : (IF k = p THEN r ELSE order[From(k)]) \in 1 .. r
      <3> SUFFICES ASSUME NEW k \in 1 .. n + 1 PROVE (IF k = p THEN r ELSE order[From(k)]) \in 1 .. r
        OBVIOUS
      <3> HIDE DEF From
      <3>1. ASSUME k # p PROVE order[From(k)] \in 1 .. r
        <4>1. order[From(k)] \in DOMAIN reg
          BY <1>4, <1>6, <3>1
        <4> QED
          BY <1>2, <4>1
      <3>2. r \in 1 .. r
        BY <1>2
      <3> QED
        BY <3>1, <3>2
    <2> HIDE DEF From
    <2> QED
      BY <1>2, <1>3, <2>1
  <1>9. \A j, k \in 1 .. n + 1 : j < k /\ j # p /\ k # p => From(j) < From(k)
    BY <1>3
  <1>10. \A k \in 1 .. n + 1 : k < p => From(k) \in 1 .. p - 1
    BY <1>3
  <1>11. \A k \in 1 .. n + 1 : p < k => From(k) = p \/ p < From(k)
    BY <1>3
  <1> HIDE DEF From, place
  <1>12. ASSUME NEW k \in 1 .. n + 1 PROVE after[place[k]] = <<tier, new[k]>>
    <2>1. CASE k = p
      BY <1>2, <1>3, <1>7, <2>1
    <2>2. CASE k # p
      <3>1. From(k) \in 1 .. n /\ new[k] = chain[From(k)] /\ place[k] = order[From(k)]
        BY <1>6, <1>7, <2>2
      <3>2. after[order[From(k)]] = <<tier, chain[From(k)]>>
        BY <1>4, <3>1
      <3> QED
        BY <3>1, <3>2
    <2> QED
      BY <2>1, <2>2
  <1>13. ASSUME NEW j \in 1 .. n + 1, NEW k \in 1 .. n + 1, j < k PROVE Precedes(after, place[j], place[k])
    <2>1. CASE j # p /\ k # p
      <3> DEFINE x == From(j)
                 y == From(k)
      <3>1. x \in 1 .. n /\ y \in 1 .. n /\ x < y /\ place[j] = order[x] /\ place[k] = order[y]
        BY <1>6, <1>7, <1>9, <1>13, <2>1
      <3> HIDE DEF x, y
      <3>2. Precedes(reg, order[x], order[y])
        BY <1>1, <1>3, <3>1 DEF Orders
      <3>3. after[order[x]] = reg[order[x]] /\ after[order[y]] = reg[order[y]]
        <4>1. order[x] \in DOMAIN reg /\ order[y] \in DOMAIN reg
          BY <1>4, <3>1
        <4> QED
          BY <1>2, <4>1
      <3> QED
        BY <3>1, <3>2, <3>3 DEF Precedes
    <2>2. CASE k = p
      <3> DEFINE x == From(j)
      <3>0. j # p /\ j < p
        BY <1>3, <1>13, <2>2
      <3>1. x \in 1 .. n /\ x \in 1 .. p - 1 /\ place[j] = order[x] /\ place[k] = r
        BY <1>6, <1>7, <1>10, <3>0, <2>2
      <3> HIDE DEF x
      <3>2. Lo(chain[x]) < Lo(m)
        BY <3>1 DEF PlaceFor
      <3>3. after[r] = <<tier, m>> /\ after[order[x]] = <<tier, chain[x]>>
        BY <1>2, <1>4, <3>1
      <3> QED
        BY <3>1, <3>2, <3>3 DEF Precedes
    <2>3. CASE j = p
      <3> DEFINE y == From(k)
      <3>0. k # p /\ p < k
        BY <1>3, <1>13, <2>3
      <3>1. y \in 1 .. n /\ (y = p \/ p < y) /\ place[j] = r /\ place[k] = order[y]
        BY <1>6, <1>7, <1>11, <3>0, <2>3
      <3> HIDE DEF y
      <3>2. p \in 1 .. n /\ ~ (Lo(chain[p]) < Lo(m))
        BY <1>3, <3>1 DEF PlaceFor, n
      <3>3. Lo(chain[p]) <= Lo(chain[y])
        <4>1. p \in DOMAIN chain /\ y \in DOMAIN chain
          BY <1>3, <3>1, <3>2
        <4>2. CASE y = p
          BY <1>4, <3>2, <4>2
        <4>3. CASE p < y
          BY <4>1, <4>3, ChainSorted
        <4> QED
          BY <3>1, <4>2, <4>3
      <3>4. Lo(m) <= Lo(chain[y]) /\ order[y] < r
        BY <1>4, <1>5, <3>1, <3>2, <3>3
      <3>5. after[r] = <<tier, m>> /\ after[order[y]] = <<tier, chain[y]>>
        BY <1>2, <1>4, <3>1
      <3>6. order[y] \in Nat /\ r \in Nat /\ Lo(chain[y]) \in Nat
        BY <1>2, <1>4, <3>1
      <3> QED
        BY <1>5, <3>1, <3>4, <3>5, <3>6 DEF Precedes
    <2> QED
      BY <1>13, <2>1, <2>2, <2>3
  <1>14. ASSUME NEW i \in DOMAIN after, after[i][1] = tier PROVE \E k \in 1 .. n + 1 : place[k] = i
    <2>1. CASE i = r
      BY <1>3, <1>7, <2>1
    <2>2. CASE i # r
      <3>1. i \in DOMAIN reg /\ reg[i][1] = tier
        BY <1>2, <1>14, <2>2
      <3>2. PICK x \in 1 .. n : order[x] = i
        BY <1>1, <1>3, <3>1 DEF Orders
      <3>3. PICK k \in 1 .. n + 1 : k # p /\ From(k) = x
        <4>1. CASE x < p
          <5>1. x \in 1 .. n + 1 /\ x # p /\ From(x) = x
            BY <1>3, <4>1 DEF From
          <5> QED
            BY <5>1
        <4>2. CASE ~ (x < p)
          <5>1. x + 1 \in 1 .. n + 1 /\ x + 1 # p /\ From(x + 1) = x
            BY <1>3, <4>2 DEF From
          <5> QED
            BY <5>1
        <4> QED
          BY <4>1, <4>2
      <3> QED
        BY <1>7, <3>2, <3>3
    <2> QED
      BY <2>1, <2>2
  <1>15. Orders(after, tier, new, place)
    BY <1>3, <1>8, <1>12, <1>13, <1>14 DEF Orders
  <1> QED
    BY <1>15 DEF Ordered, after

-----------------------------------------------------------------------------
(* What membus_register_module makes of the tiers.                          *)

(* A tier that is there gets the module, or one is linked in its place, or  *)
(* one before all the others loses them.                                    *)
NewTier(tier, m) == [tier |-> tier, chain |-> <<m>>]
TierGrown(tiers, after, tier, m, k) ==
  /\ k \in DOMAIN tiers /\ tiers[k].tier = tier /\ DOMAIN after = DOMAIN tiers
  /\ after[k].tier = tier /\ after[k].chain = Insert(tiers[k].chain, m)
  /\ \A i \in DOMAIN tiers \ {k} : after[i] = tiers[i]
TierLinked(tiers, after, tier, m, p) ==
  /\ Inserted(tiers, after, p, NewTier(tier, m), Len(tiers))
  /\ \A i \in DOMAIN tiers : IF i < p THEN tiers[i].tier < tier ELSE tier < tiers[i].tier
TierAlone(tiers, after, tier, m) == tiers # <<>> /\ after = <<NewTier(tier, m)>>
Ascending(tiers) == \A i, j \in DOMAIN tiers : i < j => tiers[i].tier < tiers[j].tier

(* There is no other case.                                                  *)
LEMMA WithTierShape ==
  ASSUME ChainsInv, Ascending(modules), NEW tier \in Int, NEW m \in Allocated
  PROVE  \/ \E k : TierGrown(modules, WithTier(tier, m), tier, m, k)
         \/ \E p : TierLinked(modules, WithTier(tier, m), tier, m, p)
         \/ TierAlone(modules, WithTier(tier, m), tier, m)
  <1> DEFINE below == {i \in DOMAIN modules : modules[i].tier < tier}
             lower == Cardinality(below)
             here == {i \in DOMAIN modules : modules[i].tier = tier}
             new == NewTier(tier, m)
             n == Len(modules)
             W == WithTier(tier, m)
  <1>1. /\ modules \in Seq(Tiers) /\ n \in Nat /\ DOMAIN modules = 1 .. n /\ Distinct(modules)
        /\ \A i \in 1 .. n : modules[i] \in Tiers
    <2>1. modules \in Seq(Tiers) /\ Distinct(modules)
      BY DEF ChainsInv, Tiers, Distinct
    <2> QED
      BY <2>1
  <1>2. new \in Tiers
    BY DEF Tiers, NewTier
  <1>3. W = IF here # {}
              THEN [i \in DOMAIN modules |->
                      IF i \in here THEN [modules[i] EXCEPT !.chain = Insert(@, m)] ELSE modules[i]]
              ELSE IF lower > 0 THEN InsertAt(modules, lower + 1, new) ELSE <<new>>
    BY DEF WithTier, NewTier
  <1>4. \A i \in 1 .. n : modules[i].tier \in Int
    BY <1>1 DEF Tiers
  <1> HIDE DEF n, W, new
  <1>5. PICK l \in 0 .. n : below = 1 .. l /\ lower = l
    <2>1. \A i \in below : \A j \in 1 .. i : j \in below
      <3> SUFFICES ASSUME NEW i \in below, NEW j \in 1 .. i PROVE j \in below
        OBVIOUS
      <3>1. i \in 1 .. n /\ j \in 1 .. n /\ modules[i].tier < tier
        BY <1>1
      <3>2. j = i \/ modules[j].tier < modules[i].tier
        BY <1>1, <3>1 DEF Ascending
      <3> QED
        BY <1>1, <1>4, <3>1, <3>2
    <2>2. below \in SUBSET (1 .. n)
      BY <1>1
    <2> HIDE DEF below
    <2> QED
      BY <1>1, <2>1, <2>2, Beginning
  <1>6. CASE here # {}
    <2>1. PICK k \in 1 .. n : modules[k].tier = tier
      BY <1>1, <1>6
    <2>2. here = {k}
      BY <1>1, <2>1 DEF Distinct
    <2>3. W = [i \in 1 .. n |-> IF i = k THEN [modules[i] EXCEPT !.chain = Insert(@, m)] ELSE modules[i]]
      BY <1>1, <1>3, <1>6, <2>2
    <2>4. modules[k] \in Tiers
      BY <1>1
    <2>5. DOMAIN W = 1 .. n /\ \A i \in (1 .. n) \ {k} : W[i] = modules[i]
      BY <2>3
    <2>6. W[k] = [modules[k] EXCEPT !.chain = Insert(@, m)]
      BY <2>3
    <2>7. W[k].tier = tier /\ W[k].chain = Insert(modules[k].chain, m)
      BY <2>1, <2>4, <2>6 DEF Tiers
    <2>8. TierGrown(modules, W, tier, m, k)
      BY <1>1, <2>1, <2>5, <2>7 DEF TierGrown
    <2> QED
      BY <2>8 DEF W
  <1>7. CASE here = {} /\ lower > 0
    <2>1. W = InsertAt(modules, l + 1, new) /\ l + 1 \in 1 .. n + 1
      BY <1>1, <1>3, <1>5, <1>7
    <2>2. Inserted(modules, W, l + 1, new, n)
      BY <1>1, <1>2, <2>1, InsertAtFacts DEF n
    <2>3. ASSUME NEW i \in 1 .. n PROVE IF i < l + 1 THEN modules[i].tier < tier ELSE tier < modules[i].tier
      <3>1. i \in below <=> i < l + 1
        BY <1>1, <1>5
      <3>2. i \in below <=> modules[i].tier < tier
        BY <1>1
      <3>3. modules[i].tier # tier
        BY <1>1, <1>7
      <3> QED
        BY <1>4, <3>1, <3>2, <3>3
    <2>4. TierLinked(modules, W, tier, m, l + 1)
      BY <1>1, <2>2, <2>3 DEF TierLinked, new, n
    <2> QED
      BY <2>4 DEF W
  <1>8. CASE here = {} /\ ~ (lower > 0)
    <2>1. W = <<new>>
      BY <1>3, <1>8
    <2>2. CASE modules # <<>>
      <3>1. TierAlone(modules, W, tier, m)
        BY <2>1, <2>2 DEF TierAlone, new
      <3> QED
        BY <3>1 DEF W
    <2>3. CASE modules = <<>>
      <3>1. n = 0 /\ DOMAIN modules = {}
        BY <1>1, <2>3 DEF n
      <3>2. Inserted(modules, W, 1, new, n)
        BY <2>1, <3>1 DEF Inserted
      <3>3. TierLinked(modules, W, tier, m, 1)
        BY <3>1, <3>2 DEF TierLinked, new, n
      <3> QED
        BY <3>3 DEF W
    <2> QED
      BY <2>2, <2>3
  <1> QED
    BY <1>6, <1>7, <1>8

(* OrderInv of Membus, for given tiers, post-op modules and registrations.  *)
Tidy(tiers) ==
  /\ Ascending(tiers)
  /\ \A i \in DOMAIN tiers : tiers[i].tier \notin {PreOp, PostOp} /\ tiers[i].chain # <<>>
Chained(reg, tiers) == \A i \in DOMAIN tiers : Ordered(reg, tiers[i].tier, tiers[i].chain)
Placed(reg, tiers) ==
  \A e \in Range(reg) : e[1] \in {PreOp, PostOp} \/ \E i \in DOMAIN tiers : tiers[i].tier = e[1]
Copied(reg, post) == \A m \in Module : <<PostOp, m>> \in Range(reg) <=> m \in Range(post)
Arranged(tiers, post, reg, kept) ==
  Tidy(tiers) /\ (kept => Chained(reg, tiers) /\ Placed(reg, tiers) /\ Copied(reg, post))

(* It is that of the state, and of the next state.                          *)
LEMMA OrderParts ==
  /\ OrderInv <=> Arranged(modules, post_op, registered, is_up /\ TiersKept)
  /\ OrderInv' <=> Arranged(modules', post_op', registered', is_up' /\ TiersKept')
  BY DEF OrderInv, Arranged, Tidy, Ascending, Chained, Placed, Copied, InOrder, Ordered, Orders,
         Before, Precedes

(* What was registered, with one registration more.                         *)
LEMMA RangeAppend ==
  ASSUME NEW reg \in Seq(Registrations), NEW e \in Registrations
  PROVE  Range(Append(reg, e)) = Range(reg) \cup {e}
  <1> DEFINE after == Append(reg, e)
  <1>1. /\ Len(reg) \in Nat /\ DOMAIN reg = 1 .. Len(reg) /\ DOMAIN after = 1 .. Len(reg) + 1
        /\ after[Len(reg) + 1] = e /\ \A i \in DOMAIN reg : i \in DOMAIN after /\ after[i] = reg[i]
    BY AppendFacts
  <1> HIDE DEF after
  <1>2. ASSUME NEW x \in Range(after) PROVE x \in Range(reg) \cup {e}
    <2>1. PICK i \in DOMAIN after : after[i] = x
      BY DEF Range
    <2>2. CASE i = Len(reg) + 1
      BY <1>1, <2>1, <2>2
    <2>3. CASE i # Len(reg) + 1
      <3>1. i \in DOMAIN reg
        BY <1>1, <2>3
      <3> QED
        BY <1>1, <2>1, <3>1 DEF Range
    <2> QED
      BY <2>2, <2>3
  <1>3. ASSUME NEW x \in Range(reg) \cup {e} PROVE x \in Range(after)
    <2>1. CASE x = e
      <3>1. Len(reg) + 1 \in DOMAIN after
        BY <1>1
      <3> QED
        BY <1>1, <2>1, <3>1 DEF Range
    <2>2. CASE x \in Range(reg)
      BY <1>1, <2>2 DEF Range
    <2> QED
      BY <2>1, <2>2
  <1> QED
    BY <1>2, <1>3 DEF after

(* What a sequence holds, with one element more.                            *)
LEMMA RangeInserted ==
  ASSUME NEW s, NEW t, NEW p, NEW e, NEW n, Inserted(s, t, p, e, n)
  PROVE  Range(t) = Range(s) \cup {e}
  <1>1. /\ p \in DOMAIN t /\ t[p] = e
        /\ \A i \in DOMAIN s : Shift(p, i) \in DOMAIN t /\ t[Shift(p, i)] = s[i]
        /\ \A k \in DOMAIN t \ {p} : \E i \in DOMAIN s : Shift(p, i) = k
    BY ShiftFacts
  <1> QED
    BY <1>1 DEF Range

(* A chain of one module, the first registered in its tier.                 *)
LEMMA OrderAlone ==
  ASSUME NEW reg \in Seq(Registrations), NEW e \in Registrations, \A i \in DOMAIN reg : reg[i][1] # e[1]
  PROVE  Ordered(Append(reg, e), e[1], <<e[2]>>)
  <1> DEFINE after == Append(reg, e)
             r == Len(reg) + 1
             order == [j \in {1} |-> r]
  <1>1. /\ r \in Nat /\ DOMAIN reg = 1 .. r - 1 /\ DOMAIN after = 1 .. r /\ r \in 1 .. r
        /\ after[r] = e /\ \A i \in DOMAIN reg : i \in DOMAIN after /\ after[i] = reg[i]
    BY AppendFacts
  <1>2. e = <<e[1], e[2]>>
    BY RegistrationsAssumption
  <1>3. DOMAIN <<e[2]>> = {1} /\ <<e[2]>>[1] = e[2]
    OBVIOUS
  <1> HIDE DEF after, r
  <1>4. order \in [{1} -> DOMAIN after] /\ order[1] = r
    BY <1>1
  <1> HIDE DEF order
  <1>5. ASSUME NEW i \in DOMAIN after, after[i][1] = e[1] PROVE order[1] = i
    <2>1. CASE i = r
      BY <1>4, <2>1
    <2>2. CASE i # r
      <3>1. i \in DOMAIN reg
        BY <1>1, <2>2
      <3> QED
        BY <1>1, <1>5, <3>1
    <2> QED
      BY <2>1, <2>2
  <1>6. Orders(after, e[1], <<e[2]>>, order)
    BY <1>1, <1>2, <1>3, <1>4, <1>5 DEF Orders
  <1> QED
    BY <1>6 DEF Ordered, after

(* A registration puts a module in a chain, in a place that keeps it in     *)
(* order.                                                                   *)
LEMMA OrderInsert ==
  ASSUME NEW reg \in Seq(Registrations), NEW tier \in Int, NEW m \in Allocated, NEW chain \in Seq(Allocated),
         <<tier, m>> \in Registrations, Ordered(reg, tier, chain)
  PROVE  Ordered(Append(reg, <<tier, m>>), tier, Insert(chain, m))
  <1>1. /\ Insert(chain, m) \in Seq(Allocated)
        /\ \E p : Inserted(chain, Insert(chain, m), p, m, Len(chain)) /\ PlaceFor(chain, m, p)
    BY InsertFacts
  <1>2. PICK p : Inserted(chain, Insert(chain, m), p, m, Len(chain)) /\ PlaceFor(chain, m, p)
    BY <1>1
  <1> QED
    BY <1>1, <1>2, OrderInserted

(* A chain gets one module more.                                            *)
LEMMA RangeInsert ==
  ASSUME NEW chain \in Seq(Allocated), NEW m \in Allocated
  PROVE  Range(Insert(chain, m)) = Range(chain) \cup {m} /\ Insert(chain, m) # <<>>
  <1>1. PICK p : Inserted(chain, Insert(chain, m), p, m, Len(chain)) /\ PlaceFor(chain, m, p)
    BY InsertFacts
  <1>2. p \in DOMAIN Insert(chain, m)
    BY <1>1, ShiftFacts
  <1> QED
    BY <1>1, <1>2, RangeInserted

(* The tiers are in order after a tier got a module.                        *)
LEMMA GrownKeeps ==
  ASSUME NEW reg \in Seq(Registrations), NEW tier \in Int, NEW m \in Allocated, <<tier, m>> \in Registrations,
         tier \notin {PreOp, PostOp}, NEW tiers \in Seq(Tiers), Tidy(tiers),
         NEW after, NEW k, TierGrown(tiers, after, tier, m, k)
  PROVE  /\ Tidy(after)
         /\ Chained(reg, tiers) => Chained(Append(reg, <<tier, m>>), after)
         /\ Placed(reg, tiers) => Placed(Append(reg, <<tier, m>>), after)
  <1>1. /\ k \in DOMAIN tiers /\ tiers[k].tier = tier /\ DOMAIN after = DOMAIN tiers
        /\ after[k].tier = tier /\ after[k].chain = Insert(tiers[k].chain, m)
        /\ \A i \in DOMAIN tiers \ {k} : after[i] = tiers[i]
    BY DEF TierGrown
  <1>2. \A i \in DOMAIN tiers : i \in Int /\ tiers[i].tier \in Int /\ tiers[i].chain \in Seq(Allocated)
    <2>1. \A i \in DOMAIN tiers : i \in Int /\ tiers[i] \in Tiers
      OBVIOUS
    <2> QED
      BY <2>1 DEF Tiers
  <1>3. \A i \in DOMAIN tiers : after[i].tier = tiers[i].tier
    BY <1>1
  <1>4. Tidy(after)
    <2>1. after[k].chain # <<>>
      BY <1>1, <1>2, RangeInsert
    <2>2. Ascending(after)
      BY <1>1, <1>3 DEF Tidy, Ascending
    <2>3. \A i \in DOMAIN after : after[i].tier \notin {PreOp, PostOp} /\ after[i].chain # <<>>
      BY <1>1, <1>3, <2>1 DEF Tidy
    <2> QED
      BY <2>2, <2>3 DEF Tidy
  <1>5. ASSUME Chained(reg, tiers), NEW i \in DOMAIN after
        PROVE  Ordered(Append(reg, <<tier, m>>), after[i].tier, after[i].chain)
    <2>1. CASE i = k
      <3>1. Ordered(reg, tier, tiers[k].chain)
        BY <1>1, <1>5 DEF Chained
      <3>2. Ordered(Append(reg, <<tier, m>>), tier, Insert(tiers[k].chain, m))
        BY <1>1, <1>2, <3>1, OrderInsert
      <3> QED
        BY <1>1, <2>1, <3>2
    <2>2. CASE i # k
      <3>1. i \in DOMAIN tiers /\ after[i] = tiers[i]
        BY <1>1, <2>2
      <3>2. tiers[i].tier # tier
        <4>1. i < k \/ k < i
          BY <1>1, <1>2, <2>2, <3>1
        <4>2. tiers[i].tier < tiers[k].tier \/ tiers[k].tier < tiers[i].tier
          BY <1>1, <3>1, <4>1 DEF Tidy, Ascending
        <4> QED
          BY <1>1, <1>2, <3>1, <4>2
      <3>3. Ordered(reg, tiers[i].tier, tiers[i].chain)
        BY <1>5, <3>1 DEF Chained
      <3>4. Ordered(Append(reg, <<tier, m>>), tiers[i].tier, tiers[i].chain)
        BY <1>2, <3>1, <3>2, <3>3, OrderKept
      <3> QED
        BY <3>1, <3>4
    <2> QED
      BY <2>1, <2>2
  <1>6. ASSUME Placed(reg, tiers), NEW e \in Range(Append(reg, <<tier, m>>))
        PROVE  e[1] \in {PreOp, PostOp} \/ \E i \in DOMAIN after : after[i].tier = e[1]
    <2>1. CASE e = <<tier, m>>
      BY <1>1, <2>1
    <2>2. CASE e \in Range(reg)
      BY <1>1, <1>3, <1>6, <2>2 DEF Placed
    <2> QED
      BY <1>6, <2>1, <2>2, RangeAppend
  <1> QED
    BY <1>4, <1>5, <1>6 DEF Chained, Placed

(* And after one was linked.                                                *)
LEMMA LinkedKeeps ==
  ASSUME NEW reg \in Seq(Registrations), NEW tier \in Int, NEW m \in Allocated, <<tier, m>> \in Registrations,
         tier \notin {PreOp, PostOp}, NEW tiers \in Seq(Tiers), Tidy(tiers),
         NEW after, NEW p, TierLinked(tiers, after, tier, m, p)
  PROVE  /\ Tidy(after)
         /\ Chained(reg, tiers) /\ Placed(reg, tiers) =>
              Chained(Append(reg, <<tier, m>>), after) /\ Placed(Append(reg, <<tier, m>>), after)
  <1> DEFINE n == Len(tiers)
             new == NewTier(tier, m)
  <1>1. /\ n \in Nat /\ DOMAIN tiers = 1 .. n /\ DOMAIN after = 1 .. n + 1 /\ p \in 1 .. n + 1 /\ after[p] = new
        /\ \A i \in DOMAIN tiers : Shift(p, i) \in DOMAIN after \ {p} /\ after[Shift(p, i)] = tiers[i]
        /\ \A k \in DOMAIN after \ {p} : \E i \in DOMAIN tiers : Shift(p, i) = k
        /\ \A i \in DOMAIN tiers : IF i < p THEN tiers[i].tier < tier ELSE tier < tiers[i].tier
    <2>1. Inserted(tiers, after, p, new, n) /\ \A i \in DOMAIN tiers : IF i < p THEN tiers[i].tier < tier ELSE tier < tiers[i].tier
      BY DEF TierLinked
    <2> HIDE DEF n, new
    <2>2. n \in Nat /\ DOMAIN tiers = 1 .. n /\ DOMAIN after = 1 .. n + 1 /\ p \in 1 .. n + 1 /\ after[p] = new
      BY <2>1 DEF Inserted
    <2>3. Inserted(tiers, after, p, new, n)
      BY <2>1
    <2>4. /\ \A i \in DOMAIN tiers : Shift(p, i) \in DOMAIN after \ {p} /\ after[Shift(p, i)] = tiers[i]
          /\ \A k \in DOMAIN after \ {p} : \E i \in DOMAIN tiers : Shift(p, i) = k
      BY <2>3, ShiftFacts
    <2> QED
      BY <2>1, <2>2, <2>4
  <1>2. \A i \in DOMAIN tiers : i \in Int /\ tiers[i].tier \in Int /\ tiers[i].chain \in Seq(Allocated)
    <2>1. \A i \in DOMAIN tiers : i \in Int /\ tiers[i] \in Tiers
      OBVIOUS
    <2> QED
      BY <2>1 DEF Tiers
  <1>3. new.tier = tier /\ new.chain = <<m>>
    BY DEF NewTier
  <1> HIDE DEF n, new
  <1>4. \A k \in DOMAIN after : k = p \/ \E i \in DOMAIN tiers : k = Shift(p, i) /\ after[k] = tiers[i]
    BY <1>1
  <1>5. Ascending(after)
    <2> SUFFICES ASSUME NEW j \in DOMAIN after, NEW k \in DOMAIN after, j < k PROVE after[j].tier < after[k].tier
      BY DEF Ascending
    <2>1. CASE j # p /\ k # p
      <3>1. PICK x \in DOMAIN tiers : j = Shift(p, x) /\ after[j] = tiers[x]
        BY <1>4, <2>1
      <3>2. PICK y \in DOMAIN tiers : k = Shift(p, y) /\ after[k] = tiers[y]
        BY <1>4, <2>1
      <3>3. x < y
        BY <1>1, <1>2, <3>1, <3>2 DEF Shift
      <3> QED
        BY <3>1, <3>2, <3>3 DEF Tidy, Ascending
    <2>2. CASE k = p
      <3>1. PICK x \in DOMAIN tiers : j = Shift(p, x) /\ after[j] = tiers[x]
        BY <1>1, <1>4, <2>2
      <3>2. x < p
        BY <1>1, <1>2, <2>2, <3>1 DEF Shift
      <3> QED
        BY <1>1, <1>3, <2>2, <3>1, <3>2
    <2>3. CASE j = p
      <3>1. PICK y \in DOMAIN tiers : k = Shift(p, y) /\ after[k] = tiers[y]
        BY <1>1, <1>4, <2>3
      <3>2. ~ (y < p)
        BY <1>1, <1>2, <2>3, <3>1 DEF Shift
      <3> QED
        BY <1>1, <1>3, <2>3, <3>1, <3>2
    <2> QED
      BY <1>1, <2>1, <2>2, <2>3
  <1>6. ASSUME NEW k \in DOMAIN after PROVE after[k].tier \notin {PreOp, PostOp} /\ after[k].chain # <<>>
    <2>1. CASE k = p
      <3>1. <<m>> # <<>>
        OBVIOUS
      <3> QED
        BY <1>1, <1>3, <2>1, <3>1
    <2>2. CASE k # p
      BY <1>4, <2>2 DEF Tidy
    <2> QED
      BY <2>1, <2>2
  <1>7. \A i \in DOMAIN tiers : tiers[i].tier # tier
    BY <1>1, <1>2
  <1>8. ASSUME Chained(reg, tiers), Placed(reg, tiers), NEW k \in DOMAIN after
        PROVE  Ordered(Append(reg, <<tier, m>>), after[k].tier, after[k].chain)
    <2>1. CASE k = p
      <3>1. ASSUME NEW i \in DOMAIN reg PROVE reg[i][1] # tier
        <4>1. reg[i] \in Range(reg)
          BY DEF Range
        <4> QED
          BY <1>7, <1>8, <4>1 DEF Placed
      <3> DEFINE e == <<tier, m>>
      <3>2. e \in Registrations /\ e[1] = tier /\ e[2] = m
        OBVIOUS
      <3> HIDE DEF e
      <3>3. Ordered(Append(reg, e), e[1], <<e[2]>>)
        BY <3>1, <3>2, OrderAlone
      <3>4. Ordered(Append(reg, e), tier, <<m>>)
        BY <3>2, <3>3
      <3> QED
        BY <1>1, <1>3, <2>1, <3>4 DEF e
    <2>2. CASE k # p
      <3>1. PICK i \in DOMAIN tiers : after[k] = tiers[i]
        BY <1>4, <2>2
      <3>2. Ordered(reg, tiers[i].tier, tiers[i].chain) /\ tiers[i].tier # tier
        BY <1>7, <1>8, <3>1 DEF Chained
      <3>3. Ordered(Append(reg, <<tier, m>>), tiers[i].tier, tiers[i].chain)
        BY <1>2, <3>1, <3>2, OrderKept
      <3> QED
        BY <3>1, <3>3
    <2> QED
      BY <2>1, <2>2
  <1>9. ASSUME Placed(reg, tiers), NEW e \in Range(Append(reg, <<tier, m>>))
        PROVE  e[1] \in {PreOp, PostOp} \/ \E k \in DOMAIN after : after[k].tier = e[1]
    <2>1. CASE e = <<tier, m>>
      BY <1>1, <1>3, <2>1
    <2>2. CASE e \in Range(reg) /\ e[1] \notin {PreOp, PostOp}
      <3>1. PICK i \in DOMAIN tiers : tiers[i].tier = e[1]
        BY <1>9, <2>2 DEF Placed
      <3> QED
        BY <1>1, <3>1
    <2> QED
      BY <1>9, <2>1, <2>2, RangeAppend
  <1> QED
    BY <1>5, <1>6, <1>8, <1>9 DEF Tidy, Chained, Placed

(* No tier is found again, and a tier that loses others loses modules.      *)
LEMMA DroppedGrows ==
  ASSUME ChainsInv, RefsInv, NEW reg \in Registrations, Register(reg[1], reg[2])
  PROVE  /\ TiersKept' => TiersKept
         /\ Tidy(modules) /\ modules' = WithTier(reg[1], reg[2])
              /\ TierAlone(modules, modules', reg[1], reg[2]) => ~ TiersKept'
  <1> DEFINE tier == reg[1]
             m == reg[2]
  <1>1. tier \in Int /\ m \in Allocated /\ m \in Module
    BY RegistrationsAssumption DEF Allocated
  <1>2. /\ \A x \in Module : dropped'[x] = dropped[x] + Occurrences(TierChains(modules), x)
                                          + (IF x = m /\ modules' # modules THEN 1 ELSE 0)
                                          - Occurrences(TierChains(modules'), x)
        /\ modules' = modules \/ modules' = WithTier(tier, m)
    BY DEF Register
  <1>3. modules \in Seq(Tiers) /\ modules' \in Seq(Tiers) /\ \A x \in Module : dropped[x] \in Nat
    <2>1. modules \in Seq(Tiers)
      BY DEF ChainsInv, Tiers
    <2>2. WithTier(tier, m) \in Seq(Tiers)
      BY <1>1, WithTierFacts
    <2> QED
      BY <1>2, <2>1, <2>2 DEF RefsInv
  <1> HIDE DEF tier, m
  <1>4. \A x : Occurrences(TierChains(modules), x) \in Nat /\ Occurrences(TierChains(modules'), x) \in Nat
    BY <1>3, TierChainsType, RowsFacts
  <1>5. ASSUME NEW x \in Module PROVE dropped'[x] >= dropped[x]
    <2>1. CASE modules' = modules
      BY <1>2, <1>3, <1>4, <2>1
    <2>2. CASE modules' # modules
      <3>1. Occurrences(TierChains(modules'), x) <= Occurrences(TierChains(modules), x) + One(m, x)
        BY <1>1, <1>2, <2>2, WithTierFacts
      <3>2. One(m, x) = IF x = m /\ modules' # modules THEN 1 ELSE 0
        BY <2>2 DEF One
      <3> QED
        BY <1>2, <1>3, <1>4, <3>1, <3>2
    <2> QED
      BY <2>1, <2>2
  <1>6. ASSUME TiersKept' PROVE TiersKept
    <2>1. \A x \in Module : dropped'[x] = 0
      BY <1>6 DEF TiersKept
    <2>2. \A x \in Module : dropped[x] = 0
      BY <1>3, <1>5, <2>1
    <2> QED
      BY <2>2 DEF TiersKept
  <1>7. ASSUME Tidy(modules), modules' = WithTier(tier, m), TierAlone(modules, modules', tier, m), TiersKept'
        PROVE  FALSE
    <2> DEFINE chains == TierChains(modules)
    <2>1. modules # <<>> /\ modules' = <<NewTier(tier, m)>>
      BY <1>7 DEF TierAlone
    <2>2. /\ chains \in Seq(Seq(Allocated)) /\ DOMAIN chains = 1 .. Len(modules)
          /\ \A i \in 1 .. Len(modules) : chains[i] = modules[i].chain
      BY <1>3, TierChainsType
    <2>3. 1 \in 1 .. Len(modules) /\ 1 \in DOMAIN modules
      BY <1>3, <2>1
    <2>4. chains[1] \in Seq(Allocated) /\ chains[1] # <<>>
      BY <1>7, <2>2, <2>3 DEF Tidy
    <2> HIDE DEF chains
    <2> DEFINE x == chains[1][1]
    <2>5. 1 \in DOMAIN chains[1] /\ x \in Allocated
      BY <2>4
    <2>6. Occurrences(chains, x) >= 1
      <3>1. <<1, 1>> \in Rows(chains, x)
        BY <2>2, <2>3, <2>5 DEF Rows
      <3>2. IsFiniteSet(Rows(chains, x)) /\ Occurrences(chains, x) = Cardinality(Rows(chains, x))
            /\ Occurrences(chains, x) \in Nat
        BY <2>2, RowsFacts
      <3>3. Cardinality(Rows(chains, x)) # 0
        BY <3>1, <3>2, FS_EmptySet
      <3> QED
        BY <3>2, <3>3
    <2>7. Occurrences(TierChains(modules'), x) <= One(m, x)
      <3> DEFINE alone == TierChains(<<NewTier(tier, m)>>)
      <3>1. alone \in Seq(Seq(Allocated)) /\ DOMAIN alone = {1} /\ alone[1] = <<m>>
        <4>1. <<NewTier(tier, m)>> \in Seq(Tiers) /\ Len(<<NewTier(tier, m)>>) = 1
              /\ <<NewTier(tier, m)>>[1].chain = <<m>> /\ 1 .. 1 = {1}
          BY <1>1 DEF NewTier, Tiers
        <4> QED
          BY <4>1, TierChainsType
      <3> HIDE DEF alone, x
      <3>2. Rows(alone, x) \subseteq IF m = x THEN {<<1, 1>>} ELSE {}
        BY <3>1 DEF Rows
      <3>3. Occurrences(alone, x) = Cardinality(Rows(alone, x)) /\ Occurrences(alone, x) \in Nat
        BY <3>1, RowsFacts
      <3>4. CASE m = x
        <4>1. IsFiniteSet({<<1, 1>>}) /\ Cardinality({<<1, 1>>}) = 1
          BY FS_Singleton
        <4>2. Cardinality(Rows(alone, x)) <= 1
          BY <3>2, <3>4, <4>1, FS_Subset
        <4> QED
          BY <2>1, <3>3, <3>4, <4>2 DEF One, alone
      <3>5. CASE m # x
        <4>1. Rows(alone, x) = {}
          BY <3>2, <3>5
        <4>2. Occurrences(alone, x) = 0
          BY <3>3, <4>1, FS_EmptySet
        <4> QED
          BY <2>1, <3>5, <4>2 DEF One, alone
      <3> QED
        BY <3>4, <3>5
    <2>8. modules' # modules
      BY <1>1, <1>7, WithTierFacts
    <2>9. x \in Module /\ dropped'[x] = 0
      BY <1>7, <2>5 DEF TiersKept, Allocated
    <2>10. dropped'[x] = dropped[x] + Occurrences(chains, x) + One(m, x) - Occurrences(TierChains(modules'), x)
      <3>1. (IF x = m /\ modules' # modules THEN 1 ELSE 0) = One(m, x)
        BY <2>8 DEF One
      <3> QED
        BY <1>2, <2>9, <3>1 DEF chains
    <2>11. /\ Occurrences(chains, x) \in Nat /\ Occurrences(TierChains(modules'), x) \in Nat
           /\ One(m, x) \in Nat /\ dropped[x] \in Nat
      BY <1>3, <1>4, <2>9 DEF chains, One
    <2> HIDE DEF x
    <2> QED
      BY <2>6, <2>7, <2>9, <2>10, <2>11
  <1> QED
    BY <1>6, <1>7 DEF tier, m

(* membus_register_module keeps the order.                                  *)
LEMMA RegisterOrder ==
  ASSUME ChainsInv, RefsInv, OrderInv, NEW reg \in Registrations, Register(reg[1], reg[2])
  PROVE  OrderInv' /\ (is_up' /\ TiersKept' => is_up /\ TiersKept)
  <1> DEFINE tier == reg[1]
             m == reg[2]
             kept == is_up /\ TiersKept
             after == Append(registered, <<tier, m>>)
  <1>1. tier \in Int /\ m \in Allocated /\ m \in Module /\ <<tier, m>> \in Registrations
    <2>1. reg = <<tier, m>>
      BY RegistrationsAssumption
    <2> HIDE DEF tier, m
    <2>2. <<tier, m>> \in Registrations /\ tier \in Int /\ m \in Allocated
      BY <2>1, RegistrationsAssumption DEF tier, m
    <2> QED
      BY <2>2 DEF Allocated
  <1>2. registered' = after /\ is_up' = is_up
    BY DEF Register
  <1>3. is_up' /\ TiersKept' => kept
    BY <1>2, DroppedGrows
  <1>4. Arranged(modules, post_op, registered, kept)
    BY OrderParts
  <1>5. /\ modules \in Seq(Tiers) /\ post_op \in Seq(Allocated) /\ registered \in Seq(Registrations)
    BY DEF ChainsInv, Tiers
  <1>6. Range(after) = Range(registered) \cup {<<tier, m>>}
    BY <1>1, <1>5, RangeAppend
  <1> SUFFICES Tidy(modules') /\ (is_up' /\ TiersKept' /\ kept =>
                  Chained(after, modules') /\ Placed(after, modules') /\ Copied(after, post_op'))
    BY <1>2, <1>3, OrderParts DEF Arranged
  <1>7. Tidy(modules) /\ (kept => Chained(registered, modules) /\ Placed(registered, modules) /\ Copied(registered, post_op))
    BY <1>4 DEF Arranged
  <1>8. \/ tier = PreOp /\ UNCHANGED <<modules, post_op>>
        \/ tier = PostOp /\ post_op' = Insert(post_op, m) /\ UNCHANGED modules
        \/ tier \notin {PreOp, PostOp} /\ modules' = WithTier(tier, m) /\ UNCHANGED post_op
    BY DEF Register
  <1>9. TierAlone(modules, modules', tier, m) /\ modules' = WithTier(tier, m) => ~ TiersKept'
    BY <1>7, DroppedGrows
  <1> HIDE DEF tier, m, kept, after
  <1>10. ASSUME tier \in {PreOp, PostOp}, modules' = modules
         PROVE  Tidy(modules') /\ (is_up' /\ TiersKept' /\ kept => Chained(after, modules') /\ Placed(after, modules'))
    <2>1. Chained(registered, modules) => Chained(after, modules)
      <3> SUFFICES ASSUME Chained(registered, modules), NEW i \in DOMAIN modules
                   PROVE  Ordered(after, modules[i].tier, modules[i].chain)
        BY DEF Chained
      <3>1. modules[i].tier # tier
        BY <1>7, <1>10 DEF Tidy
      <3>2. modules[i] \in Tiers
        BY <1>5
      <3>3. modules[i].chain \in Seq(Allocated) /\ Ordered(registered, modules[i].tier, modules[i].chain)
        BY <3>2 DEF Chained, Tiers
      <3> DEFINE e == <<tier, m>>
      <3>4. e \in Registrations /\ e[1] = tier
        BY <1>1
      <3> HIDE DEF e
      <3>5. Ordered(Append(registered, e), modules[i].tier, modules[i].chain)
        BY <1>5, <3>1, <3>3, <3>4, OrderKept
      <3> QED
        BY <3>5 DEF e, after
    <2>2. Placed(registered, modules) => Placed(after, modules)
      BY <1>6, <1>10 DEF Placed
    <2> QED
      BY <1>7, <1>10, <2>1, <2>2
  <1>11. ASSUME tier \notin {PreOp, PostOp}, modules' = WithTier(tier, m)
         PROVE  Tidy(modules') /\ (is_up' /\ TiersKept' /\ kept => Chained(after, modules') /\ Placed(after, modules'))
    <2>1. Ascending(modules)
      BY <1>7 DEF Tidy
    <2>2. CASE \E k : TierGrown(modules, modules', tier, m, k)
      <3>1. PICK k : TierGrown(modules, modules', tier, m, k)
        BY <2>2
      <3>2. /\ Tidy(modules')
            /\ Chained(registered, modules) => Chained(Append(registered, <<tier, m>>), modules')
            /\ Placed(registered, modules) => Placed(Append(registered, <<tier, m>>), modules')
        BY <1>1, <1>5, <1>7, <1>11, <3>1, GrownKeeps
      <3> QED
        BY <1>7, <3>2 DEF after
    <2>3. CASE \E p : TierLinked(modules, modules', tier, m, p)
      <3>1. PICK p : TierLinked(modules, modules', tier, m, p)
        BY <2>3
      <3>2. /\ Tidy(modules')
            /\ Chained(registered, modules) /\ Placed(registered, modules) =>
                 Chained(Append(registered, <<tier, m>>), modules') /\ Placed(Append(registered, <<tier, m>>), modules')
        BY <1>1, <1>5, <1>7, <1>11, <3>1, LinkedKeeps
      <3> QED
        BY <1>7, <3>2 DEF after
    <2>4. CASE TierAlone(modules, modules', tier, m)
      <3>1. ~ TiersKept'
        BY <1>9, <1>11, <2>4
      <3>2. Tidy(modules')
        <4>1. modules' = <<NewTier(tier, m)>>
          BY <2>4 DEF TierAlone
        <4>2. DOMAIN modules' = {1} /\ modules'[1].tier = tier /\ modules'[1].chain = <<m>> /\ <<m>> # <<>>
          BY <4>1 DEF NewTier
        <4>3. Ascending(modules')
          BY <4>2 DEF Ascending
        <4> QED
          BY <1>11, <4>2, <4>3 DEF Tidy
      <3> QED
        BY <3>1, <3>2
    <2> QED
      BY <1>1, <1>11, <2>1, <2>2, <2>3, <2>4, WithTierShape
  <1>12. ASSUME kept PROVE Copied(after, post_op')
    <2>1. CASE tier = PostOp /\ post_op' = Insert(post_op, m)
      <3>1. Range(post_op') = Range(post_op) \cup {m}
        BY <1>1, <1>5, <2>1, RangeInsert
      <3>2. \A x : <<PostOp, x>> = <<tier, m>> <=> x = m
        BY <2>1
      <3> QED
        BY <1>6, <1>7, <1>12, <3>1, <3>2 DEF Copied
    <2>2. CASE tier # PostOp /\ post_op' = post_op
      <3>1. \A x : <<PostOp, x>> # <<tier, m>>
        BY <2>2
      <3> QED
        BY <1>6, <1>7, <1>12, <2>2, <3>1 DEF Copied
    <2>3. PreOp # PostOp
      BY NamesAssumption
    <2> QED
      BY <1>8, <2>1, <2>2, <2>3
  <1>13. Tidy(modules') /\ (is_up' /\ TiersKept' /\ kept => Chained(after, modules') /\ Placed(after, modules'))
    BY <1>8, <1>10, <1>11
  <1> QED
    BY <1>12, <1>13

-----------------------------------------------------------------------------
(* The walk.                                                                *)

(* Along a chain in order no module that covers the address is left out.    *)
LEMMA ReachedFacts ==
  ASSUME NEW reg \in Seq(Registrations), NEW tier, NEW chain \in Seq(Allocated), Ordered(reg, tier, chain),
         NEW a \in Addr
  PROVE  Reached(chain, a) = {j \in DOMAIN chain : Covers(chain[j], a)}
  <1> SUFFICES ASSUME NEW j \in DOMAIN chain, Covers(chain[j], a), NEW k \in 1 .. j PROVE Lo(chain[k]) <= a
    BY DEF Reached
  <1>1. chain[j] \in Allocated /\ k \in DOMAIN chain /\ chain[k] \in Allocated /\ k \in Nat /\ j \in Nat
    OBVIOUS
  <1>2. Lo(chain[j]) <= a /\ Lo(chain[j]) \in Nat /\ Lo(chain[k]) \in Nat /\ a \in Int
    BY <1>1, LoType, RangeTopAssumption DEF Addr
  <1>3. k = j \/ Lo(chain[k]) <= Lo(chain[j])
    <2>1. CASE k < j
      BY <1>1, <2>1, ChainSorted
    <2> QED
      BY <1>1, <2>1
  <1> QED
    BY <1>2, <1>3

(* What the walk of a tier looks at is what may be meant.                   *)
LEMMA TierHits ==
  ASSUME ChainsInv, Tidy(modules), NEW i \in DOMAIN modules, NEW a \in Addr, NEW op, NEW order,
         Orders(registered, modules[i].tier, modules[i].chain, order)
  PROVE  /\ modules[i].chain \in Seq(Allocated)
         /\ \A j : j \in Hits(a, op)[i] <=> j \in DOMAIN modules[i].chain /\ order[j] \in Candidates(a, op)
         /\ \A c \in Candidates(a, op) : registered[c][1] = modules[i].tier =>
              \E j \in Hits(a, op)[i] : order[j] = c
  <1> DEFINE chain == modules[i].chain
             tier == modules[i].tier
             hits == Hits(a, op)[i]
             C == Candidates(a, op)
  <1>1. chain \in Seq(Allocated) /\ registered \in Seq(Registrations)
    <2>1. modules \in Seq(Tiers) /\ registered \in Seq(Registrations)
      BY DEF ChainsInv, Tiers
    <2>2. modules[i] \in Tiers
      BY <2>1
    <2> QED
      BY <2>1, <2>2 DEF Tiers
  <1>2. tier \notin {PreOp, PostOp}
    BY DEF Tidy
  <1>3. hits = {j \in Reached(chain, a) : Result(op, chain[j]) # "observed"}
    BY Zenon DEF Hits
  <1>4. \A c : c \in C <=> /\ c \in DOMAIN registered /\ registered[c][1] \notin {PreOp, PostOp}
                           /\ Covers(registered[c][2], a) /\ Result(op, registered[c][2]) # "observed"
    BY DEF Candidates
  <1>5. /\ \A j \in DOMAIN chain : order[j] \in DOMAIN registered /\ registered[order[j]] = <<tier, chain[j]>>
        /\ \A c \in DOMAIN registered : registered[c][1] = tier => \E j \in DOMAIN chain : order[j] = c
    BY DEF Orders
  <1>6. Ordered(registered, tier, chain)
    BY DEF Ordered
  <1> HIDE DEF chain, tier, hits, C
  <1>7. Reached(chain, a) = {j \in DOMAIN chain : Covers(chain[j], a)}
    BY <1>1, <1>6, ReachedFacts
  <1>8. \A j \in DOMAIN chain : order[j] \in C <=> Covers(chain[j], a) /\ Result(op, chain[j]) # "observed"
    BY <1>2, <1>4, <1>5
  <1>9. \A j : j \in hits <=> j \in DOMAIN chain /\ order[j] \in C
    BY <1>3, <1>7, <1>8
  <1>10. \A c \in C : registered[c][1] = tier => \E j \in hits : order[j] = c
    BY <1>4, <1>5, <1>9
  <1> QED
    BY <1>1, <1>9, <1>10 DEF chain, tier, hits, C

(* The walk finds nobody where nobody is meant, and the first otherwise.    *)
FindsFirst(C, by) == IF C = {} THEN by = <<>> ELSE First(C) \in C /\ by = <<registered[First(C)][2]>>

(* So it does on a bus in order: the walk of __membus_read_addr and         *)
(* __membus_write_addr.                                                     *)
LEMMA WalkFinds ==
  ASSUME ChainsInv, OrderInv, is_up, TiersKept, NEW a \in Addr, NEW op
  PROVE  FindsFirst(Candidates(a, op), FirstOf(Hits(a, op)))
  <1> DEFINE C == Candidates(a, op)
             hits == Hits(a, op)
             tiers == {i \in DOMAIN hits : hits[i] # {}}
  <1>1. Tidy(modules) /\ Chained(registered, modules) /\ Placed(registered, modules)
    BY OrderParts DEF Arranged
  <1>2. /\ registered \in Seq(Registrations) /\ DOMAIN hits = DOMAIN modules /\ DOMAIN modules \subseteq Nat
        /\ \A i \in DOMAIN modules : modules[i].tier \in Int
    <2>1. modules \in Seq(Tiers) /\ registered \in Seq(Registrations)
      BY DEF ChainsInv, Tiers
    <2>2. \A i \in DOMAIN modules : modules[i] \in Tiers /\ i \in Nat
      BY <2>1
    <2> QED
      BY <2>1, <2>2 DEF Tiers, Hits
  <1>3. FirstOf(hits) = IF tiers = {} THEN <<>> ELSE << modules[Min(tiers)].chain[Min(hits[Min(tiers)])] >>
    BY DEF FirstOf
  <1>4. C \subseteq DOMAIN registered /\ \A c \in C : registered[c][1] \notin {PreOp, PostOp}
    BY DEF Candidates
  <1> HIDE DEF C, hits, tiers
  <1>5. ASSUME NEW c \in C PROVE \E i \in DOMAIN modules : registered[c][1] = modules[i].tier /\ i \in tiers
    <2>1. registered[c] \in Range(registered)
      BY <1>4 DEF Range
    <2>2. PICK i \in DOMAIN modules : modules[i].tier = registered[c][1]
      BY <1>1, <1>4, <2>1 DEF Placed
    <2>3. PICK order : Orders(registered, modules[i].tier, modules[i].chain, order)
      BY <1>1 DEF Chained, Ordered
    <2>4. \E j \in hits[i] : order[j] = c
      BY <1>1, <2>2, <2>3, TierHits DEF C, hits
    <2> QED
      BY <1>2, <2>2, <2>4 DEF tiers
  <1>6. CASE tiers = {}
    <2>1. C = {}
      BY <1>5, <1>6
    <2> QED
      BY <1>3, <1>6, <2>1 DEF FindsFirst, C, hits
  <1>7. CASE tiers # {}
    <2>1. PICK i \in DOMAIN modules : i = Min(tiers) /\ hits[i] # {} /\ \A k \in tiers : i <= k
      <3>1. tiers \subseteq Nat
        BY <1>2 DEF tiers
      <3>2. Min(tiers) \in tiers /\ \A k \in tiers : Min(tiers) <= k
        BY <1>7, <3>1, MinIn
      <3> QED
        BY <1>2, <3>2 DEF tiers
    <2>2. PICK order : Orders(registered, modules[i].tier, modules[i].chain, order)
      BY <1>1, <2>1 DEF Chained, Ordered
    <2> DEFINE j == Min(hits[i])
               chain == modules[i].chain
    <2>3. /\ chain \in Seq(Allocated) /\ \A k : k \in hits[i] <=> k \in DOMAIN chain /\ order[k] \in C
          /\ \A c \in C : registered[c][1] = modules[i].tier => \E k \in hits[i] : order[k] = c
      <3>1. i \in DOMAIN modules /\ Tidy(modules)
        BY <1>1, <2>1
      <3>2. modules[i].chain \in Seq(Allocated)
        BY <2>2, <3>1, TierHits
      <3>3. \A k : k \in Hits(a, op)[i] <=> k \in DOMAIN modules[i].chain /\ order[k] \in Candidates(a, op)
        BY <2>2, <3>1, TierHits
      <3>4. \A c \in Candidates(a, op) : registered[c][1] = modules[i].tier =>
                 \E k \in Hits(a, op)[i] : order[k] = c
        BY <2>2, <3>1, TierHits
      <3> QED
        BY <3>2, <3>3, <3>4 DEF C, hits
    <2>4. j \in hits[i] /\ \A k \in hits[i] : j <= k
      <3>1. hits[i] \subseteq Nat
        BY <2>3
      <3> QED
        BY <2>1, <3>1, MinIn
    <2> HIDE DEF j
    <2>5. order[j] \in C /\ registered[order[j]] = <<modules[i].tier, chain[j]>>
      BY <2>2, <2>3, <2>4 DEF Orders
    <2>6. ASSUME NEW c \in C, c # order[j] PROVE Precedes(registered, order[j], c)
      <3>1. PICK k \in DOMAIN modules : registered[c][1] = modules[k].tier /\ k \in tiers
        BY <1>5
      <3>2. CASE k = i
        <4>1. PICK x \in hits[i] : order[x] = c
          BY <2>3, <3>1, <3>2
        <4>2. j < x /\ j \in DOMAIN chain /\ x \in DOMAIN chain
          <5>1. j \in Nat /\ x \in Nat /\ j <= x /\ j # x /\ j \in DOMAIN chain /\ x \in DOMAIN chain
            BY <2>3, <2>4, <2>6, <4>1
          <5> QED
            BY <5>1
        <4> QED
          BY <2>2, <4>1, <4>2 DEF Orders
      <3>3. CASE k # i
        <4>1. i < k
          BY <1>2, <2>1, <3>1, <3>3
        <4>2. modules[i].tier < modules[k].tier
          BY <1>1, <2>1, <4>1 DEF Tidy, Ascending
        <4>3. registered[order[j]][1] = modules[i].tier
          BY <2>5
        <4> QED
          BY <3>1, <4>2, <4>3 DEF Precedes
      <3> QED
        BY <3>2, <3>3
    <2>7. First(C) = order[j]
      <3>1. First(C) = CHOOSE c \in C : \A d \in C \ {c} : Precedes(registered, c, d)
        BY DEF First, Before, Precedes
      <3>2. \A d \in C \ {order[j]} : Precedes(registered, order[j], d)
        BY <2>6
      <3>3. First(C) \in C /\ \A d \in C \ {First(C)} : Precedes(registered, First(C), d)
        BY <2>5, <3>1, <3>2
      <3>4. ASSUME First(C) # order[j] PROVE FALSE
        <4>1. Precedes(registered, First(C), order[j]) /\ Precedes(registered, order[j], First(C))
          BY <2>5, <3>2, <3>3, <3>4
        <4>2. First(C) \in DOMAIN registered /\ order[j] \in DOMAIN registered
          BY <1>4, <2>5, <3>3
        <4> QED
          BY <1>2, <4>1, <4>2, PrecedesFacts
      <3> QED
        BY <3>4
    <2>8. FirstOf(hits) = <<chain[j]>>
      BY <1>3, <1>7, <2>1 DEF j
    <2>9. registered[First(C)][2] = chain[j]
      BY <2>5, <2>7
    <2>10. First(C) \in C /\ FirstOf(hits) = <<registered[First(C)][2]>>
      BY <2>5, <2>7, <2>8, <2>9
    <2> QED
      BY <2>10 DEF FindsFirst, C, hits
  <1> QED
    BY <1>6, <1>7

-----------------------------------------------------------------------------
(* What an address means.                                                   *)

(* The cell of the module that accepts the access, or the vector.           *)
MeantBy(by, a) ==
  IF by # <<>> THEN IF Stores(Target(by[1])) THEN {Cell(by[1], a)} ELSE {}
  ELSE IF a \in VectorAddrs THEN {<<NoModule, a>>} ELSE {}

(* That is what the first of the candidates says.                           *)
LEMMA MeantFacts ==
  ASSUME ChainsInv, OrderInv, is_up, TiersKept, NEW a \in Addr, NEW op
  PROVE  Meant(a, op) = MeantBy(Accepting(a, op), a)
  <1> DEFINE C == Candidates(a, op)
             by == FirstOf(Hits(a, op))
             m == registered[First(C)][2]
             vector == IF a \in VectorAddrs THEN {<<NoModule, a>>} ELSE {}
  <1>1. IF C = {} THEN by = <<>> ELSE by = <<m>>
    BY WalkFinds DEF FindsFirst
  <1>2. Accepting(a, op) = IF by # <<>> /\ Result(op, by[1]) = "accepted" THEN by ELSE <<>>
    BY DEF Accepting
  <1>3. Meant(a, op) = IF C # {} THEN CellOf(m, a, op) ELSE vector
    BY DEF Meant, MeantOf
  <1>4. CellOf(m, a, op) = IF Result(op, m) # "accepted" THEN vector
                           ELSE IF Stores(Target(m)) THEN {Cell(m, a)} ELSE {}
    BY DEF CellOf
  <1>5. MeantBy(<<>>, a) = vector /\ MeantBy(<<m>>, a) = IF Stores(Target(m)) THEN {Cell(m, a)} ELSE {}
    BY DEF MeantBy
  <1> HIDE DEF C, by, m, vector
  <1>6. CASE C = {}
    BY <1>1, <1>2, <1>3, <1>5, <1>6
  <1>7. CASE C # {} /\ Result(op, m) = "accepted"
    <2>1. by # <<>> /\ by[1] = m /\ by = <<m>>
      BY <1>1, <1>7
    <2> QED
      BY <1>2, <1>3, <1>4, <1>5, <1>7, <2>1
  <1>8. CASE C # {} /\ Result(op, m) # "accepted"
    <2>1. by[1] = m
      BY <1>1, <1>8
    <2> QED
      BY <1>2, <1>3, <1>4, <1>5, <1>8, <2>1
  <1> QED
    BY <1>6, <1>7, <1>8

(* Who accepts an access says so.                                           *)
LEMMA AcceptsFacts ==
  ASSUME ChainsInv, NEW a, NEW op
  PROVE  \/ Accepting(a, op) = <<>>
         \/ \E m \in Allocated : Accepting(a, op) = <<m>> /\ Covers(m, a) /\ Result(op, m) = "accepted"
  <1> SUFFICES ASSUME Accepting(a, op) # <<>>
               PROVE  \E m \in Allocated : Accepting(a, op) = <<m>> /\ Covers(m, a) /\ Result(op, m) = "accepted"
    OBVIOUS
  <1>1. PICK m \in Allocated : Accepting(a, op) = <<m>> /\ Covers(m, a)
    BY AcceptingFacts
  <1> DEFINE by == FirstOf(Hits(a, op))
  <1>2. Accepting(a, op) = IF by # <<>> /\ Result(op, by[1]) = "accepted" THEN by ELSE <<>>
    BY DEF Accepting
  <1> HIDE DEF by
  <1>3. by = <<m>> /\ Result(op, by[1]) = "accepted"
    BY <1>1, <1>2
  <1> QED
    BY <1>1, <1>3

(* A read answers what is in the cell or the vector it means.               *)
LEMMA ReadMeans ==
  ASSUME ChainsInv, NEW a \in Addr, NEW c \in MeantBy(Accepting(a, "read"), a)
  PROVE  \/ c \in Cells /\ Read(a) = <<bytes[c]>>
         \/ a \in VectorAddrs /\ c = <<NoModule, a>> /\ Read(a) = <<vectors[a]>>
  <1> DEFINE by == Accepting(a, "read")
  <1>1. Read(a) = IF by # <<>> THEN << ReadByte(by[1], a, bytes, 0) >>
                  ELSE IF a \in VectorAddrs THEN << vectors[a] >> ELSE <<>>
    BY DEF Read, ValueBy
  <1>2. c \in IF by # <<>> THEN IF Stores(Target(by[1])) THEN {Cell(by[1], a)} ELSE {}
              ELSE IF a \in VectorAddrs THEN {<<NoModule, a>>} ELSE {}
    BY DEF MeantBy
  <1>3. by = <<>> \/ \E m \in Allocated : by = <<m>> /\ Covers(m, a) /\ Result("read", m) = "accepted"
    BY AcceptsFacts
  <1> HIDE DEF by
  <1>4. CASE by = <<>>
    BY <1>1, <1>2, <1>4
  <1>5. CASE by # <<>>
    <2>1. PICK m \in Allocated : by = <<m>> /\ Covers(m, a) /\ Result("read", m) = "accepted"
      BY <1>3, <1>5
    <2>2. by[1] = m
      BY <2>1
    <2>3. Stores(Target(m)) /\ c = Cell(m, a)
      BY <1>2, <1>5, <2>2
    <2>4. ReadResult(m) = "accepted"
      BY <2>1 DEF Result
    <2>5. ReadByte(m, a, bytes, 0) = bytes[c]
      BY <2>3, <2>4 DEF ReadByte
    <2> QED
      BY <1>1, <1>5, <2>1, <2>2, <2>3, <2>5, CellFacts
  <1> QED
    BY <1>4, <1>5

-----------------------------------------------------------------------------
(* A write.                                                                 *)

(* The cell a module keeps a byte in that is written to an address.         *)
Keeps(m, a) == Covers(m, a) /\ Stores(Target(m)) /\ WriteResult(m) = "accepted"

(* A callback writes its cell and, for a word, spoils the other.            *)
LEMMA ByteWritten ==
  ASSUME NEW m \in Allocated, NEW a \in Addr, Covers(m, a), NEW b \in Store, NEW v \in Byte, NEW c \in Cells
  PROVE  /\ ~ Keeps(m, a) => WriteByte(m, a, b, v)[c] = b[c]
         /\ Keeps(m, a) /\ c = Cell(m, a) => WriteByte(m, a, b, v)[c] = v
         /\ c # Cell(m, a) /\ ~ Spoils(c, Cell(m, a)) => WriteByte(m, a, b, v)[c] = b[c]
  <1> DEFINE t == Target(m)
             d == Cell(m, a)
             other == <<t, 1 - Offset(m, a)>>
             after == WriteByte(m, a, b, v)
  <1>1. ~ Keeps(m, a) => after = b
    BY DEF Keeps, WriteByte
  <1>2. ASSUME Keeps(m, a)
        PROVE  after = IF Kind(t) = "word" THEN [b EXCEPT ![other] = 0, ![d] = v] ELSE [b EXCEPT ![d] = v]
    BY <1>2 DEF Keeps, WriteByte
  <1>3. Keeps(m, a) => d \in Cells
    BY CellFacts DEF Keeps
  <1>4. d[1] = t /\ other[1] = t
    BY DEF Cell
  <1>5. t # NoModule
    <2>1. t \in Module
      BY SpanFacts DEF Allocated
    <2> QED
      BY <2>1, NamesAssumption
  <1> HIDE DEF t, d, other, after
  <1>6. DOMAIN b = Cells
    BY DEF Store
  <1>7. ASSUME Keeps(m, a), c = d PROVE after[c] = v
    <2>1. CASE Kind(t) = "word"
      BY <1>2, <1>3, <1>6, <1>7, <2>1
    <2>2. CASE Kind(t) # "word"
      BY <1>2, <1>3, <1>6, <1>7, <2>2
    <2> QED
      BY <2>1, <2>2
  <1>8. ASSUME Keeps(m, a), c # d, ~ Spoils(c, d) PROVE after[c] = b[c]
    <2>1. CASE Kind(t) = "word"
      <3>1. c # other
        <4>1. c[1] # t
          BY <1>4, <1>5, <1>8, <2>1 DEF Spoils
        <4> QED
          BY <1>4, <4>1
      <3> QED
        BY <1>2, <1>6, <1>8, <2>1, <3>1
    <2>2. CASE Kind(t) # "word"
      BY <1>2, <1>6, <1>8, <2>2
    <2> QED
      BY <2>1, <2>2
  <1> QED
    BY <1>1, <1>7, <1>8 DEF d, after

(* Induction from an index on.                                              *)
LEMMA StepsStayFrom ==
  ASSUME NEW V, NEW n \in Nat, NEW k \in 0 .. n, NEW g, g[k] \in V,
         \A i \in k + 1 .. n : g[i - 1] \in V => g[i] \in V
  PROVE  g[n] \in V
  <1> DEFINE S == {i \in Nat : k <= i /\ i <= n => g[i] \in V}
  <1>1. 0 \in S
    <2>1. k <= 0 => k = 0
      OBVIOUS
    <2> QED
      BY <2>1
  <1>2. ASSUME NEW i \in Nat, i \in S PROVE i + 1 \in S
    <2> SUFFICES ASSUME k <= i + 1, i + 1 <= n PROVE g[i + 1] \in V
      OBVIOUS
    <2>1. CASE k = i + 1
      BY <2>1
    <2>2. CASE k # i + 1
      <3>1. k <= i /\ i <= n /\ i + 1 \in k + 1 .. n /\ (i + 1) - 1 = i
        BY <2>2
      <3>2. g[i] \in V
        BY <1>2, <3>1
      <3> QED
        BY <3>1, <3>2
    <2> QED
      BY <2>1, <2>2
  <1> HIDE DEF S
  <1>3. n \in S
    BY <1>1, <1>2, NatInduct
  <1> QED
    BY <1>3 DEF S

(* The copies of a byte are kept by the modules of the post-op tier.        *)
LEMMA CopiesFacts ==
  ASSUME ChainsInv, Copied(registered, post_op), NEW a
  PROVE  /\ \A k \in DOMAIN post_op : Keeps(post_op[k], a) => Cell(post_op[k], a) \in Copies(a)
         /\ \A d \in Copies(a) : \E k \in DOMAIN post_op : Keeps(post_op[k], a) /\ d = Cell(post_op[k], a)
  <1> DEFINE onlookers == {m \in Module : \E i \in DOMAIN registered : registered[i] = <<PostOp, m>>}
             keepers == {x \in onlookers : /\ Covers(x, a) /\ Stores(Target(x))
                                           /\ WriteResult(x) = "accepted"}
  <1>1. Copies(a) = {Cell(m, a) : m \in keepers}
    BY DEF Copies
  <1>2. post_op \in Seq(Allocated)
    BY DEF ChainsInv
  <1>3. \A m \in Module : m \in onlookers <=> \E k \in DOMAIN post_op : post_op[k] = m
    <2> SUFFICES ASSUME NEW m \in Module PROVE m \in onlookers <=> \E k \in DOMAIN post_op : post_op[k] = m
      OBVIOUS
    <2>1. m \in onlookers <=> <<PostOp, m>> \in Range(registered)
      BY DEF Range
    <2>2. m \in Range(post_op) <=> \E k \in DOMAIN post_op : post_op[k] = m
      BY DEF Range
    <2> QED
      BY <2>1, <2>2 DEF Copied
  <1>4. \A k \in DOMAIN post_op : post_op[k] \in Module
    BY <1>2 DEF Allocated
  <1>5. onlookers \subseteq Module
    OBVIOUS
  <1> HIDE DEF onlookers
  <1>6. \A x : x \in keepers <=> x \in onlookers /\ Keeps(x, a)
    BY DEF Keeps
  <1> HIDE DEF keepers
  <1>7. ASSUME NEW k \in DOMAIN post_op, Keeps(post_op[k], a) PROVE Cell(post_op[k], a) \in Copies(a)
    <2>1. post_op[k] \in keepers
      BY <1>3, <1>4, <1>6, <1>7
    <2> QED
      BY <1>1, <2>1
  <1>8. ASSUME NEW d \in Copies(a) PROVE \E k \in DOMAIN post_op : Keeps(post_op[k], a) /\ d = Cell(post_op[k], a)
    <2>1. PICK x \in keepers : d = Cell(x, a)
      BY <1>1
    <2>2. x \in onlookers /\ x \in Module /\ Keeps(x, a)
      BY <1>5, <1>6
    <2>3. PICK k \in DOMAIN post_op : post_op[k] = x
      BY <1>3, <2>2
    <2> QED
      BY <2>1, <2>2, <2>3
  <1> QED
    BY <1>7, <1>8

(* The post-op tier leaves the other cells alone and has its own written,   *)
(* but for what the writes of a word spoil.                                 *)
LEMMA PostOpsWrite ==
  ASSUME ChainsInv, Copied(registered, post_op), NEW a \in Addr, NEW b \in Store, NEW v \in Byte,
         NEW c \in Cells, \A d \in Copies(a) : ~ Spoils(c, d)
  PROVE  PostOps(a, b, v)[c] = IF c \in Copies(a) THEN v ELSE b[c]
  <1> DEFINE n == Len(post_op)
  <1>1. post_op \in Seq(Allocated) /\ n \in Nat /\ DOMAIN post_op = 1 .. n /\ \A k \in 1 .. n : post_op[k] \in Allocated
    BY DEF ChainsInv
  <1>2. \A x \in Store, m \in Allocated : Heard(x, m, a, v) \in Store
    BY WriteFacts DEF Heard
  <1>3. PICK g : HeardInTurn(g, b, a, v)
    BY <1>1, <1>2, PostSteps
  <1>4. g[0] = b /\ g[n] = PostOps(a, b, v) /\ \A i \in 1 .. n : g[i] = Heard(g[i - 1], post_op[i], a, v)
    BY <1>3 DEF HeardInTurn
  <1> HIDE DEF n
  <1>5. ASSUME NEW i \in 1 .. n, g[i - 1] \in Store
        PROVE  /\ g[i] \in Store
               /\ Keeps(post_op[i], a) /\ c = Cell(post_op[i], a) => g[i][c] = v
               /\ ~ (Keeps(post_op[i], a) /\ c = Cell(post_op[i], a)) => g[i][c] = g[i - 1][c]
    <2> DEFINE m == post_op[i]
    <2>1. m \in Allocated /\ g[i] = Heard(g[i - 1], m, a, v)
      BY <1>1, <1>4
    <2>2. Keeps(m, a) => ~ Spoils(c, Cell(m, a))
      BY <1>1, CopiesFacts
    <2> HIDE DEF m
    <2>3. CASE Covers(m, a)
      <3>1. g[i] = WriteByte(m, a, g[i - 1], v)
        BY <2>1, <2>3 DEF Heard
      <3>2. /\ ~ Keeps(m, a) => g[i][c] = g[i - 1][c]
            /\ Keeps(m, a) /\ c = Cell(m, a) => g[i][c] = v
            /\ c # Cell(m, a) /\ ~ Spoils(c, Cell(m, a)) => g[i][c] = g[i - 1][c]
        BY <1>5, <2>1, <2>3, <3>1, ByteWritten
      <3> QED
        BY <1>2, <1>5, <2>1, <2>2, <3>2 DEF m
    <2>4. CASE ~ Covers(m, a)
      <3>1. g[i] = g[i - 1] /\ ~ Keeps(m, a)
        BY <2>1, <2>4 DEF Heard, Keeps
      <3> QED
        BY <1>5, <3>1 DEF m
    <2> QED
      BY <2>3, <2>4
  <1>6. CASE c \notin Copies(a)
    <2> DEFINE V == {x \in Store : x[c] = b[c]}
    <2>1. g[0] \in V
      BY <1>4
    <2>2. ASSUME NEW i \in 1 .. n, g[i - 1] \in V PROVE g[i] \in V
      <3>1. ~ (Keeps(post_op[i], a) /\ c = Cell(post_op[i], a))
        BY <1>1, <1>6, CopiesFacts
      <3> QED
        BY <1>5, <2>2, <3>1
    <2> HIDE DEF V
    <2>3. g[n] \in V
      BY <1>1, <2>1, <2>2, StepsStay
    <2> QED
      BY <1>4, <1>6, <2>3 DEF V
  <1>7. CASE c \in Copies(a)
    <2>1. PICK k \in 1 .. n : Keeps(post_op[k], a) /\ c = Cell(post_op[k], a)
      BY <1>1, <1>7, CopiesFacts
    <2>2. \A i \in 0 .. n : g[i] \in Store
      <3> DEFINE S == {i \in Nat : i <= n => g[i] \in Store}
      <3>1. 0 \in S
        BY <1>4
      <3>2. ASSUME NEW i \in Nat, i \in S PROVE i + 1 \in S
        <4> SUFFICES ASSUME i + 1 <= n PROVE g[i + 1] \in Store
          OBVIOUS
        <4>1. i + 1 \in 1 .. n /\ (i + 1) - 1 = i /\ g[i] \in Store
          BY <1>1, <3>2
        <4>2. g[(i + 1) - 1] \in Store
          BY <4>1
        <4> QED
          BY <1>5, <4>1, <4>2
      <3> HIDE DEF S
      <3>3. \A i \in Nat : i \in S
        BY <3>1, <3>2, NatInduct
      <3> QED
        BY <1>1, <3>3 DEF S
    <2> DEFINE V == {x \in Store : x[c] = v}
    <2>3. g[k] \in V
      <3>1. k - 1 \in 0 .. n /\ k \in 0 .. n
        BY <1>1
      <3> QED
        BY <1>5, <2>1, <2>2, <3>1
    <2>4. ASSUME NEW i \in k + 1 .. n, g[i - 1] \in V PROVE g[i] \in V
      <3>1. i \in 1 .. n
        BY <1>1
      <3> QED
        BY <1>5, <2>4, <3>1
    <2> HIDE DEF V
    <2>5. k \in 0 .. n
      BY <1>1
    <2>6. g[n] \in V
      BY <1>1, <2>3, <2>4, <2>5, StepsStayFrom
    <2> QED
      BY <1>4, <1>7, <2>6 DEF V
  <1> QED
    BY <1>6, <1>7

-----------------------------------------------------------------------------
(* What a program may rely on, after a write.                               *)

Memories == [Cells \cup ({NoModule} \X VectorAddrs) -> Byte \cup {Uninitialised, Unknown}]

(* A write of the history is one of bytes that may be unknown.              *)
LEMMA KeptFacts ==
  ASSUME NEW mem \in Memories, NEW y, y[2] \in Byte \cup {Unknown}
  PROVE  RefWrite(mem, y) \in Memories
  <1> DEFINE W == Meant(y[1], "write") \cup Copies(y[1])
             v == y[2]
  <1>1. RefWrite(mem, y) = [c \in DOMAIN mem |->
          IF \E d \in W : Spoils(c, d) THEN Unknown ELSE IF c \in W THEN v ELSE mem[c]]
    BY DEF RefWrite, Kept
  <1> HIDE DEF W, v
  <1>2. v \in Byte \cup {Unknown}
    BY DEF v
  <1>3. DOMAIN mem = Cells \cup ({NoModule} \X VectorAddrs)
    BY DEF Memories
  <1>4. \A c \in DOMAIN mem : (IF \E d \in W : Spoils(c, d) THEN Unknown ELSE IF c \in W THEN v ELSE mem[c])
                                \in Byte \cup {Uninitialised, Unknown}
    BY <1>2, <1>3 DEF Memories
  <1> QED
    BY <1>1, <1>3, <1>4 DEF Memories

(* A cell or a vector that a write does not reach is as it was; one that it *)
(* does is as written or unknown.                                           *)
LEMMA KeptAt ==
  ASSUME NEW mem \in Memories, NEW y, NEW c \in Cells \cup ({NoModule} \X VectorAddrs)
  PROVE  RefWrite(mem, y)[c] =
           IF \E d \in Meant(y[1], "write") \cup Copies(y[1]) : Spoils(c, d) THEN Unknown
           ELSE IF c \in Meant(y[1], "write") \cup Copies(y[1]) THEN y[2] ELSE mem[c]
  <1> DEFINE W == Meant(y[1], "write") \cup Copies(y[1])
             v == y[2]
  <1>1. RefWrite(mem, y) = [d \in DOMAIN mem |->
          IF \E e \in W : Spoils(d, e) THEN Unknown ELSE IF d \in W THEN v ELSE mem[d]]
    BY DEF RefWrite, Kept
  <1> HIDE DEF W, v
  <1>2. c \in DOMAIN mem
    BY DEF Memories
  <1>3. RefWrite(mem, y)[c] = IF \E e \in W : Spoils(c, e) THEN Unknown ELSE IF c \in W THEN v ELSE mem[c]
    BY <1>1, <1>2
  <1> QED
    BY <1>3 DEF W, v

(* What the bus holds after a write agrees with what may be relied on.      *)
LEMMA WriteAgrees ==
  ASSUME ChainsInv, OrderInv, is_up, TiersKept, NEW w \in WriteGood, NEW x \in Addr \X Byte,
         NEW y, y[1] = x[1], y[2] \in {x[2], Unknown},
         NEW mem \in Memories, Agrees(mem, w.bytes, w.vectors)
  PROVE  Agrees(RefWrite(mem, y), WriteAddr(w, x).bytes, WriteAddr(w, x).vectors)
  <1> DEFINE a == x[1]
             v == x[2]
             by == Accepting(a, "write")
             base == IF by # <<>> THEN WriteByte(by[1], a, w.bytes, v) ELSE w.bytes
             M == Meant(a, "write")
             W == M \cup Copies(a)
             after == WriteAddr(w, x)
             kept == RefWrite(mem, y)
  <1>1. a \in Addr /\ v \in Byte /\ w.bytes \in Store /\ w.vectors \in [VectorAddrs -> Byte]
    BY DEF WriteGood, WriteState
  <1>2. /\ after.bytes = PostOps(a, base, v)
        /\ after.vectors = IF a \in VectorAddrs /\ by = <<>> THEN [w.vectors EXCEPT ![a] = v] ELSE w.vectors
    BY DEF WriteAddr, WriteBy
  <1>3. by = <<>> \/ \E m \in Allocated : by = <<m>> /\ Covers(m, a) /\ WriteResult(m) = "accepted"
    <2>1. Result("write", by[1]) = WriteResult(by[1])
      BY DEF Result
    <2>2. by = <<>> \/ \E m \in Allocated : by = <<m>> /\ Covers(m, a) /\ Result("write", m) = "accepted"
      BY AcceptsFacts
    <2> HIDE DEF by
    <2> QED
      BY <2>1, <2>2
  <1>4. M = IF by # <<>> THEN IF Stores(Target(by[1])) THEN {Cell(by[1], a)} ELSE {}
            ELSE IF a \in VectorAddrs THEN {<<NoModule, a>>} ELSE {}
    BY <1>1, MeantFacts DEF MeantBy
  <1>5. Copied(registered, post_op)
    BY OrderParts DEF Arranged
  <1>6. \A c \in Cells \cup ({NoModule} \X VectorAddrs) :
          kept[c] = IF \E d \in W : Spoils(c, d) THEN Unknown ELSE IF c \in W THEN y[2] ELSE mem[c]
    BY KeptAt
  <1>7. y[2] \in {v, Unknown}
    OBVIOUS
  <1>8. \A d \in Copies(a) : d[1] # NoModule
    <2> SUFFICES ASSUME NEW d \in Copies(a) PROVE d[1] # NoModule
      OBVIOUS
    <2>1. PICK k \in DOMAIN post_op : d = Cell(post_op[k], a)
      BY <1>5, CopiesFacts
    <2>2. post_op[k] \in Allocated
      BY DEF ChainsInv
    <2>3. Target(post_op[k]) \in Module
      BY <2>2, SpanFacts DEF Allocated
    <2> QED
      BY <2>1, <2>3, NamesAssumption DEF Cell
  <1> HIDE DEF a, v, by, base, M, after, kept
  <1>9. base \in Store
    BY <1>1, <1>3, WriteFacts DEF base
  <1>10. ASSUME NEW c \in Cells, \A d \in W : ~ Spoils(c, d)
         PROVE  after.bytes[c] = IF c \in W THEN v ELSE w.bytes[c]
    <2>1. after.bytes[c] = IF c \in Copies(a) THEN v ELSE base[c]
      BY <1>1, <1>2, <1>5, <1>9, <1>10, PostOpsWrite
    <2>2. base[c] = IF c \in M THEN v ELSE w.bytes[c]
      <3>1. CASE by = <<>>
        <4>1. c # <<NoModule, a>>
          <5>1. c[1] \in Module
            BY DEF Cells
          <5> QED
            BY <5>1, NamesAssumption
        <4> QED
          BY <1>4, <3>1, <4>1 DEF base
      <3>2. CASE by # <<>>
        <4>1. PICK m \in Allocated : by = <<m>> /\ Covers(m, a) /\ WriteResult(m) = "accepted"
          BY <1>3, <3>2
        <4>2. base = WriteByte(m, a, w.bytes, v) /\ M = IF Stores(Target(m)) THEN {Cell(m, a)} ELSE {}
          BY <1>4, <3>2, <4>1 DEF base
        <4>3. Keeps(m, a) <=> Stores(Target(m))
          BY <4>1 DEF Keeps
        <4>4. /\ ~ Keeps(m, a) => base[c] = w.bytes[c]
              /\ Keeps(m, a) /\ c = Cell(m, a) => base[c] = v
              /\ c # Cell(m, a) /\ ~ Spoils(c, Cell(m, a)) => base[c] = w.bytes[c]
          BY <1>1, <4>1, <4>2, ByteWritten
        <4> QED
          BY <1>10, <4>2, <4>3, <4>4
      <3> QED
        BY <3>1, <3>2
    <2> QED
      BY <2>1, <2>2
  <1>11. ASSUME NEW c \in Cells PROVE kept[c] \in {Unknown, after.bytes[c]}
    <2>1. mem[c] \in {Unknown, w.bytes[c]}
      BY DEF Agrees
    <2>2. kept[c] = IF \E d \in W : Spoils(c, d) THEN Unknown ELSE IF c \in W THEN y[2] ELSE mem[c]
      BY <1>6
    <2> HIDE DEF W
    <2> QED
      BY <1>7, <1>10, <2>1, <2>2
  <1>12. ASSUME NEW z \in VectorAddrs PROVE kept[<<NoModule, z>>] \in {Unknown, after.vectors[z]}
    <2> DEFINE c == <<NoModule, z>>
    <2>1. mem[c] \in {Unknown, w.vectors[z]}
      BY DEF Agrees
    <2>2. \A d : ~ Spoils(c, d)
      BY DEF Spoils
    <2>3. c \in Cells \cup ({NoModule} \X VectorAddrs)
      OBVIOUS
    <2>4. c \notin Copies(a)
      BY <1>8
    <2>5. kept[c] = IF c \in M THEN y[2] ELSE mem[c]
      BY <1>6, <2>2, <2>3, <2>4
    <2>6. c \in M => a = z /\ by = <<>>
      <3>1. by # <<>> => c \notin M
        <4> SUFFICES ASSUME by # <<>>, c \in M PROVE FALSE
          OBVIOUS
        <4>1. PICK m \in Allocated : by = <<m>>
          BY <1>3
        <4>2. c = Cell(m, a)
          BY <1>4, <4>1
        <4>3. Target(m) \in Module
          BY SpanFacts DEF Allocated
        <4> QED
          BY <4>2, <4>3, NamesAssumption DEF Cell
      <3> QED
        BY <1>4, <3>1
    <2>7. a = z /\ by = <<>> => c \in M
      BY <1>4
    <2> HIDE DEF c
    <2>8. after.vectors[z] = IF a = z /\ by = <<>> THEN v ELSE w.vectors[z]
      BY <1>1, <1>2
    <2>9. kept[c] \in {Unknown, after.vectors[z]}
      BY <1>7, <2>1, <2>5, <2>6, <2>7, <2>8
    <2> QED
      BY <2>9 DEF c
  <1> QED
    BY <1>11, <1>12 DEF Agrees, kept, after

(* The history takes the writes that a call means one after the other.      *)
MeantInTurn(h, b, intended) ==
  /\ h[0] = b /\ h[Len(intended)] = FoldLeft(RefWrite, b, intended)
  /\ \A i \in 1 .. Len(intended) : h[i] = RefWrite(h[i - 1], intended[i])

(* There are such values.                                                   *)
LEMMA RefSteps ==
  ASSUME NEW b \in Memories, NEW intended \in Intents
  PROVE  \E h : MeantInTurn(h, b, intended)
  <1> DEFINE V == Memories
             n == Len(intended)
             F == [x \in V \X (1 .. n) |-> RefWrite(x[1], intended[x[2]])]
             Body(g) == [s \in SUBSET DOMAIN intended |->
                           IF s = {} THEN b ELSE RefWrite(g[s \ {Max(s)}], intended[Max(s)])]
             iter == CHOOSE g : g = Body(g)
  <1>0. intended \in Seq(Addr \X (Byte \cup {Unknown}))
    BY DEF Intents
  <1>1. n \in Nat /\ DOMAIN intended = 1 .. n /\ \A i \in 1 .. n : intended[i] \in Addr \X (Byte \cup {Unknown})
    BY <1>0
  <1>2. F \in [V \X (1 .. n) -> V] /\ \A c \in V, i \in 1 .. n : F[<<c, i>>] = RefWrite(c, intended[i])
    <2>1. \A c \in V, i \in 1 .. n : RefWrite(c, intended[i]) \in V
      <3> SUFFICES ASSUME NEW c \in V, NEW i \in 1 .. n PROVE RefWrite(c, intended[i]) \in V
        OBVIOUS
      <3>1. intended[i][2] \in Byte \cup {Unknown}
        BY <1>1
      <3> QED
        BY <3>1, KeptFacts
    <2> HIDE DEF V, n
    <2> QED
      BY <2>1
  <1>3. FoldLeft(RefWrite, b, intended) = iter[DOMAIN intended]
    BY DEF FoldLeft, MapThenFoldSet
  <1> HIDE DEF F, n, V
  <1>4. PICK g \in [SUBSET (1 .. n) -> V] : IsIter(g, n, b, F)
    <2>1. b \in V
      BY DEF V
    <2> QED
      BY <1>1, <1>2, <2>1, IterExists
  <1>5. ASSUME NEW s \in SUBSET (1 .. n)
        PROVE  g[s] = IF s = {} THEN b ELSE RefWrite(g[s \ {Max(s)}], intended[Max(s)])
    BY <1>1, <1>2, <1>4, IterStep DEF IsIter
  <1>6. g = Body(g)
    BY <1>1, <1>5
  <1>7. iter = Body(iter)
    <2> HIDE DEF Body
    <2> QED
      BY <1>6
  <1> HIDE DEF iter
  <1>8. ASSUME NEW i \in 1 .. n PROVE iter[1 .. i] = RefWrite(iter[1 .. i - 1], intended[i])
    <2>1. /\ Max(1 .. i) = i /\ (1 .. i) \ {i} = 1 .. i - 1
          /\ 1 .. i # {} /\ 1 .. i \in SUBSET DOMAIN intended
      BY <1>1, PrefixMax
    <2>2. iter[1 .. i] = RefWrite(iter[(1 .. i) \ {Max(1 .. i)}], intended[Max(1 .. i)])
      BY <1>7, <2>1
    <2> QED
      BY <2>1, <2>2
  <1> DEFINE h == [i \in 0 .. n |-> iter[1 .. i]]
  <1>9. h[0] = b
    <2>1. 0 \in 0 .. n /\ 1 .. 0 = {} /\ {} \in SUBSET DOMAIN intended
      BY <1>1
    <2>2. iter[{}] = b
      BY <1>7, <2>1
    <2> QED
      BY <2>1, <2>2
  <1>10. h[n] = iter[DOMAIN intended]
    BY <1>1
  <1>11. ASSUME NEW i \in 1 .. n PROVE h[i] = iter[1 .. i] /\ h[i - 1] = iter[1 .. i - 1]
    BY <1>1
  <1> HIDE DEF h
  <1>12. \A i \in 1 .. n : h[i] = RefWrite(h[i - 1], intended[i])
    BY <1>8, <1>11
  <1>13. h[0] = b /\ h[n] = FoldLeft(RefWrite, b, intended) /\ \A i \in 1 .. n : h[i] = RefWrite(h[i - 1], intended[i])
    BY <1>3, <1>9, <1>10, <1>12
  <1> QED
    BY <1>13 DEF n, MeantInTurn

(* The history stays a memory.                                              *)
LEMMA RefFold ==
  ASSUME NEW b \in Memories, NEW intended \in Intents
  PROVE  FoldLeft(RefWrite, b, intended) \in Memories
  <1>0. PICK h : MeantInTurn(h, b, intended)
    BY RefSteps
  <1>1. /\ h[0] = b /\ h[Len(intended)] = FoldLeft(RefWrite, b, intended)
        /\ \A i \in 1 .. Len(intended) : h[i] = RefWrite(h[i - 1], intended[i])
    BY <1>0 DEF MeantInTurn
  <1>2. Len(intended) \in Nat /\ \A i \in 1 .. Len(intended) : intended[i][2] \in Byte \cup {Unknown}
    BY DEF Intents
  <1>3. ASSUME NEW i \in 1 .. Len(intended), h[i - 1] \in Memories PROVE h[i] \in Memories
    BY <1>1, <1>2, <1>3, KeptFacts
  <1> QED
    BY <1>1, <1>2, <1>3, StepsStay

(* A byte that became unknown agrees with anything.                         *)
LEMMA UnknownAgrees ==
  ASSUME NEW mem \in Memories, NEW y, y[2] = Unknown, NEW cells, NEW vecs, Agrees(mem, cells, vecs)
  PROVE  Agrees(RefWrite(mem, y), cells, vecs)
  <1>1. ASSUME NEW c \in Cells \cup ({NoModule} \X VectorAddrs)
        PROVE  RefWrite(mem, y)[c] \in {Unknown, mem[c]}
    BY KeptAt
  <1>2. \A c \in Cells : RefWrite(mem, y)[c] \in {Unknown, mem[c]}
    BY <1>1
  <1>3. \A z \in VectorAddrs : RefWrite(mem, y)[<<NoModule, z>>] \in {Unknown, mem[<<NoModule, z>>]}
    BY <1>1
  <1> QED
    BY <1>2, <1>3 DEF Agrees

(* What the bus holds after the writes of a call agrees with what may be    *)
(* relied on after those it means.                                          *)
LEMMA FoldsAgree ==
  ASSUME ChainsInv, OrderInv, is_up, TiersKept, NEW w \in WriteGood, NEW mem \in Memories,
         Agrees(mem, w.bytes, w.vectors),
         NEW accesses \in Seq(Addr \X Byte), NEW intended \in Intents, Follows(intended, accesses)
  PROVE  Agrees(FoldLeft(RefWrite, mem, intended), FoldLeft(WriteAddr, w, accesses).bytes,
                FoldLeft(WriteAddr, w, accesses).vectors)
  <1> DEFINE n == Len(accesses)
             l == Len(intended)
             done == FoldLeft(WriteAddr, w, accesses)
  <1>1. n \in Nat /\ \A i \in 1 .. n : accesses[i] \in Addr \X Byte
    OBVIOUS
  <1>2. l \in Nat /\ \A i \in 1 .. l : intended[i][2] \in Byte \cup {Unknown}
    BY DEF Intents
  <1>3. /\ n <= l
        /\ \A i \in 1 .. n : intended[i][1] = accesses[i][1] /\ intended[i][2] \in {accesses[i][2], Unknown}
        /\ \A i \in n + 1 .. l : intended[i][2] = Unknown
    BY DEF Follows
  <1>4. \A x \in WriteGood, e \in Addr \X Byte : WriteAddr(x, e) \in WriteGood
    BY WriteKeeps
  <1>5. PICK g : WritesInTurn(g, w, accesses)
    BY <1>4, WriteSteps
  <1>6. g[0] = w /\ g[n] = done /\ \A i \in 1 .. n : g[i] = WriteAddr(g[i - 1], accesses[i])
    BY <1>5 DEF WritesInTurn
  <1>7. PICK h : MeantInTurn(h, mem, intended)
    BY RefSteps
  <1>8. /\ h[0] = mem /\ h[l] = FoldLeft(RefWrite, mem, intended)
        /\ \A i \in 1 .. l : h[i] = RefWrite(h[i - 1], intended[i])
    BY <1>7 DEF MeantInTurn
  <1> HIDE DEF n, l, done
  <1> DEFINE Both == {z \in WriteGood \X Memories : Agrees(z[2], z[1].bytes, z[1].vectors)}
             f == [i \in 0 .. n |-> <<g[i], h[i]>>]
  <1>9. f[0] \in Both
    BY <1>1, <1>6, <1>8
  <1>10. ASSUME NEW i \in 1 .. n, f[i - 1] \in Both PROVE f[i] \in Both
    <2>1. i \in 0 .. n /\ i - 1 \in 0 .. n /\ i \in 1 .. l
      BY <1>1, <1>2, <1>3
    <2>2. f[i - 1] = <<g[i - 1], h[i - 1]>> /\ f[i] = <<g[i], h[i]>>
      BY <2>1
    <2>3. g[i - 1] \in WriteGood /\ h[i - 1] \in Memories /\ Agrees(h[i - 1], g[i - 1].bytes, g[i - 1].vectors)
      BY <1>10, <2>2
    <2>4. g[i] = WriteAddr(g[i - 1], accesses[i]) /\ h[i] = RefWrite(h[i - 1], intended[i])
      BY <1>6, <1>8, <2>1
    <2> HIDE DEF f
    <2>5. g[i] \in WriteGood
      BY <1>1, <1>4, <2>3, <2>4
    <2>6. h[i] \in Memories
      BY <1>2, <2>1, <2>3, <2>4, KeptFacts
    <2>7. Agrees(h[i], g[i].bytes, g[i].vectors)
      <3>1. /\ accesses[i] \in Addr \X Byte /\ intended[i][1] = accesses[i][1]
            /\ intended[i][2] \in {accesses[i][2], Unknown}
        BY <1>1, <1>3
      <3>2. Agrees(RefWrite(h[i - 1], intended[i]), WriteAddr(g[i - 1], accesses[i]).bytes,
                   WriteAddr(g[i - 1], accesses[i]).vectors)
        BY <2>3, <3>1, WriteAgrees
      <3> QED
        BY <2>4, <3>2
    <2> QED
      BY <2>2, <2>5, <2>6, <2>7
  <1>11. f[n] \in Both /\ f[n] = <<g[n], h[n]>>
    <2>1. f[n] = <<g[n], h[n]>>
      BY <1>1
    <2> HIDE DEF f, Both
    <2>2. f[n] \in Both
      BY <1>1, <1>9, <1>10, StepsStay
    <2> QED
      BY <2>1, <2>2
  <1> HIDE DEF f
  <1>12. h[n] \in Memories /\ Agrees(h[n], done.bytes, done.vectors)
    BY <1>6, <1>11
  <1> HIDE DEF Both
  <1> DEFINE V == {y \in Memories : Agrees(y, done.bytes, done.vectors)}
  <1>13. h[n] \in V
    BY <1>12
  <1>14. ASSUME NEW i \in n + 1 .. l, h[i - 1] \in V PROVE h[i] \in V
    <2>1. i \in 1 .. l /\ intended[i][2] = Unknown
      BY <1>1, <1>2, <1>3
    <2>2. h[i] = RefWrite(h[i - 1], intended[i]) /\ h[i - 1] \in Memories /\ Agrees(h[i - 1], done.bytes, done.vectors)
      BY <1>8, <1>14, <2>1
    <2>3. h[i] \in Memories
      BY <1>2, <2>1, <2>2, KeptFacts
    <2>4. Agrees(h[i], done.bytes, done.vectors)
      BY <2>1, <2>2, UnknownAgrees
    <2> QED
      BY <2>3, <2>4
  <1>15. n \in 0 .. l
    BY <1>1, <1>2, <1>3
  <1> HIDE DEF V
  <1>16. h[l] \in V
    BY <1>2, <1>13, <1>14, <1>15, StepsStayFrom
  <1> QED
    BY <1>8, <1>16 DEF V, done

-----------------------------------------------------------------------------
(* The order of the registrations, and what a program may rely on, from the *)
(* first state on.                                                          *)

(* The bus of membus_alloc, with nothing on it.                             *)
LEMMA InitReads == Init => OrderInv /\ LastInv
  <1> SUFFICES ASSUME Init PROVE OrderInv /\ LastInv
    OBVIOUS
  <1>1. modules = <<>> /\ post_op = <<>> /\ registered = <<>>
    BY DEF Init
  <1>2. OrderInv
    <2>1. Tidy(<<>>) /\ Chained(<<>>, <<>>) /\ Placed(<<>>, <<>>) /\ Copied(<<>>, <<>>)
      BY DEF Tidy, Ascending, Chained, Placed, Copied, Range
    <2> QED
      BY <1>1, <2>1, OrderParts DEF Arranged
  <1>3. LastInv
    <2> DEFINE D == Cells \cup ({NoModule} \X VectorAddrs)
    <2>1. IInv
      BY InitInv
    <2>2. bytes \in Store /\ vectors \in [VectorAddrs -> Byte]
      BY <2>1, Parts DEF MemoryInv
    <2>3. last = [c \in D |-> IF c[1] = NoModule THEN FirstVector(c[2]) ELSE FirstByte(c)]
      BY DEF Init
    <2>4. bytes = [c \in Cells |-> FirstByte(c)] /\ vectors = [a \in VectorAddrs |-> FirstVector(a)]
      BY DEF Init
    <2>5. ASSUME NEW c \in Cells PROVE last[c] = bytes[c]
      <3>1. c[1] \in Module
        BY DEF Cells
      <3>2. c \in D /\ c[1] # NoModule
        BY <3>1, NamesAssumption
      <3> QED
        BY <2>3, <2>4, <3>2
    <2>6. ASSUME NEW a \in VectorAddrs PROVE last[<<NoModule, a>>] = vectors[a]
      <3>1. <<NoModule, a>> \in D
        OBVIOUS
      <3> HIDE DEF D
      <3> QED
        BY <2>3, <2>4, <3>1
    <2>7. ASSUME NEW c \in D PROVE last[c] \in Byte \cup {Uninitialised, Unknown}
      <3>1. CASE c \in Cells
        <4>1. bytes[c] \in Value
          BY <2>2, <3>1 DEF Store
        <4> QED
          BY <2>5, <3>1, <4>1 DEF Value
      <3>2. CASE c \in {NoModule} \X VectorAddrs
        <4>1. PICK a \in VectorAddrs : c = <<NoModule, a>>
          BY <3>2
        <4>2. vectors[a] \in Byte
          BY <2>2
        <4> QED
          BY <2>6, <4>1, <4>2
      <3> QED
        BY <3>1, <3>2
    <2>8. last \in [D -> Byte \cup {Uninitialised, Unknown}]
      <3>1. DOMAIN last = D /\ last = [c \in D |-> last[c]]
        <4> HIDE DEF D
        <4> QED
          BY <2>3
      <3> HIDE DEF D
      <3> QED
        BY <2>7, <3>1
    <2>9. Agrees(last, bytes, vectors)
      BY <2>5, <2>6 DEF Agrees
    <2> QED
      BY <2>8, <2>9 DEF LastInv
  <1> QED
    BY <1>2, <1>3

(* The calls that leave the bus alone.                                      *)
LEMMA SameOrder ==
  ASSUME OrderInv, UNCHANGED <<modules, post_op, registered, dropped, is_up>>
  PROVE  OrderInv' /\ (is_up' /\ TiersKept' <=> is_up /\ TiersKept)
  <1>1. is_up' /\ TiersKept' <=> is_up /\ TiersKept
    BY DEF TiersKept
  <1>2. Arranged(modules, post_op, registered, is_up /\ TiersKept)
    BY OrderParts
  <1>3. Arranged(modules', post_op', registered', is_up' /\ TiersKept')
    BY <1>1, <1>2 DEF Arranged
  <1> QED
    BY <1>1, <1>3, OrderParts

(* The calls that leave the memory alone.                                   *)
LEMMA SameMemory ==
  ASSUME LastInv, UNCHANGED memVars, is_up' /\ TiersKept' => is_up /\ TiersKept
  PROVE  LastInv'
  BY DEF LastInv, memVars, Agrees

(* The calls that write.                                                    *)
LEMMA WritesAgree ==
  ASSUME ChainsInv, MemoryInv, OrderInv, LastInv, Writes
  PROVE  OrderInv' /\ LastInv'
  <1>1. PICK accesses \in Seq(Addr \X Byte), intended \in Intents :
          Follows(intended, accesses) /\ WriteAll(accesses, intended)
    BY DEF Writes
  <1> DEFINE after == FoldLeft(WriteAddr, Memory, accesses)
  <1>2. /\ bytes' = after.bytes /\ vectors' = after.vectors /\ last' = FoldLeft(RefWrite, last, intended)
        /\ UNCHANGED <<busVars, refVars, is_up>>
    BY <1>1 DEF WriteAll
  <1>3. OrderInv' /\ (is_up' /\ TiersKept' <=> is_up /\ TiersKept)
    BY <1>2, SameOrder DEF busVars, refVars
  <1>4. Memory \in WriteGood /\ Memory.bytes = bytes /\ Memory.vectors = vectors
    BY DEF MemoryInv, CachesInv, Stack, WriteGood, WriteState, Value, Memory
  <1>5. last \in Memories /\ (is_up /\ TiersKept => Agrees(last, bytes, vectors))
    BY DEF LastInv, Memories
  <1>6. last' \in Memories
    BY <1>2, <1>5, RefFold
  <1>7. ASSUME is_up', TiersKept' PROVE Agrees(last', bytes', vectors')
    <2>1. is_up /\ TiersKept
      BY <1>3, <1>7
    <2>2. Agrees(last, Memory.bytes, Memory.vectors)
      BY <1>4, <1>5, <2>1
    <2>3. Agrees(FoldLeft(RefWrite, last, intended), after.bytes, after.vectors)
      BY <1>1, <1>4, <1>5, <2>1, <2>2, FoldsAgree
    <2> HIDE DEF after
    <2> QED
      BY <1>2, <2>3
  <1> HIDE DEF after
  <1>8. LastInv'
    <2>1. (Agrees(last, bytes, vectors))' <=> Agrees(last', bytes', vectors')
      BY DEF Agrees
    <2> QED
      BY <1>6, <1>7, <2>1 DEF LastInv, Memories
  <1> QED
    BY <1>3, <1>8

(* Every step keeps both.                                                   *)
LEMMA NextReads == IInv /\ OrderInv /\ LastInv /\ [Next]_vars => OrderInv' /\ LastInv'
  <1> SUFFICES ASSUME IInv, OrderInv, LastInv, [Next]_vars PROVE OrderInv' /\ LastInv'
    OBVIOUS
  <1>0. ChainsInv /\ RefsInv /\ MemoryInv
    BY Parts
  <1>1. ASSUME NEW reg \in Registrations, Register(reg[1], reg[2]) PROVE OrderInv' /\ LastInv'
    <2>1. OrderInv' /\ (is_up' /\ TiersKept' => is_up /\ TiersKept)
      BY <1>0, <1>1, RegisterOrder
    <2>2. UNCHANGED memVars
      BY <1>1 DEF Register
    <2> QED
      BY <2>1, <2>2, SameMemory
  <1>2. ASSUME UNCHANGED <<modules, post_op, registered, dropped, is_up>>, UNCHANGED memVars
        PROVE  OrderInv' /\ LastInv'
    <2>1. OrderInv' /\ (is_up' /\ TiersKept' <=> is_up /\ TiersKept)
      BY <1>2, SameOrder
    <2> QED
      BY <1>2, <2>1, SameMemory
  <1>3. ASSUME Reads PROVE OrderInv' /\ LastInv'
    <2>1. PICK addrs \in Seq(Addr) : ReadAll(addrs)
      BY <1>3 DEF Reads
    <2>2. UNCHANGED <<modules, post_op, registered, dropped, is_up>> /\ UNCHANGED memVars
      BY <2>1 DEF ReadAll, busVars, refVars
    <2> QED
      BY <1>2, <2>2
  <1>4. ASSUME Writes PROVE OrderInv' /\ LastInv'
    BY <1>0, <1>4, WritesAgree
  <1>5. CASE membus_rcache_pop \/ membus_wcache_pop
    BY <1>2, <1>5 DEF membus_rcache_pop, membus_wcache_pop, busVars, refVars
  <1>6. ASSUME NEW should_disable \in BOOLEAN, membus_set_cache_disable(should_disable)
        PROVE  OrderInv' /\ LastInv'
    BY <1>2, <1>6 DEF membus_set_cache_disable, busVars, refVars
  <1>7. ASSUME NEW m \in Held, membus_module_retain(m) \/ membus_module_release(m)
        PROVE  OrderInv' /\ LastInv'
    BY <1>2, <1>7 DEF membus_module_retain, membus_module_release, busVars
  <1>8. CASE membus_free
    <2>1. modules' = <<>> /\ is_up' = FALSE /\ UNCHANGED memVars
      BY <1>8 DEF membus_free
    <2>2. Tidy(modules')
      BY <2>1 DEF Tidy, Ascending
    <2>3. OrderInv'
      BY <2>1, <2>2, OrderParts DEF Arranged
    <2> QED
      BY <2>1, <2>3, SameMemory
  <1>9. CASE UNCHANGED vars
    BY <1>2, <1>9 DEF vars, busVars, refVars
  <1>10. ASSUME NEW r \in FillRanges,
                \/ membus_copy_out_bytes(r) \/ membus_save(r) \/ membus_fprintf(r)
                \/ \E v \in Written : membus_write_byte_to_range(r, v)
                \/ \E w \in Words : membus_write_word_to_range(r, w[1], w[2])
                \/ \E data \in Contents : membus_copy_in_bytes(r, data) \/ membus_load(r, data)
         PROVE  Reads \/ Writes
    BY <1>10, AccessCalls
  <1>11. ASSUME NEW a \in Accessed, membus_read_addr(a) \/ \E v \in Written : membus_write_addr(a, v)
         PROVE  Reads \/ Writes
    BY <1>11, AccessCalls
  <1> QED
    BY <1>1, <1>3, <1>4, <1>5, <1>6, <1>7, <1>8, <1>9, <1>10, <1>11 DEF Next

(* The bus is in the order of its registrations, and holds what a program   *)
(* may rely on, as long as no tier was lost.                                *)
THEOREM OrderHolds == Spec => [](OrderInv /\ LastInv)
  <1> DEFINE Inv == IInv /\ OrderInv /\ LastInv
  <1>1. Init => Inv
    BY InitInv, InitReads
  <1>2. Inv /\ [Next]_vars => Inv'
    BY NextInv, NextReads
  <1>3. Spec => []Inv
    <2> HIDE DEF Inv
    <2> QED
      BY <1>1, <1>2, PTL DEF Spec
  <1>4. Inv => OrderInv /\ LastInv
    OBVIOUS
  <1> QED
    BY <1>3, <1>4, PTL

(* An address reads as the byte last written to the cell it means, for any  *)
(* modules and any order of the registrations and the calls                 *)
(* (__membus_read_addr and __membus_write_addr).                            *)
THEOREM ReadsBackAlways == Spec => []ReadsBack
  <1>1. ASSUME IInv, OrderInv, LastInv PROVE ReadsBack
    <2> SUFFICES ASSUME is_up, TiersKept, NEW a \in Addr, NEW c \in Meant(a, "read")
                 PROVE  <<last[c]>> \in {<<Unknown>>, Read(a)}
      BY DEF ReadsBack
    <2>1. ChainsInv
      BY <1>1, Parts
    <2>2. c \in MeantBy(Accepting(a, "read"), a)
      BY <1>1, <2>1, MeantFacts
    <2>3. Agrees(last, bytes, vectors)
      BY <1>1 DEF LastInv
    <2>4. CASE c \in Cells /\ Read(a) = <<bytes[c]>>
      BY <2>3, <2>4 DEF Agrees
    <2>5. CASE a \in VectorAddrs /\ c = <<NoModule, a>> /\ Read(a) = <<vectors[a]>>
      BY <2>3, <2>5 DEF Agrees
    <2> QED
      BY <2>1, <2>2, <2>4, <2>5, ReadMeans
  <1> QED
    BY <1>1, Invariance, OrderHolds, PTL

(* A module of the post-op tier that stores bytes holds the last byte sent  *)
(* to each of its addresses, refused or not (the post_op loop of            *)
(* __membus_write_addr).                                                    *)
THEOREM CopiesAreKept == Spec => []CopiesKept
  <1>1. LastInv => CopiesKept
    BY DEF LastInv, CopiesKept, Agrees
  <1> QED
    BY <1>1, OrderHolds, PTL
=============================================================================
