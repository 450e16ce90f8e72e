--------------------------- MODULE MoneyTheorems ---------------------------
(***************************************************************************)
(* Facts about sums of amounts, for the proofs about the specifications    *)
(* that use Money.                                                         *)
(***************************************************************************)
EXTENDS Money, FiniteSetTheorems, TLAPS

(***************************************************************************)
(* There are as many units in an amount as the amount says.                *)
(***************************************************************************)
LEMMA CoinsCount ==
    ASSUME NEW f, NEW x, f[x] \in Nat
    PROVE  /\ IsFiniteSet(Coins(f, x))
           /\ Cardinality(Coins(f, x)) = f[x]
<1>1. IsFiniteSet({x}) /\ Cardinality({x}) = 1
  BY FS_Singleton
<1>2. IsFiniteSet(1 .. f[x]) /\ Cardinality(1 .. f[x]) = f[x]
  BY FS_Interval
<1>3. /\ IsFiniteSet({x} \X (1 .. f[x]))
      /\ Cardinality({x} \X (1 .. f[x])) = Cardinality({x}) * Cardinality(1 .. f[x])
  BY <1>1, <1>2, FS_Product, Zenon
<1>4. Cardinality({x} \X (1 .. f[x])) = 1 * f[x]
  BY <1>1, <1>2, <1>3, Zenon
<1>5. Cardinality({x} \X (1 .. f[x])) = f[x]
  BY <1>4
<1> QED
  BY <1>3, <1>5 DEF Coins

(***************************************************************************)
(* Finitely many amounts have finitely many units.                         *)
(***************************************************************************)
LEMMA PurseFinite ==
    ASSUME NEW S, IsFiniteSet(S), NEW f \in [S -> Nat]
    PROVE  IsFiniteSet(Purse(f))
<1> DEFINE piles == {Coins(f, x) : x \in S}
           pile == [x \in S |-> Coins(f, x)]
<1>1. pile \in Surjection(S, piles)
  BY DEF Surjection
<1>2. IsFiniteSet(piles)
  BY <1>1, FS_Surjection
<1>3. \A T \in piles : IsFiniteSet(T)
  BY CoinsCount
<1>4. IsFiniteSet(UNION piles)
  BY <1>2, <1>3, FS_UNION
<1> QED
  BY <1>4 DEF Purse

(***************************************************************************)
(* A sum is a natural number.                                              *)
(***************************************************************************)
LEMMA TotalType ==
    ASSUME NEW S, IsFiniteSet(S), NEW f \in [S -> Nat]
    PROVE  Total(f) \in Nat
BY PurseFinite, FS_CardinalityType DEF Total

(***************************************************************************)
(* A sum in which one amount changes, changes by as much.                  *)
(***************************************************************************)
LEMMA TotalChange ==
    ASSUME NEW S, IsFiniteSet(S), NEW f \in [S -> Nat], NEW g \in [S -> Nat],
           NEW x \in S, \A y \in S \ {x} : g[y] = f[y]
    PROVE  Total(g) = Total(f) - f[x] + g[x]
<1> DEFINE Rest(h) == UNION {Coins(h, y) : y \in S \ {x}}
<1>1. Rest(f) = Rest(g)
  BY DEF Coins
<1>2. ASSUME NEW h \in [S -> Nat]
      PROVE  Total(h) = Cardinality(Rest(h)) + h[x] /\ Cardinality(Rest(h)) \in Nat
  <2>1. Purse(h) = Rest(h) \cup Coins(h, x)
    BY DEF Purse
  <2>2. Rest(h) \cap Coins(h, x) = {}
    BY DEF Coins
  <2>3. IsFiniteSet(Coins(h, x)) /\ Cardinality(Coins(h, x)) = h[x]
    BY CoinsCount
  <2>4. IsFiniteSet(Rest(h))
    BY <2>1, PurseFinite, FS_Subset
  <2>5. Cardinality(Rest(h)) \in Nat
    BY <2>4, FS_CardinalityType
  <2>6. Cardinality(Purse(h)) = Cardinality(Rest(h)) + h[x] - Cardinality({})
    BY <2>1, <2>2, <2>3, <2>4, FS_Union
  <2> QED
    BY <2>5, <2>6, FS_EmptySet DEF Total
<1>3. Total(f) = Cardinality(Rest(f)) + f[x] /\ Cardinality(Rest(f)) \in Nat
  BY <1>2
<1>4. Total(g) = Cardinality(Rest(f)) + g[x]
  BY <1>1, <1>2
<1> HIDE DEF Rest
<1> QED
  BY <1>3, <1>4

(***************************************************************************)
(* A sum of smaller amounts is not larger.                                 *)
(***************************************************************************)
LEMMA TotalMonotone ==
    ASSUME NEW S, IsFiniteSet(S), NEW f \in [S -> Nat], NEW g \in [S -> Nat],
           \A x \in S : f[x] <= g[x]
    PROVE  Total(f) <= Total(g)
<1>1. ASSUME NEW x \in S
      PROVE  Coins(f, x) \subseteq Coins(g, x)
  BY <1>1 DEF Coins
<1>2. Purse(f) \subseteq Purse(g)
  BY <1>1 DEF Purse
<1> QED
  BY <1>2, PurseFinite, FS_Subset DEF Total

(***************************************************************************)
(* The sum of nothing is nothing.                                          *)
(***************************************************************************)
LEMMA TotalZero ==
    ASSUME NEW S, NEW f, DOMAIN f = S, \A x \in S : f[x] = 0
    PROVE  Total(f) = 0
<1>1. Purse(f) = {}
  BY DEF Purse, Coins
<1> QED
  BY <1>1, FS_EmptySet DEF Total

(***************************************************************************)
(* No amount exceeds the sum.                                              *)
(***************************************************************************)
LEMMA TotalMember ==
    ASSUME NEW S, IsFiniteSet(S), NEW f \in [S -> Nat], NEW x \in S
    PROVE  f[x] <= Total(f)
<1>1. Coins(f, x) \subseteq Purse(f)
  BY DEF Purse
<1>2. Cardinality(Coins(f, x)) <= Cardinality(Purse(f))
  BY <1>1, PurseFinite, FS_Subset
<1> QED
  BY <1>2, CoinsCount DEF Total

(***************************************************************************)
(* A sum is one of its amounts and the sum of the others.                  *)
(***************************************************************************)
LEMMA TotalSplit ==
    ASSUME NEW S, IsFiniteSet(S), NEW f \in [S -> Nat], NEW x \in S
    PROVE  /\ Total([y \in S \ {x} |-> f[y]]) \in Nat
           /\ Total(f) = f[x] + Total([y \in S \ {x} |-> f[y]])
<1> DEFINE g == [y \in S \ {x} |-> f[y]]
<1>1. IsFiniteSet(S \ {x}) /\ g \in [S \ {x} -> Nat]
  BY FS_Subset
<1>2. Purse(f) = Purse(g) \cup Coins(f, x)
  BY DEF Purse, Coins
<1>3. Purse(g) \cap Coins(f, x) = {}
  BY DEF Purse, Coins
<1>4. IsFiniteSet(Coins(f, x)) /\ Cardinality(Coins(f, x)) = f[x]
  BY CoinsCount
<1>5. IsFiniteSet(Purse(g)) /\ Cardinality(Purse(g)) \in Nat
  BY <1>1, PurseFinite, FS_CardinalityType
<1> HIDE DEF g
<1>6. Cardinality(Purse(f)) = Cardinality(Purse(g)) + f[x] - Cardinality({})
  BY <1>2, <1>3, <1>4, <1>5, FS_Union
<1>7. Total(g) \in Nat /\ Total(f) = f[x] + Total(g)
  BY <1>5, <1>6, FS_EmptySet DEF Total
<1> QED
  BY <1>7 DEF g

(***************************************************************************)
(* A sum of some of the amounts is not larger.                             *)
(***************************************************************************)
LEMMA TotalSubset ==
    ASSUME NEW T, IsFiniteSet(T), NEW S \in SUBSET T, NEW f \in [T -> Nat]
    PROVE  /\ Total([x \in S |-> f[x]]) \in Nat
           /\ Total([x \in S |-> f[x]]) <= Total(f)
<1> DEFINE g == [x \in S |-> f[x]]
<1>1. IsFiniteSet(S) /\ g \in [S -> Nat]
  BY FS_Subset
<1>2. Purse(g) \subseteq Purse(f)
  BY DEF Purse, Coins
<1>3. IsFiniteSet(Purse(f))
  BY PurseFinite
<1>4. Cardinality(Purse(g)) <= Cardinality(Purse(f))
  BY <1>2, <1>3, FS_Subset
<1>5. Total(g) \in Nat
  BY <1>1, TotalType
<1> QED
  BY <1>4, <1>5 DEF Total

(***************************************************************************)
(* A sum is not larger than another that has for each of its amounts one   *)
(* of its own that is as large.                                            *)
(***************************************************************************)
LEMMA TotalInjection ==
    ASSUME NEW T, IsFiniteSet(T), NEW g \in [T -> Nat],
           NEW S, NEW f \in [S -> Nat], NEW h \in [S -> T],
           \A x, y \in S : h[x] = h[y] => x = y,
           \A x \in S : f[x] <= g[h[x]]
    PROVE  Total(f) <= Total(g)
<1> DEFINE c == [p \in Purse(f) |-> <<h[p[1]], p[2]>>]
<1>1. \A p \in Purse(f) : p[1] \in S /\ p[2] \in 1 .. f[p[1]] /\ p = <<p[1], p[2]>>
  BY DEF Purse, Coins
<1>2. \A x \in S, n \in Nat : n \in 1 .. f[x] => n \in 1 .. g[h[x]]
  OBVIOUS
<1>3. \A p \in Purse(f) : c[p] \in Purse(g)
  BY <1>1, <1>2 DEF Purse, Coins
<1>4. c \in Injection(Purse(f), Purse(g))
  <2>1. ASSUME NEW p \in Purse(f), NEW q \in Purse(f), c[p] = c[q]
        PROVE  p = q
    BY <1>1, <2>1
  <2> QED
    BY <1>3, <2>1 DEF Injection, IsInjective
<1>5. IsFiniteSet(Purse(g))
  BY PurseFinite
<1> QED
  BY <1>4, <1>5, FS_Injection DEF Total

(***************************************************************************)
(* So many amounts, none larger than m, are no more than so many times m.  *)
(***************************************************************************)
LEMMA TotalBounded ==
    ASSUME NEW S, IsFiniteSet(S), NEW m \in Nat, NEW f \in [S -> Nat],
           \A x \in S : f[x] <= m
    PROVE  Total(f) <= Cardinality(S) * m
<1>1. Purse(f) \subseteq S \X (1 .. m)
  BY DEF Purse, Coins
<1>2. IsFiniteSet(1 .. m) /\ Cardinality(1 .. m) = m
  BY FS_Interval
<1>3. /\ IsFiniteSet(S \X (1 .. m))
      /\ Cardinality(S \X (1 .. m)) = Cardinality(S) * Cardinality(1 .. m)
  BY <1>2, FS_Product, Zenon
<1>4. Cardinality(Purse(f)) <= Cardinality(S \X (1 .. m))
  BY <1>1, <1>3, FS_Subset
<1>5. Cardinality(S \X (1 .. m)) = Cardinality(S) * m
  BY <1>2, <1>3
<1> QED
  BY <1>4, <1>5 DEF Total
=============================================================================
