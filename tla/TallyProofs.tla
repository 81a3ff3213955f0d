---------------------------- MODULE TallyProofs ----------------------------
(***************************************************************************)
(* The laws of Total: it is a natural number, it is 0 on the empty set, it *)
(* grows by f[x] when x joins the set, it is monotone in the set, it only  *)
(* looks at the members' amounts, and it follows amounts that move to      *)
(* other holders.                                                          *)
(***************************************************************************)
EXTENDS Tally, FiniteSetTheorems, TLAPS

(* The units of finitely many holders are finitely many.                   *)
LEMMA UnitsFinite ==
  ASSUME NEW f, NEW S, IsFiniteSet(S), \A x \in S : f[x] \in Nat
  PROVE  IsFiniteSet(Units(f, S))
<1> DEFINE Piles == { {x} \X (1 .. f[x]) : x \in S }
<1>1. \A x \in S : IsFiniteSet({x} \X (1 .. f[x]))
  <2> TAKE x \in S
  <2>1. IsFiniteSet({x})
    BY FS_Singleton
  <2>2. IsFiniteSet(1 .. f[x])
    BY FS_Interval
  <2> QED
    BY <2>1, <2>2, FS_Product
<1>2. IsFiniteSet(Piles)
  <2> DEFINE pile == [x \in S |-> {x} \X (1 .. f[x])]
  <2>1. pile \in Surjection(S, Piles)
    BY DEF Surjection
  <2> QED
    BY <2>1, FS_Surjection
<1>3. \A T \in Piles : IsFiniteSet(T)
  BY <1>1
<1> HIDE DEF Piles
<1>4. IsFiniteSet(UNION Piles)
  BY <1>2, <1>3, FS_UNION
<1> QED
  BY <1>4 DEF Units, Piles

(* A sum of natural numbers is a natural number.                           *)
LEMMA TotalNat ==
  ASSUME NEW f, NEW S, IsFiniteSet(S), \A x \in S : f[x] \in Nat
  PROVE  Total(f, S) \in Nat
BY UnitsFinite, FS_CardinalityType DEF Total

(* The sum over no holder is 0.                                            *)
LEMMA TotalEmpty ==
  ASSUME NEW f
  PROVE  Total(f, {}) = 0
<1>1. Units(f, {}) = {}
  BY DEF Units
<1> QED
  BY <1>1, FS_EmptySet DEF Total

(* A holder that joins the set adds its amount to the sum.                 *)
LEMMA TotalAdd ==
  ASSUME NEW f, NEW S, NEW y, IsFiniteSet(S), y \notin S,
         \A x \in S \cup {y} : f[x] \in Nat
  PROVE  Total(f, S \cup {y}) = Total(f, S) + f[y]
<1> DEFINE pile == {y} \X (1 .. f[y])
<1>1. /\ IsFiniteSet(Units(f, S))
      /\ Cardinality(Units(f, S)) \in Nat
  BY UnitsFinite, FS_CardinalityType
<1>2. /\ IsFiniteSet({y})
      /\ Cardinality({y}) = 1
  BY FS_Singleton
<1>3. /\ IsFiniteSet(1 .. f[y])
      /\ Cardinality(1 .. f[y]) = f[y]
  BY FS_Interval
<1>4. /\ IsFiniteSet(pile)
      /\ Cardinality(pile) = f[y]
  <2>1. /\ IsFiniteSet(pile)
        /\ Cardinality(pile) = Cardinality({y}) * Cardinality(1 .. f[y])
    BY <1>2, <1>3, FS_Product
  <2> QED
    BY <2>1, <1>2, <1>3
<1>5. Units(f, S \cup {y}) = Units(f, S) \cup pile
  BY DEF Units
<1>6. Units(f, S) \cap pile = {}
  BY DEF Units
<1> HIDE DEF pile
<1>7. Cardinality(Units(f, S) \cup pile)
        = Cardinality(Units(f, S)) + Cardinality(pile)
            - Cardinality(Units(f, S) \cap pile)
  BY <1>1, <1>4, FS_Union
<1> QED
  <2>1. Cardinality(Units(f, S \cup {y})) = Cardinality(Units(f, S)) + f[y] - 0
    BY <1>4, <1>5, <1>6, <1>7, FS_EmptySet
  <2>2. f[y] \in Nat
    OBVIOUS
  <2> QED
    BY <1>1, <2>1, <2>2 DEF Total

(* The sum over a part is at most the sum over the whole.                  *)
LEMMA TotalMonotone ==
  ASSUME NEW f, NEW S, NEW T, IsFiniteSet(T), S \subseteq T,
         \A x \in T : f[x] \in Nat
  PROVE  Total(f, S) <= Total(f, T)
<1>1. Units(f, S) \subseteq Units(f, T)
  BY DEF Units
<1> QED
  BY <1>1, UnitsFinite, FS_Subset DEF Total

(* Two assignments that agree on the set have the same sum over it.        *)
LEMMA TotalSame ==
  ASSUME NEW f, NEW g, NEW S, \A x \in S : f[x] = g[x]
  PROVE  Total(f, S) = Total(g, S)
BY DEF Total, Units

(* Amounts that all move on to the next number sum up to the same.         *)
LEMMA TotalShift ==
  ASSUME NEW f, NEW g, NEW S, IsFiniteSet(S), S \subseteq Int,
         \A x \in S : f[x] \in Nat /\ g[x + 1] = f[x]
  PROVE  Total(g, { x + 1 : x \in S }) = Total(f, S)
<1> DEFINE T == { x + 1 : x \in S }
           move == [ u \in Units(f, S) |-> <<u[1] + 1, u[2]>> ]
<1>1. \A u \in Units(f, S) : u[1] \in S /\ u[2] \in 1 .. f[u[1]] /\ u = <<u[1], u[2]>>
  BY DEF Units
<1>2. move \in [Units(f, S) -> Units(g, T)]
  <2> SUFFICES ASSUME NEW u \in Units(f, S)
               PROVE  <<u[1] + 1, u[2]>> \in Units(g, T)
    OBVIOUS
  <2>1. u[1] + 1 \in T /\ u[2] \in 1 .. g[u[1] + 1]
    BY <1>1
  <2> QED
    BY <2>1 DEF Units
<1>3. \A u, v \in Units(f, S) : move[u] = move[v] => u = v
  <2> SUFFICES ASSUME NEW u \in Units(f, S), NEW v \in Units(f, S), move[u] = move[v]
               PROVE  u = v
    OBVIOUS
  <2>1. u[1] + 1 = v[1] + 1 /\ u[2] = v[2]
    OBVIOUS
  <2>2. u[1] = v[1]
    BY <1>1, <2>1
  <2> QED
    BY <1>1, <2>1, <2>2
<1>4. \A w \in Units(g, T) : \E u \in Units(f, S) : move[u] = w
  <2> SUFFICES ASSUME NEW w \in Units(g, T)
               PROVE  \E u \in Units(f, S) : move[u] = w
    OBVIOUS
  <2>1. PICK x \in S : w \in {x + 1} \X (1 .. g[x + 1])
    BY DEF Units
  <2>2. <<x, w[2]>> \in Units(f, S)
    BY <2>1 DEF Units
  <2>3. move[<<x, w[2]>>] = w
    BY <2>1, <2>2
  <2> QED
    BY <2>2, <2>3
<1> HIDE DEF move, T
<1>5. move \in Bijection(Units(f, S), Units(g, T))
  BY <1>2, <1>3, <1>4 DEF Bijection, Injection, Surjection, IsInjective
<1>6. IsFiniteSet(Units(f, S))
  BY UnitsFinite
<1>7. Cardinality(Units(f, S)) = Cardinality(Units(g, T))
  BY <1>5, <1>6, FS_Bijection DEF ExistsBijection
<1> QED
  BY <1>7 DEF Total, T

(* Two sets with no member in common add up.                               *)
LEMMA TotalUnion ==
  ASSUME NEW f, NEW S, NEW T, IsFiniteSet(S), IsFiniteSet(T), S \cap T = {},
         \A x \in S \cup T : f[x] \in Nat
  PROVE  Total(f, S \cup T) = Total(f, S) + Total(f, T)
<1>1. Units(f, S \cup T) = Units(f, S) \cup Units(f, T)
  BY DEF Units
<1>2. Units(f, S) \cap Units(f, T) = {}
  BY DEF Units
<1>3. /\ IsFiniteSet(Units(f, S)) /\ Cardinality(Units(f, S)) \in Nat
      /\ IsFiniteSet(Units(f, T)) /\ Cardinality(Units(f, T)) \in Nat
  BY UnitsFinite, FS_CardinalityType
<1>4. Cardinality(Units(f, S) \cup Units(f, T))
        = Cardinality(Units(f, S)) + Cardinality(Units(f, T)) - Cardinality({})
  BY <1>2, <1>3, FS_Union
<1>5. Cardinality(Units(f, S \cup T)) = Cardinality(Units(f, S)) + Cardinality(Units(f, T)) - 0
  BY <1>1, <1>4, FS_EmptySet
<1> QED
  BY <1>3, <1>5 DEF Total

(* An assignment that gives nobody more sums up to at most as much.        *)
LEMMA TotalPointwise ==
  ASSUME NEW f, NEW g, NEW S, IsFiniteSet(S),
         \A x \in S : f[x] \in Nat /\ g[x] \in Nat /\ f[x] <= g[x]
  PROVE  Total(f, S) <= Total(g, S)
<1>1. \A x \in S : 1 .. f[x] \subseteq 1 .. g[x]
  OBVIOUS
<1>2. Units(f, S) \subseteq Units(g, S)
  BY <1>1 DEF Units
<1> QED
  BY <1>2, UnitsFinite, FS_Subset DEF Total

(* Only the holders of something count.                                    *)
LEMMA TotalSupport ==
  ASSUME NEW f, NEW S, NEW T, T \subseteq S, \A x \in S \ T : f[x] = 0
  PROVE  Total(f, S) = Total(f, T)
<1>1. \A x \in S \ T : 1 .. f[x] = {}
  OBVIOUS
<1>2. Units(f, S) = Units(f, T)
  BY <1>1 DEF Units
<1> QED
  BY <1>2 DEF Total

(* One unit more for everybody adds one unit per holder.                   *)
LEMMA TotalPlusOne ==
  ASSUME NEW f, NEW g, NEW S, IsFiniteSet(S),
         \A x \in S : f[x] \in Nat /\ g[x] = f[x] + 1
  PROVE  Total(g, S) = Total(f, S) + Cardinality(S)
<1> DEFINE tip == [ x \in S |-> <<x, f[x] + 1>> ]
           Tips == { <<x, f[x] + 1>> : x \in S }
<1>1. tip \in Bijection(S, Tips)
  BY DEF Bijection, Injection, Surjection, IsInjective
<1>2. IsFiniteSet(Tips) /\ Cardinality(Tips) = Cardinality(S)
  BY <1>1, FS_Bijection DEF ExistsBijection
<1>3. \A x \in S : 1 .. g[x] = (1 .. f[x]) \cup {f[x] + 1}
  OBVIOUS
<1>4. Units(g, S) = Units(f, S) \cup Tips
  BY <1>3 DEF Units
<1>5. \A x \in S : f[x] + 1 \notin 1 .. f[x]
  OBVIOUS
<1>6. Units(f, S) \cap Tips = {}
  BY <1>5 DEF Units
<1>7. /\ IsFiniteSet(Units(f, S)) /\ Cardinality(Units(f, S)) \in Nat
      /\ Cardinality(S) \in Nat
  BY UnitsFinite, FS_CardinalityType
<1> HIDE DEF Tips, tip
<1>8. Cardinality(Units(f, S) \cup Tips)
        = Cardinality(Units(f, S)) + Cardinality(Tips) - Cardinality({})
  BY <1>2, <1>6, <1>7, FS_Union
<1>9. Cardinality(Units(g, S)) = Cardinality(Units(f, S)) + Cardinality(S) - 0
  BY <1>2, <1>4, <1>8, FS_EmptySet
<1> QED
  BY <1>7, <1>9 DEF Total

(* What rounding down a quotient leaves is less than the divisor.          *)
LEMMA Division ==
  ASSUME NEW m \in Nat, NEW n \in Nat \ {0}
  PROVE  /\ m \div n \in Nat
         /\ n * (m \div n) <= m
         /\ m < n * (m \div n) + n
<1>1. m \div n \in Nat
  OBVIOUS
<1>2. n * (m \div n) <= m
  BY Z3
<1>3. m < n * (m \div n) + n
  BY Z3
<1> QED
  BY <1>1, <1>2, <1>3

(* Amounts multiplied by n sum up to n times as much.                      *)
LEMMA TotalScale ==
  ASSUME NEW f, NEW g, NEW S, NEW n \in Nat, IsFiniteSet(S),
         \A x \in S : f[x] \in Nat /\ g[x] = f[x] * n
  PROVE  Total(g, S) = Total(f, S) * n
<1>1. IsFiniteSet(Units(f, S)) /\ Total(f, S) \in Nat
  BY UnitsFinite, FS_CardinalityType DEF Total
<1> DEFINE U == Units(f, S) \X (1 .. n)
           split == [ p \in U |-> <<p[1][1], (p[1][2] - 1) * n + p[2]>> ]
<1>2. \A p \in U : /\ p = <<p[1], p[2]>> /\ p[1] = <<p[1][1], p[1][2]>>
                   /\ p[1][1] \in S /\ p[1][2] \in 1 .. f[p[1][1]] /\ p[2] \in 1 .. n
  BY DEF Units
<1>3. split \in [U -> Units(g, S)]
  <2> SUFFICES ASSUME NEW p \in U
               PROVE  <<p[1][1], (p[1][2] - 1) * n + p[2]>> \in Units(g, S)
    OBVIOUS
  <2> DEFINE x == p[1][1]  i == p[1][2]  j == p[2]
  <2>1. x \in S /\ i \in 1 .. f[x] /\ j \in 1 .. n /\ f[x] \in Nat
    BY <1>2
  <2> HIDE DEF x, i, j
  <2>2. (i - 1) * n \in Nat /\ (i - 1) * n + n = i * n
    BY <2>1
  <2>3. i * n <= f[x] * n
    BY <2>1
  <2>4. (i - 1) * n + j \in 1 .. g[x]
    BY <2>1, <2>2, <2>3
  <2>5. <<x, (i - 1) * n + j>> \in Units(g, S)
    BY <2>1, <2>4 DEF Units
  <2> QED
    BY <2>5 DEF x, i, j
<1>4. \A p, q \in U : split[p] = split[q] => p = q
  <2> SUFFICES ASSUME NEW p \in U, NEW q \in U, split[p] = split[q]
               PROVE  p = q
    OBVIOUS
  <2> DEFINE i == p[1][2]  j == p[2]  k == q[1][2]  l == q[2]
  <2>1. p[1][1] = q[1][1] /\ (i - 1) * n + j = (k - 1) * n + l
    OBVIOUS
  <2>2. i \in Nat \ {0} /\ k \in Nat \ {0} /\ j \in 1 .. n /\ l \in 1 .. n
    BY <1>2
  <2> HIDE DEF i, j, k, l
  <2>3. \A a, b \in Nat \ {0}, c, d \in 1 .. n : a < b => (a - 1) * n + c < (b - 1) * n + d
    <3> SUFFICES ASSUME NEW a \in Nat \ {0}, NEW b \in Nat \ {0}, NEW c \in 1 .. n,
                        NEW d \in 1 .. n, a < b
                 PROVE  (a - 1) * n + c < (b - 1) * n + d
      OBVIOUS
    <3>1. a <= b - 1 /\ b - 1 \in Nat
      OBVIOUS
    <3>2. a * n <= (b - 1) * n
      BY <3>1
    <3>3. (a - 1) * n + n = a * n
      OBVIOUS
    <3> QED
      BY <3>2, <3>3
  <2>4. ~(i < k) /\ ~(k < i)
    BY <2>1, <2>2, <2>3
  <2>5. i = k
    BY <2>2, <2>4
  <2>6. j = l
    BY <2>1, <2>2, <2>5
  <2> QED
    BY <1>2, <2>1, <2>5, <2>6 DEF i, j, k, l
<1>5. \A w \in Units(g, S) : \E p \in U : split[p] = w
  <2> SUFFICES ASSUME NEW w \in Units(g, S)
               PROVE  \E p \in U : split[p] = w
    OBVIOUS
  <2>1. PICK x \in S : w \in {x} \X (1 .. g[x])
    BY DEF Units
  <2> DEFINE k == w[2]
  <2>2. w = <<x, k>> /\ k \in 1 .. f[x] * n /\ f[x] \in Nat
    BY <2>1
  <2> HIDE DEF k
  <2>3. n \in Nat \ {0} /\ k - 1 \in Nat /\ k - 1 < f[x] * n
    BY <2>2
  <2> DEFINE i == (k - 1) \div n  j == (k - 1) - n * i
  <2>3a. i \in Nat /\ n * i <= k - 1 /\ k - 1 < n * i + n
    BY <2>3, Division
  <2> HIDE DEF i
  <2>3b. n * i \in Nat
    BY <2>3, <2>3a
  <2>4. i \in Nat /\ j \in 0 .. n - 1 /\ k - 1 = n * i + j
    BY <2>3, <2>3a, <2>3b
  <2> HIDE DEF j
  <2>5. i < f[x]
    <3>1. ASSUME f[x] <= i
          PROVE  f[x] * n <= i * n
      BY <2>2, <2>3, <2>4, <3>1
    <3> QED
      BY <2>2, <2>3, <2>4, <3>1
  <2>6. <<x, i + 1>> \in Units(f, S) /\ j + 1 \in 1 .. n
    BY <2>2, <2>3, <2>4, <2>5 DEF Units
  <2>7. i * n + (j + 1) = k
    BY <2>2, <2>3, <2>4
  <2>8. split[<<<<x, i + 1>>, j + 1>>] = <<x, ((i + 1) - 1) * n + (j + 1)>>
    BY <2>6
  <2>9. (i + 1) - 1 = i
    BY <2>4
  <2> QED
    BY <2>2, <2>6, <2>7, <2>8, <2>9
<1> HIDE DEF split
<1>6. split \in Bijection(U, Units(g, S))
  BY <1>3, <1>4, <1>5 DEF Bijection, Injection, Surjection, IsInjective
<1>7. IsFiniteSet(1 .. n) /\ Cardinality(1 .. n) = n
  BY FS_Interval
<1>8. IsFiniteSet(U) /\ Cardinality(U) = Cardinality(Units(f, S)) * Cardinality(1 .. n)
  BY <1>1, <1>7, FS_Product
<1>9. Cardinality(U) = Cardinality(Units(g, S))
  BY <1>6, <1>8, FS_Bijection DEF ExistsBijection
<1> QED
  BY <1>7, <1>8, <1>9 DEF Total
=============================================================================
