------------------------- MODULE RateLimiterProofs -------------------------
(***************************************************************************)
(* Theorems about RateLimiter for every set of keys, limits and window.    *)
(***************************************************************************)
EXTENDS RateLimiter, TallyProofs

LEMMA AgoFinite == IsFiniteSet(Ago) /\ Ago \subseteq Nat /\ 0 \in Ago
BY FS_Interval, RateLimiterAssumption DEF Ago

LEMMA AllowedType ==
  ASSUME limit \in Nat
  PROVE  Allowed \in Nat \ {0} /\ limit <= Allowed
BY DEF Allowed

LEMMA InitTypeOK == Init => TypeOK
BY RateLimiterAssumption DEF Init, TypeOK

LEMMA NextTypeOK == TypeOK /\ [Next]_vars => TypeOK'
<1> SUFFICES ASSUME TypeOK, [Next]_vars
             PROVE  TypeOK'
  OBVIOUS
<1> USE RateLimiterAssumption, AgoFinite DEF TypeOK, Pass, Exceeds, Counted
<1>1. ASSUME NEW k \in Key, OpenBucket(k)
      PROVE  TypeOK'
  BY <1>1 DEF OpenBucket
<1>2. ASSUME NEW k \in Key, CountRequest(k)
      PROVE  TypeOK'
  BY <1>2 DEF CountRequest
<1>3. ASSUME NEW k \in Key, RefuseRequest(k)
      PROVE  TypeOK'
  BY <1>3 DEF RefuseRequest
<1>4. ASSUME Elapse
      PROVE  TypeOK'
  BY <1>4 DEF Elapse, Ago
<1>5. CASE UNCHANGED vars
  BY <1>5 DEF vars
<1> QED
  BY <1>1, <1>2, <1>3, <1>4, <1>5 DEF Next, Request

-----------------------------------------------------------------------------
(* What happens to the sum of a history                                    *)

Row == [Ago -> Nat]

LEMMA RowTotal ==
  ASSUME NEW r \in Row, NEW S \in SUBSET Ago
  PROVE  IsFiniteSet(S) /\ Total(r, S) \in Nat /\ Total(r, S) <= Total(r, Ago)
<1>1. IsFiniteSet(S)
  BY AgoFinite, FS_Subset
<1> QED
  BY <1>1, AgoFinite, TotalNat, TotalMonotone DEF Row

(* A request that passes now counts in a set with the present tick, and    *)
(* in no other.                                                            *)
LEMMA PassTotal ==
  ASSUME NEW r \in Row, NEW S \in SUBSET Ago
  PROVE  Total([r EXCEPT ![0] = @ + 1], S) = Total(r, S) + (IF 0 \in S THEN 1 ELSE 0)
<1> DEFINE q == [r EXCEPT ![0] = @ + 1]
<1>1. q \in Row /\ q[0] = r[0] + 1 /\ \A i \in Ago \ {0} : q[i] = r[i]
  BY AgoFinite DEF Row
<1> HIDE DEF q
<1>2. CASE 0 \notin S
  <2>1. \A i \in S : q[i] = r[i]
    BY <1>1, <1>2
  <2>2. Total(q, S) = Total(r, S)
    BY <2>1, TotalSame
  <2> QED
    BY <1>2, <2>2, RowTotal DEF q
<1>3. CASE 0 \in S
  <2> DEFINE R == S \ {0}
  <2>1. S = R \cup {0} /\ 0 \notin R /\ R \in SUBSET Ago
    BY <1>3
  <2>2. \A i \in R : q[i] = r[i]
    BY <1>1
  <2> HIDE DEF R
  <2>3. IsFiniteSet(R)
    BY <2>1, RowTotal
  <2>4. Total(q, R \cup {0}) = Total(q, R) + q[0]
    BY <1>1, <2>1, <2>3, AgoFinite, TotalAdd DEF Row
  <2>5. Total(r, R \cup {0}) = Total(r, R) + r[0]
    BY <2>1, <2>3, AgoFinite, TotalAdd DEF Row
  <2>6. Total(q, R) = Total(r, R)
    BY <2>2, TotalSame
  <2>7. Total(r, R) \in Nat /\ r[0] \in Nat
    BY <2>1, RowTotal, AgoFinite DEF Row
  <2> QED
    BY <1>1, <1>3, <2>1, <2>4, <2>5, <2>6, <2>7 DEF q
<1> QED
  BY <1>2, <1>3

Older(r) == [i \in Ago |-> IF i = 0 THEN 0 ELSE r[i - 1]]
Later(S) == { i + 1 : i \in S } \cap Ago

(* When time passes, what a set held is held by its successors, except for *)
(* what grows too old; the present tick is empty.                          *)
LEMMA OlderTotal ==
  ASSUME NEW r \in Row, NEW S \in SUBSET Ago
  PROVE  /\ Older(r) \in Row
         /\ Total(Older(r), Later(S)) <= Total(r, S)
         /\ Total(Older(r), Later(S) \cup {0}) = Total(Older(r), Later(S))
         /\ Window - 1 \notin S => Total(Older(r), Later(S)) = Total(r, S)
<1> DEFINE q == Older(r)
           K == { i \in S : i + 1 \in Ago }
<1>1. q \in Row /\ q[0] = 0 /\ \A i \in K : q[i + 1] = r[i]
  <2>1. \A i \in Ago : i # 0 => i - 1 \in Ago
    BY RateLimiterAssumption DEF Ago
  <2>2. \A i \in Ago : q[i] = IF i = 0 THEN 0 ELSE r[i - 1]
    BY DEF Older
  <2>3. \A i \in K : i \in Nat /\ i + 1 \in Ago /\ i + 1 # 0 /\ (i + 1) - 1 = i
    BY AgoFinite
  <2>4. q \in Row
    BY <2>1, AgoFinite DEF Older, Row
  <2> QED
    BY <2>2, <2>3, <2>4, AgoFinite
<1>2. K \in SUBSET Ago /\ K \subseteq Int /\ Later(S) = { i + 1 : i \in K }
  <2>1. \A x : x \in Later(S) <=> \E i \in S : x = i + 1 /\ i + 1 \in Ago
    BY DEF Later
  <2>2. \A x : x \in { i + 1 : i \in K } <=> \E i \in S : x = i + 1 /\ i + 1 \in Ago
    OBVIOUS
  <2>3. \A i \in Ago : i \in Int
    BY AgoFinite
  <2>4. K \in SUBSET Ago /\ K \subseteq Int
    BY <2>3
  <2> QED
    BY <2>1, <2>2, <2>4
<1>3. 0 \notin Later(S) /\ Later(S) \in SUBSET Ago
  <2>1. \A i \in S : i \in Nat /\ i + 1 # 0
    BY AgoFinite
  <2> QED
    BY <2>1 DEF Later
<1>4. Window - 1 \notin S => K = S
  <2>1. \A i \in Ago : i # Window - 1 => i + 1 \in Ago
    BY RateLimiterAssumption DEF Ago
  <2> QED
    BY <2>1
<1>5. K \subseteq S
  OBVIOUS
<1> HIDE DEF q, K
<1>6. Total(q, Later(S)) = Total(r, K)
  <2>1. IsFiniteSet(K) /\ \A i \in K : r[i] \in Nat /\ q[i + 1] = r[i]
    BY <1>1, <1>2, RowTotal DEF Row
  <2>2. Total(q, { i + 1 : i \in K }) = Total(r, K)
    BY <1>2, <2>1, TotalShift
  <2> QED
    BY <1>2, <2>2
<1>7. Total(r, K) <= Total(r, S)
  BY <1>5, RowTotal, TotalMonotone DEF Row
<1>8. Total(q, Later(S) \cup {0}) = Total(q, Later(S)) + 0
  <2>1. IsFiniteSet(Later(S)) /\ \A i \in Later(S) \cup {0} : q[i] \in Nat
    BY <1>1, <1>3, RowTotal DEF Row
  <2>2. Total(q, Later(S) \cup {0}) = Total(q, Later(S)) + q[0]
    BY <1>3, <2>1, TotalAdd
  <2> QED
    BY <1>1, <2>2
<1>9. Total(q, Later(S)) \in Nat
  BY <1>1, <1>3, RowTotal
<1> QED
  BY <1>1, <1>4, <1>6, <1>7, <1>8, <1>9 DEF q

-----------------------------------------------------------------------------
(* Buckets                                                                 *)

LEMMA InitBucketShape == Init => BucketShape
<1> SUFFICES ASSUME Init, NEW k \in Key
             PROVE  recent[k][0] = 0 /\ (limit # NaN => Total(recent[k], Ago) <= Allowed)
  <2>1. Init => \A k \in Key : left[k] = 0
    BY DEF Init
  <2> QED
    BY <2>1 DEF BucketShape
<1> DEFINE r == recent[k]
<1>1. Units(r, Ago) = {}
  BY DEF Init, Units
<1>2. Total(r, Ago) = 0
  BY <1>1, FS_EmptySet DEF Total
<1>3. limit # NaN => Allowed \in Nat
  BY AllowedType, RateLimiterAssumption DEF Init
<1> QED
  BY <1>2, <1>3, AgoFinite DEF Init

(* What BucketShape says of one key.                                       *)
Shape(k) ==
  /\ left[k] = 0 => recent[k][0] = 0
  /\ limit # NaN /\ left[k] > 0 =>
       /\ count[k] > 0
       /\ PassedInBucket(k) = IF count[k] <= Allowed THEN count[k] ELSE Allowed
       /\ Total(recent[k], BeforeBucket(k)) <= Allowed
  /\ limit # NaN /\ left[k] = 0 => Total(recent[k], Ago) <= Allowed

LEMMA RequestKeepsShape ==
  ASSUME TypeOK, NEW k \in Key, Shape(k), Request(k)
  PROVE  Shape(k)'
<1>1. /\ recent[k] \in Row /\ left[k] \in 0 .. Window /\ count[k] \in Nat
      /\ limit \in Nat \/ limit = NaN
  BY RateLimiterAssumption DEF TypeOK, Row
<1>2. limit' = limit /\ Allowed' = Allowed
  BY DEF Request, OpenBucket, CountRequest, RefuseRequest, Allowed
<1>3. limit # NaN => Allowed \in Nat \ {0} /\ limit <= Allowed
  BY <1>1, AllowedType
<1>4. InBucket(k) \in SUBSET Ago /\ BeforeBucket(k) \in SUBSET Ago
  BY DEF InBucket, BeforeBucket
<1>5. ASSUME OpenBucket(k)
      PROVE  Shape(k)'
  <2>1. /\ left[k] = 0 /\ left'[k] = Window /\ count'[k] = 1
        /\ recent'[k] = [recent[k] EXCEPT ![0] = @ + 1]
    BY <1>5 DEF OpenBucket, Pass, TypeOK
  <2>2. InBucket(k)' = {0} /\ BeforeBucket(k)' = Ago \ {0}
    BY <2>1, AgoFinite, RateLimiterAssumption DEF InBucket, BeforeBucket, Ago
  <2>3. Total(recent[k], {0}) = 0
    <3>1. Total(recent[k], {} \cup {0}) = Total(recent[k], {}) + recent[k][0]
      BY <1>1, FS_EmptySet, AgoFinite, TotalAdd DEF Row
    <3> QED
      BY <2>1, <3>1, TotalEmpty DEF Shape
  <2>4. Total(recent'[k], {0}) = 1
    BY <1>1, <2>1, <2>3, PassTotal, AgoFinite
  <2>5. /\ Total(recent'[k], Ago \ {0}) = Total(recent[k], Ago \ {0})
        /\ Total(recent[k], Ago \ {0}) \in Nat
        /\ Total(recent[k], Ago \ {0}) <= Total(recent[k], Ago)
    BY <1>1, <2>1, PassTotal, RowTotal
  <2>6. Total(recent[k], Ago) \in Nat
    BY <1>1, RowTotal
  <2> QED
    BY <1>2, <1>3, <2>1, <2>2, <2>4, <2>5, <2>6, RateLimiterAssumption
       DEF Shape, PassedInBucket
<1>6. ASSUME CountRequest(k)
      PROVE  Shape(k)'
  <2>1. /\ left[k] > 0 /\ left'[k] = left[k]
        /\ recent'[k] = [recent[k] EXCEPT ![0] = @ + 1]
        /\ limit # NaN => count[k] + 1 <= limit /\ count'[k] = count[k] + 1
    BY <1>1, <1>6 DEF CountRequest, Pass, TypeOK, Exceeds, Counted
  <2>2. /\ InBucket(k)' = InBucket(k) /\ BeforeBucket(k)' = BeforeBucket(k)
        /\ 0 \in InBucket(k) /\ 0 \notin BeforeBucket(k)
    BY <1>1, <2>1, AgoFinite, RateLimiterAssumption DEF InBucket, BeforeBucket
  <2>3. /\ Total(recent'[k], InBucket(k)) = Total(recent[k], InBucket(k)) + 1
        /\ Total(recent'[k], BeforeBucket(k)) = Total(recent[k], BeforeBucket(k))
    BY <1>1, <1>4, <2>1, <2>2, PassTotal, RowTotal
  <2> QED
    BY <1>1, <1>2, <1>3, <2>1, <2>2, <2>3 DEF Shape, PassedInBucket
<1>7. ASSUME RefuseRequest(k)
      PROVE  Shape(k)'
  <2>1. /\ left[k] > 0 /\ left'[k] = left[k] /\ recent'[k] = recent[k]
        /\ limit # NaN /\ count[k] + 1 > limit /\ count'[k] >= count[k]
        /\ count[k] > 0 => count'[k] >= Allowed /\ count[k] >= Allowed
    BY <1>1, <1>7 DEF RefuseRequest, TypeOK, Exceeds, Counted, Allowed
  <2>2. InBucket(k)' = InBucket(k) /\ BeforeBucket(k)' = BeforeBucket(k)
    BY <2>1 DEF InBucket, BeforeBucket
  <2>3. count'[k] \in Nat
    BY <1>1, <1>7 DEF RefuseRequest, TypeOK, Counted
  <2> QED
    BY <1>1, <1>2, <1>3, <2>1, <2>2, <2>3 DEF Shape, PassedInBucket
<1> QED
  BY <1>5, <1>6, <1>7 DEF Request

LEMMA ElapseKeepsShape ==
  ASSUME TypeOK, NEW k \in Key, Shape(k), Elapse
  PROVE  Shape(k)'
<1>1. /\ recent[k] \in Row /\ left[k] \in 0 .. Window /\ count[k] \in Nat
      /\ limit \in Nat \/ limit = NaN
  BY RateLimiterAssumption DEF TypeOK, Row
<1>2. /\ limit' = limit /\ Allowed' = Allowed /\ count'[k] = count[k]
      /\ recent'[k] = Older(recent[k])
      /\ left'[k] = IF left[k] > 0 THEN left[k] - 1 ELSE 0
  BY DEF Elapse, Allowed, Older
<1>3. limit # NaN => Allowed \in Nat \ {0}
  BY <1>1, AllowedType
<1>4. recent'[k][0] = 0
  BY <1>2, AgoFinite DEF Older
<1>5. InBucket(k) \in SUBSET Ago /\ BeforeBucket(k) \in SUBSET Ago
  BY DEF InBucket, BeforeBucket
<1>6. Later(Ago) \cup {0} = Ago
  BY RateLimiterAssumption DEF Later, Ago
<1>7. /\ Total(recent'[k], Ago) <= Total(recent[k], Ago)
      /\ Total(recent'[k], Ago) \in Nat /\ Total(recent[k], Ago) \in Nat
  BY <1>1, <1>2, <1>6, OlderTotal, RowTotal
<1>8. CASE left[k] = 0
  BY <1>2, <1>3, <1>4, <1>7, <1>8 DEF Shape
<1>9. CASE left[k] = 1
  <2>1. InBucket(k) = Ago /\ left'[k] = 0
    BY <1>2, <1>9, RateLimiterAssumption DEF InBucket, Ago
  <2> QED
    BY <1>1, <1>2, <1>3, <1>4, <1>7, <1>9, <2>1 DEF Shape, PassedInBucket
<1>10. CASE left[k] > 1
  <2>1. left'[k] = left[k] - 1 /\ left'[k] > 0
    BY <1>1, <1>2, <1>10
  <2>2. /\ InBucket(k)' = Later(InBucket(k)) \cup {0}
        /\ Window - 1 \notin InBucket(k)
    <3>1. InBucket(k) = 0 .. (Window - left[k])
      BY <1>1, <1>10, RateLimiterAssumption DEF InBucket, Ago
    <3>2. InBucket(k)' = 0 .. (Window - left[k] + 1)
      BY <1>1, <1>10, <2>1, RateLimiterAssumption DEF InBucket, Ago
    <3>3. Later(0 .. (Window - left[k])) = 1 .. (Window - left[k] + 1)
      <4>1. \A x \in 1 .. (Window - left[k] + 1) :
              x - 1 \in 0 .. (Window - left[k]) /\ x = (x - 1) + 1 /\ x \in Ago
        BY <1>1, <1>10, RateLimiterAssumption DEF Ago
      <4>2. \A i \in 0 .. (Window - left[k]) : i + 1 \in 1 .. (Window - left[k] + 1)
        BY <1>1, <1>10, RateLimiterAssumption
      <4> QED
        BY <4>1, <4>2 DEF Later
    <3> QED
      BY <1>1, <1>10, <3>1, <3>2, <3>3, RateLimiterAssumption
  <2>3. BeforeBucket(k)' = Later(BeforeBucket(k))
    BY <1>1, <1>10, <2>1, RateLimiterAssumption DEF InBucket, BeforeBucket, Later, Ago
  <2>4. PassedInBucket(k)' = PassedInBucket(k)
    BY <1>1, <1>2, <1>5, <2>2, OlderTotal DEF PassedInBucket
  <2>5. /\ Total(recent'[k], BeforeBucket(k)') <= Total(recent[k], BeforeBucket(k))
        /\ Total(recent'[k], BeforeBucket(k)') \in Nat
        /\ Total(recent[k], BeforeBucket(k)) \in Nat
    BY <1>1, <1>2, <1>5, <2>3, OlderTotal, RowTotal DEF Later
  <2> QED
    BY <1>2, <1>3, <1>10, <1>1, <2>1, <2>4, <2>5 DEF Shape
<1> QED
  BY <1>1, <1>8, <1>9, <1>10

LEMMA NextBucketShape == TypeOK /\ BucketShape /\ [Next]_vars => BucketShape'
<1> SUFFICES ASSUME TypeOK, BucketShape, [Next]_vars, NEW k \in Key
             PROVE  Shape(k)'
  BY DEF BucketShape, Shape
<1>0. Shape(k)
  BY DEF BucketShape, Shape
<1>1. CASE Elapse
  BY <1>0, <1>1, ElapseKeepsShape
<1>2. CASE Request(k)
  BY <1>0, <1>2, RequestKeepsShape
<1>3. ASSUME NEW q \in Key, q # k, Request(q)
      PROVE  Shape(k)'
  <2>1. UNCHANGED <<left[k], count[k], recent[k], limit>>
    BY <1>3 DEF Request, OpenBucket, CountRequest, RefuseRequest, Pass, TypeOK
  <2> QED
    BY <1>0, <2>1 DEF Shape, PassedInBucket, BeforeBucket, InBucket, Allowed
<1>4. CASE UNCHANGED vars
  BY <1>0, <1>4 DEF vars, Shape, PassedInBucket, BeforeBucket, InBucket, Allowed
<1> QED
  BY <1>1, <1>2, <1>3, <1>4 DEF Next

-----------------------------------------------------------------------------
(* The counter of a bucket is what passed in it, up to the limit.          *)
THEOREM LimiterInvariant == Spec => []LimiterInv
<1>1. Init => LimiterInv
  BY InitTypeOK, InitBucketShape DEF LimiterInv
<1>2. LimiterInv /\ [Next]_vars => LimiterInv'
  BY NextTypeOK, NextBucketShape DEF LimiterInv
<1> QED
  BY <1>1, <1>2, PTL DEF Spec

(* For any keys, limit and window: a window lets no more than the limit    *)
(* through, or one request where the limit is 0.                           *)
THEOREM NoWindowOverrun == Spec => []WindowIsRespected
<1>1. LimiterInv => WindowIsRespected
  <2> SUFFICES ASSUME LimiterInv, limit # NaN, NEW k \in Key, left[k] > 0
               PROVE  PassedInBucket(k) <= Allowed
    BY DEF WindowIsRespected
  <2>1. Allowed \in Nat /\ count[k] \in Nat
    BY AllowedType, RateLimiterAssumption DEF LimiterInv, TypeOK
  <2>2. PassedInBucket(k) = IF count[k] <= Allowed THEN count[k] ELSE Allowed
    BY DEF LimiterInv, BucketShape
  <2> QED
    BY <2>1, <2>2
<1> QED
  BY <1>1, LimiterInvariant, PTL

(* Two bursts at the seam of two windows are all that can meet in any      *)
(* stretch of time as long as a window.                                    *)
THEOREM BurstsAreBounded == Spec => []BurstIsBounded
<1>1. LimiterInv => BurstIsBounded
  <2> SUFFICES ASSUME LimiterInv, limit # NaN, NEW k \in Key
               PROVE  Total(recent[k], Ago) <= 2 * Allowed
    BY DEF BurstIsBounded
  <2>1. /\ Allowed \in Nat /\ count[k] \in Nat /\ recent[k] \in Row
        /\ left[k] \in 0 .. Window
    BY AllowedType, RateLimiterAssumption DEF LimiterInv, TypeOK, Row
  <2>2. CASE left[k] = 0
    <3>1. Total(recent[k], Ago) <= Allowed /\ Total(recent[k], Ago) \in Nat
      BY <2>1, <2>2, RowTotal DEF LimiterInv, BucketShape
    <3> QED
      BY <2>1, <3>1
  <2>3. CASE left[k] > 0
    <3>1. /\ PassedInBucket(k) <= Allowed
          /\ Total(recent[k], BeforeBucket(k)) <= Allowed
      BY <2>1, <2>3 DEF LimiterInv, BucketShape
    <3>2. /\ InBucket(k) \cup BeforeBucket(k) = Ago
          /\ InBucket(k) \cap BeforeBucket(k) = {}
          /\ InBucket(k) \in SUBSET Ago /\ BeforeBucket(k) \in SUBSET Ago
      BY DEF InBucket, BeforeBucket
    <3>3. Total(recent[k], Ago) = PassedInBucket(k) + Total(recent[k], BeforeBucket(k))
      BY <2>1, <3>2, RowTotal, TotalUnion DEF PassedInBucket, Row
    <3>4. PassedInBucket(k) \in Nat /\ Total(recent[k], BeforeBucket(k)) \in Nat
      BY <2>1, <3>2, RowTotal DEF PassedInBucket
    <3> QED
      BY <2>1, <3>1, <3>3, <3>4
  <2> QED
    BY <2>1, <2>2, <2>3
<1> QED
  BY <1>1, LimiterInvariant, PTL

(* A key is only ever refused for what it let through itself.              *)
THEOREM NoUndeservedRefusal == Spec => []RefusedOnlyWhenUsedUp
<1>1. LimiterInv => RefusedOnlyWhenUsedUp
  <2> SUFFICES ASSUME LimiterInv, NEW k \in Key, left[k] > 0, limit # NaN, count[k] > limit
               PROVE  PassedInBucket(k) = Allowed
    BY DEF RefusedOnlyWhenUsedUp, Exceeds
  <2>1. limit \in Nat /\ count[k] \in Nat /\ count[k] <= limit + 1
    BY RateLimiterAssumption DEF LimiterInv, TypeOK
  <2>2. PassedInBucket(k) = IF count[k] <= Allowed THEN count[k] ELSE Allowed
    BY DEF LimiterInv, BucketShape
  <2> QED
    BY <2>1, <2>2 DEF Allowed
<1> QED
  BY <1>1, LimiterInvariant, PTL

(* Why a refused key is let in again: no request, refused or not and of    *)
(* whichever key, puts off the reset of a bucket that is open, and every   *)
(* tick brings all of them nearer.                                         *)
NothingPutsOffReset ==
  [][/\ \A k \in Key : left[k] > 0 => left'[k] <= left[k]
     /\ Elapse => \A k \in Key : left[k] > 0 => left'[k] < left[k]]_vars

THEOREM ResetsComeNearer == Spec => NothingPutsOffReset
<1>1. ASSUME TypeOK, Next
      PROVE  /\ \A k \in Key : left[k] > 0 => left'[k] <= left[k]
             /\ Elapse => \A k \in Key : left[k] > 0 => left'[k] < left[k]
  <2>1. \A k \in Key : left[k] \in Nat
    BY <1>1, RateLimiterAssumption DEF TypeOK
  <2>2. Elapse => \A k \in Key : left[k] > 0 => left'[k] < left[k]
    BY <2>1 DEF Elapse
  <2>3. ASSUME NEW q \in Key, Request(q), NEW k \in Key, left[k] > 0
        PROVE  left'[k] <= left[k]
    BY <1>1, <2>1, <2>3 DEF Request, OpenBucket, CountRequest, RefuseRequest, TypeOK
  <2>4. ASSUME NEW k \in Key, left[k] > 0
        PROVE  left'[k] <= left[k]
    <3>1. CASE Elapse
      BY <2>1, <2>4, <3>1 DEF Elapse
    <3> QED
      BY <1>1, <2>3, <2>4, <3>1 DEF Next
  <2> QED
    BY <2>2, <2>4
<1> QED
  BY <1>1, LimiterInvariant, PTL DEF Spec, NothingPutsOffReset, LimiterInv
=============================================================================
