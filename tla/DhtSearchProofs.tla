-------------------------- MODULE DhtSearchProofs --------------------------
(***************************************************************************)
(* The searches of module DhtSearch, for any number of nodes, targets and  *)
(* requests in flight, and for every limit and delay.                      *)
(***************************************************************************)
EXTENDS DhtSearch, FiniteSetTheorems, TLAPS

-----------------------------------------------------------------------------
(* Numbers from 0 to n: induction over the steps of a loop, and the least  *)
(* of some places of a list.                                               *)

LEMMA StepInduction ==
  ASSUME NEW n \in Nat, NEW S \in SUBSET (0 .. n), 0 \in S, \A k \in S : k < n => k + 1 \in S
  PROVE  S = 0 .. n
<1> SUFFICES ASSUME NEW m \in 0 .. n, m \notin S PROVE FALSE
  OBVIOUS
<1> DEFINE T == {k \in S : k < m}
<1> DEFINE U == T \ {0}
<1> DEFINE next == [k \in T |-> k + 1]
<1>1. IsFiniteSet(0 .. n)
  BY FS_Interval
<1>2. IsFiniteSet(T) /\ Cardinality(T) \in Nat
  BY <1>1, FS_Subset, FS_CardinalityType
<1>3. 0 \in T
  OBVIOUS
<1>4. IsFiniteSet(U) /\ Cardinality(U) = Cardinality(T) - 1
  BY <1>2, <1>3, FS_RemoveElement
<1>5. next \in Injection(T, U)
  <2>1. \A k \in T : k + 1 \in U
    OBVIOUS
  <2>2. next \in [T -> U]
    BY <2>1
  <2>3. \A k, l \in T : next[k] = next[l] => k = l
    OBVIOUS
  <2> QED
    BY <2>2, <2>3 DEF Injection, IsInjective
<1>6. Cardinality(T) <= Cardinality(U)
  BY <1>4, <1>5, FS_Injection
<1> QED
  BY <1>2, <1>4, <1>6

LEMMA LeastPlace ==
  ASSUME NEW n \in Nat, NEW S \in SUBSET (1 .. n), S # {}
  PROVE  Min(S) \in S /\ \A y \in S : Min(S) <= y
<1> DEFINE T == {k \in 0 .. n : \A y \in S : y > k}
<1>1. \E x \in S : \A y \in S : x <= y
  <2> SUFFICES ASSUME \A x \in S : \E y \in S : y < x PROVE FALSE
    OBVIOUS
  <2>1. 0 \in T
    OBVIOUS
  <2>2. ASSUME NEW k \in T, k < n PROVE k + 1 \in T
    <3>1. k + 1 \notin S
      OBVIOUS
    <3>2. \A y \in S : y > k + 1
      BY <3>1
    <3> QED
      BY <2>2, <3>2
  <2>3. T \in SUBSET (0 .. n) /\ \A k \in T : k < n => k + 1 \in T
    BY <2>2
  <2> HIDE DEF T
  <2>4. T = 0 .. n
    BY <2>1, <2>3, StepInduction
  <2>5. n \in T
    BY <2>4
  <2>6. \A y \in S : y > n
    BY <2>5 DEF T
  <2>7. PICK y \in S : y \in 1 .. n
    OBVIOUS
  <2>8. y > n
    BY <2>6
  <2> QED
    BY <2>7, <2>8
<1> QED
  BY <1>1 DEF Min

-----------------------------------------------------------------------------
(* Ids: the bits of numbers, and the order by distance.                    *)

LEMMA NoProduct ==
  ASSUME NEW x \in Int, NEW m \in Nat, x * m < m, x * m > -m
  PROVE  x = 0
<1>1. CASE x >= 1
  <2>1. x * m >= m
    BY <1>1
  <2> QED
    BY <2>1
<1>2. CASE x <= -1
  <2>1. x * m <= -m
    BY <1>2
  <2> QED
    BY <2>1
<1> QED
  BY <1>1, <1>2

LEMMA HalfQuotient ==
  ASSUME NEW id \in Nat, NEW p \in Nat \ {0}
  PROVE  id \div (2 * p) = (id \div p) \div 2
<1>1. PICK q \in Nat, r \in Nat : id = q * p + r /\ r < p /\ q = id \div p
  OBVIOUS
<1>2. PICK h \in Nat, s \in {0, 1} : q = 2 * h + s /\ h = q \div 2
  OBVIOUS
<1>3. PICK m \in Nat \ {0} : m = 2 * p
  OBVIOUS
<1>4. PICK d \in Nat, e \in Nat : id = d * m + e /\ e < m /\ d = id \div m
  OBVIOUS
<1>5. PICK g \in Nat : id = h * m + g /\ g < m
  <2>1. PICK g : g = s * p + r
    OBVIOUS
  <2>2. g \in Nat /\ g < m
    BY <1>1, <1>2, <1>3, <2>1
  <2>3. q * p = h * m + s * p
    <3>1. q * p = (2 * h) * p + s * p
      BY <1>1, <1>2
    <3>2. (2 * h) * p = h * m
      BY <1>3
    <3>3. (2 * h) * p \in Nat /\ s * p \in Nat /\ h * m \in Nat /\ q * p \in Nat
      BY <1>2
    <3> QED
      BY <3>1, <3>2, <3>3
  <2>4. id = h * m + g
    <3>1. q * p \in Nat /\ h * m \in Nat /\ s * p \in Nat
      BY <1>2
    <3> QED
      BY <1>1, <2>1, <2>3, <3>1
  <2> QED
    BY <2>2, <2>4
<1>6. PICK x \in Int : x = d - h
  OBVIOUS
<1>7. x * m = g - e
  <2>1. x * m = d * m - h * m
    BY <1>6
  <2>2. d * m \in Nat /\ h * m \in Nat
    OBVIOUS
  <2> QED
    BY <1>4, <1>5, <2>1, <2>2
<1>8. x = 0
  BY <1>4, <1>5, <1>7, NoProduct
<1>9. d = h
  BY <1>6, <1>8
<1>10. id \div (2 * p) = d
  BY <1>3, <1>4
<1>11. (id \div p) \div 2 = h
  BY <1>1, <1>2
<1> QED
  BY <1>9, <1>10, <1>11

IsPower(f, n) == f = [k \in 0 .. n |-> IF k = 0 THEN 1 ELSE 2 * f[k - 1]]

LEMMA PowerSteps ==
  /\ Power[0] = 1 /\ \A k \in 0 .. Bits : Power[k] \in Nat \ {0}
  /\ \A k \in 0 .. Bits : k < Bits => Power[k + 1] = 2 * Power[k]
<1>1. PICK n \in Nat : n = Bits
  BY DhtIdsAssumption
<1> DEFINE runs == {j \in 0 .. n : \E f : IsPower(f, j)}
<1>2. \E f : IsPower(f, 0)
  <2>1. IsPower([k \in 0 .. 0 |-> 1], 0)
    BY DEF IsPower
  <2> QED
    BY <2>1
<1>3. ASSUME NEW j \in runs, j < n PROVE j + 1 \in runs
  <2>1. PICK f : IsPower(f, j)
    OBVIOUS
  <2> DEFINE g == [k \in 0 .. j + 1 |-> IF k = j + 1 THEN 2 * f[j] ELSE f[k]]
  <2>2. ASSUME NEW k \in 0 .. j + 1
        PROVE  g[k] = IF k = 0 THEN 1 ELSE 2 * g[k - 1]
    BY <2>1 DEF IsPower
  <2>3. IsPower(g, j + 1)
    BY <2>2 DEF IsPower
  <2>4. j + 1 \in 0 .. n /\ \E h : IsPower(h, j + 1)
    BY <1>3, <2>3
  <2> QED
    BY <2>4
<1>4. \E f : IsPower(f, n)
  <2>1. 0 \in runs /\ n \in 0 .. n
    BY <1>2
  <2>2. runs \in SUBSET (0 .. n) /\ \A j \in runs : j < n => j + 1 \in runs
    BY <1>3
  <2> HIDE DEF runs
  <2>3. runs = 0 .. n
    BY <2>1, <2>2, StepInduction
  <2>4. n \in runs
    BY <2>1, <2>3
  <2> QED
    BY <2>4 DEF runs
<1>5. IsPower(Power, n)
  <2>1. Power = CHOOSE f : IsPower(f, Bits)
    BY DEF Power, IsPower
  <2> QED
    BY <1>1, <1>4, <2>1
<1>6. Power[0] = 1 /\ \A k \in 0 .. n : k < n => Power[k + 1] = 2 * Power[k]
  <2>1. \A k \in 0 .. n : k < n => k + 1 \in 0 .. n /\ k + 1 # 0 /\ (k + 1) - 1 = k
    OBVIOUS
  <2> QED
    BY <1>5, <2>1 DEF IsPower
<1> DEFINE good == {k \in 0 .. n : Power[k] \in Nat \ {0}}
<1>7. good = 0 .. n
  <2>1. 0 \in good
    BY <1>6
  <2>2. ASSUME NEW k \in good, k < n PROVE k + 1 \in good
    <3>1. PICK p \in Nat \ {0} : p = Power[k]
      OBVIOUS
    <3>2. k + 1 \in 0 .. n /\ Power[k + 1] = 2 * p
      BY <1>6, <2>2, <3>1
    <3> QED
      BY <3>2
  <2>3. good \in SUBSET (0 .. n) /\ \A k \in good : k < n => k + 1 \in good
    BY <2>2
  <2> HIDE DEF good
  <2> QED
    BY <2>1, <2>3, StepInduction
<1> QED
  BY <1>1, <1>6, <1>7

\* Ids that agree on every bit are the same.
LEMMA SameBits ==
  ASSUME NEW a \in Ids, NEW b \in Ids, \A k \in 0 .. Bits - 1 : Bit(a, k) = Bit(b, k)
  PROVE  a = b
<1>1. PICK n \in Nat : n = Bits
  BY DhtIdsAssumption
<1>2. a \in Nat /\ b \in Nat /\ a < Power[n] /\ b < Power[n] /\ Power[n] \in Nat \ {0}
  BY <1>1, PowerSteps DEF Ids
<1> DEFINE good == {k \in 0 .. n : a \div Power[n - k] = b \div Power[n - k]}
<1>3. 0 \in good
  <2>1. PICK p \in Nat \ {0} : p = Power[n]
    BY <1>2
  <2>2. a \div p = 0 /\ b \div p = 0
    BY <1>2, <2>1
  <2> QED
    BY <2>1, <2>2
<1>4. ASSUME NEW k \in good, k < n PROVE k + 1 \in good
  <2>1. PICK m \in 0 .. n : m = n - (k + 1) /\ m = n - 1 - k /\ m + 1 = n - k /\ m < n
    BY <1>4
  <2>2. PICK p \in Nat \ {0} : p = Power[m]
    BY <1>1, PowerSteps
  <2>3. Power[n - k] = 2 * p
    BY <1>1, <2>1, <2>2, PowerSteps
  <2>4. PICK u \in Nat, v \in Nat : u = a \div p /\ v = b \div p
    BY <1>2
  <2>5. u \div 2 = v \div 2
    <3>1. a \div (2 * p) = b \div (2 * p)
      BY <2>3
    <3>2. a \div (2 * p) = (a \div p) \div 2 /\ b \div (2 * p) = (b \div p) \div 2
      BY <1>2, HalfQuotient
    <3> QED
      BY <2>4, <3>1, <3>2
  <2>6. u % 2 = v % 2
    <3>1. Bit(a, k) = Bit(b, k)
      BY <1>1, <1>4
    <3>2. Bit(a, k) = (a \div p) % 2 /\ Bit(b, k) = (b \div p) % 2
      BY <1>1, <2>1, <2>2 DEF Bit
    <3> QED
      BY <2>4, <3>1, <3>2
  <2>7. u = v
    BY <2>5, <2>6
  <2>8. a \div Power[n - (k + 1)] = b \div Power[n - (k + 1)]
    BY <2>1, <2>2, <2>4, <2>7
  <2>9. k + 1 \in 0 .. n
    BY <1>4
  <2> QED
    BY <2>8, <2>9
<1>5. n \in good
  <2>1. good \in SUBSET (0 .. n) /\ \A k \in good : k < n => k + 1 \in good
    BY <1>4
  <2> HIDE DEF good
  <2>2. good = 0 .. n
    BY <1>3, <2>1, StepInduction
  <2> QED
    BY <2>2
<1>6. a \div 1 = b \div 1
  <2>1. n - n = 0 /\ Power[0] = 1
    BY PowerSteps
  <2>2. a \div Power[n - n] = b \div Power[n - n]
    BY <1>5
  <2> QED
    BY <2>1, <2>2
<1> QED
  BY <1>2, <1>6

LEMMA BitValues ==
  ASSUME NEW id \in Ids, NEW k \in 0 .. Bits - 1
  PROVE  Bit(id, k) \in {0, 1}
<1>1. PICK n \in Nat : n = Bits
  BY DhtIdsAssumption
<1>2. n - 1 - k \in 0 .. n
  BY <1>1
<1>3. PICK p \in Nat \ {0} : p = Power[n - 1 - k]
  BY <1>1, <1>2, PowerSteps
<1>4. id \in Nat
  BY <1>1, PowerSteps DEF Ids
<1>5. PICK q \in Nat : q = id \div p
  BY <1>4
<1>6. Bit(id, k) = q % 2
  BY <1>1, <1>3, <1>5 DEF Bit
<1> QED
  BY <1>6

\* Where two ids part.
LEMMA PartsAt ==
  ASSUME NEW a \in Ids, NEW b \in Ids, a # b
  PROVE  /\ CommonBits(a, b) \in 0 .. Bits - 1 /\ CommonBits(a, b) \in Nat
         /\ Bit(a, CommonBits(a, b)) # Bit(b, CommonBits(a, b))
         /\ \A k \in 0 .. Bits - 1 : Bit(a, k) # Bit(b, k) => CommonBits(a, b) <= k
<1>1. PICK n \in Nat : n = Bits
  BY DhtIdsAssumption
<1>2. PICK S : S = {k \in 0 .. Bits - 1 : Bit(a, k) # Bit(b, k)}
  OBVIOUS
<1>3. S # {}
  BY <1>2, SameBits
<1>4. PICK T : T = {k \in 1 .. n : k - 1 \in S}
  OBVIOUS
<1>5. T # {} /\ T \in SUBSET (1 .. n)
  <2>1. PICK k \in 0 .. n - 1 : k \in S
    BY <1>1, <1>2, <1>3
  <2>2. k + 1 \in 1 .. n /\ (k + 1) - 1 = k
    OBVIOUS
  <2> QED
    BY <1>4, <2>1, <2>2
<1>6. PICK m \in 1 .. n : m \in T /\ \A y \in T : m <= y
  BY <1>5, LeastPlace
<1>7. m - 1 \in S /\ \A y \in S : m - 1 <= y
  <2>1. m - 1 \in S
    BY <1>4, <1>6
  <2>2. ASSUME NEW y \in S PROVE m - 1 <= y
    <3>1. y \in 0 .. n - 1 /\ y + 1 \in 1 .. n /\ (y + 1) - 1 = y
      BY <1>1, <1>2
    <3>2. y + 1 \in T
      BY <1>4, <3>1
    <3>3. m <= y + 1
      BY <1>6, <3>2
    <3> QED
      BY <3>1, <3>3
  <2> QED
    BY <2>1, <2>2
<1>8. PICK c : c = CommonBits(a, b)
  OBVIOUS
<1>9. c = Min(S)
  BY <1>2, <1>8 DEF CommonBits
<1>10. c \in S /\ \A y \in S : c <= y
  BY <1>7, <1>9 DEF Min
<1>11. c \in 0 .. Bits - 1 /\ c \in Nat /\ Bit(a, c) # Bit(b, c)
  BY <1>1, <1>2, <1>10
<1> QED
  BY <1>2, <1>8, <1>10, <1>11

\* Closer is a strict total order of the ids.
LEMMA CloserTotal ==
  ASSUME NEW ref \in Ids, NEW a \in Ids, NEW b \in Ids, a # b
  PROVE  Closer(a, b, ref) <=> ~Closer(b, a, ref)
<1>1. PICK k \in 0 .. Bits - 1 : k = CommonBits(a, b) /\ Bit(a, k) # Bit(b, k)
  BY PartsAt
<1>2. CommonBits(b, a) = CommonBits(a, b)
  <2>1. PICK l \in 0 .. Bits - 1 : l = CommonBits(b, a) /\ Bit(b, l) # Bit(a, l)
    BY PartsAt
  <2>2. CommonBits(a, b) <= l /\ CommonBits(b, a) <= k
    BY <1>1, <2>1, PartsAt
  <2>3. k \in Int /\ l \in Int
    BY DhtIdsAssumption
  <2> QED
    BY <1>1, <2>1, <2>2, <2>3
<1>3. Bit(a, k) \in {0, 1} /\ Bit(b, k) \in {0, 1} /\ Bit(ref, k) \in {0, 1}
  BY BitValues
<1> QED
  BY <1>1, <1>2, <1>3 DEF Closer

LEMMA CloserIrreflexive ==
  ASSUME NEW ref, NEW a PROVE ~Closer(a, a, ref)
BY DEF Closer

LEMMA CloserTransitive ==
  ASSUME NEW ref \in Ids, NEW a \in Ids, NEW b \in Ids, NEW c \in Ids,
         Closer(a, b, ref), Closer(b, c, ref)
  PROVE  Closer(a, c, ref)
<1>1. PICK k \in 0 .. Bits - 1 : /\ k = CommonBits(a, b) /\ Bit(a, k) # Bit(b, k) /\ Bit(a, k) = Bit(ref, k)
                                 /\ \A j \in 0 .. Bits - 1 : Bit(a, j) # Bit(b, j) => k <= j
  BY PartsAt DEF Closer
<1>2. PICK l \in 0 .. Bits - 1 : /\ l = CommonBits(b, c) /\ Bit(b, l) # Bit(c, l) /\ Bit(b, l) = Bit(ref, l)
                                 /\ \A j \in 0 .. Bits - 1 : Bit(b, j) # Bit(c, j) => l <= j
  BY PartsAt DEF Closer
<1>3. k \in Int /\ l \in Int /\ \A j \in 0 .. Bits - 1 : j \in Int
  BY DhtIdsAssumption
<1>4. k # l
  BY <1>1, <1>2
<1>5. PICK m \in 0 .. Bits - 1 : /\ Bit(a, m) = Bit(ref, m) /\ Bit(c, m) # Bit(ref, m)
                                 /\ \A j \in 0 .. Bits - 1 : Bit(a, j) # Bit(c, j) => m <= j
  <2>1. CASE k < l
    <3>1. Bit(c, k) = Bit(b, k)
      BY <1>2, <1>3, <2>1
    <3>2. Bit(c, k) # Bit(ref, k)
      BY <1>1, <3>1
    <3>3. \A j \in 0 .. Bits - 1 : Bit(a, j) # Bit(c, j) => k <= j
      BY <1>1, <1>2, <1>3, <2>1
    <3> QED
      BY <1>1, <3>2, <3>3
  <2>2. CASE l < k
    <3>1. Bit(a, l) = Bit(b, l)
      BY <1>1, <1>3, <2>2
    <3>2. \A j \in 0 .. Bits - 1 : Bit(a, j) # Bit(c, j) => l <= j
      BY <1>1, <1>2, <1>3, <2>2
    <3> QED
      BY <1>2, <3>1, <3>2
  <2> QED
    BY <1>3, <1>4, <2>1, <2>2
<1>6. a # c
  BY <1>5
<1>7. CommonBits(a, c) = m
  <2>1. PICK o \in 0 .. Bits - 1 : /\ o = CommonBits(a, c) /\ Bit(a, o) # Bit(c, o)
                                   /\ \A j \in 0 .. Bits - 1 : Bit(a, j) # Bit(c, j) => o <= j
    BY <1>6, PartsAt
  <2>2. o <= m /\ m <= o
    BY <1>5, <2>1
  <2>3. o \in Int /\ m \in Int
    BY <1>3
  <2> QED
    BY <2>1, <2>2, <2>3
<1> QED
  BY <1>5, <1>6, <1>7 DEF Closer

-----------------------------------------------------------------------------
(* A list without the members at some places.                              *)

WithoutStep(q, list, places, k) == IF k \in places THEN q ELSE Append(q, list[k])
IsWithoutRun(f, list, places, n) ==
  f = [k \in 0 .. n |-> IF k = 0 THEN <<>> ELSE WithoutStep(f[k - 1], list, places, k)]
WithoutRun(list, places, n) == CHOOSE f : IsWithoutRun(f, list, places, n)

LEMMA WithoutRunSteps ==
  ASSUME NEW list, NEW places, NEW n \in Nat
  PROVE  IsWithoutRun(WithoutRun(list, places, n), list, places, n)
<1> DEFINE runs == {j \in 0 .. n : \E f : IsWithoutRun(f, list, places, j)}
<1>1. \E f : IsWithoutRun(f, list, places, 0)
  <2>1. IsWithoutRun([k \in 0 .. 0 |-> <<>>], list, places, 0)
    BY DEF IsWithoutRun
  <2> QED
    BY <2>1
<1>2. ASSUME NEW j \in runs, j < n PROVE j + 1 \in runs
  <2>1. PICK f : IsWithoutRun(f, list, places, j)
    OBVIOUS
  <2> DEFINE g == [k \in 0 .. j + 1 |->
                     IF k = j + 1 THEN WithoutStep(f[j], list, places, j + 1) ELSE f[k]]
  <2>2. ASSUME NEW k \in 0 .. j + 1
        PROVE  g[k] = IF k = 0 THEN <<>> ELSE WithoutStep(g[k - 1], list, places, k)
    BY <2>1 DEF IsWithoutRun
  <2>3. IsWithoutRun(g, list, places, j + 1)
    BY <2>2 DEF IsWithoutRun
  <2>4. j + 1 \in 0 .. n /\ \E h : IsWithoutRun(h, list, places, j + 1)
    BY <1>2, <2>3
  <2> QED
    BY <2>4
<1>3. \E f : IsWithoutRun(f, list, places, n)
  <2>1. 0 \in runs /\ n \in 0 .. n
    BY <1>1
  <2>2. runs \in SUBSET (0 .. n) /\ \A j \in runs : j < n => j + 1 \in runs
    BY <1>2
  <2> HIDE DEF runs
  <2>3. runs = 0 .. n
    BY <2>1, <2>2, StepInduction
  <2>4. n \in runs
    BY <2>1, <2>3
  <2> QED
    BY <2>4 DEF runs
<1> QED
  BY <1>3 DEF WithoutRun

LEMMA WithoutIsRun ==
  ASSUME NEW list, NEW places
  PROVE  Without(list, places) = WithoutRun(list, places, Len(list))[Len(list)]
BY DEF Without, WithoutRun, IsWithoutRun, WithoutStep

\* What has been kept of the first k members: each once, and in their order.
KeptOf(q, m, list, places, k, S) ==
  /\ q \in Seq(S) /\ m = Len(q) /\ m <= k
  /\ \A i \in 1 .. m : \E j \in 1 .. k : j \notin places /\ q[i] = list[j]
  /\ \A j \in 1 .. k : j \notin places => \E i \in 1 .. m : q[i] = list[j]
  /\ \A i1, i2 \in 1 .. m : i1 < i2 =>
       \E j1, j2 \in 1 .. k : /\ j1 < j2 /\ j1 \notin places /\ j2 \notin places
                              /\ q[i1] = list[j1] /\ q[i2] = list[j2]
KeptInv(q, list, places, k, S) == \E m \in Nat : KeptOf(q, m, list, places, k, S)

LEMMA KeptStep ==
  ASSUME NEW S, NEW n \in Nat, NEW list \in [1 .. n -> S], NEW places, NEW k \in 0 .. n, k < n,
         NEW q, KeptInv(q, list, places, k, S)
  PROVE  KeptInv(WithoutStep(q, list, places, k + 1), list, places, k + 1, S)
<1>1. PICK m \in Nat : KeptOf(q, m, list, places, k, S)
  BY DEF KeptInv
<1>2. \A j \in 1 .. k : j \in 1 .. k + 1
  OBVIOUS
<1>3. \A j \in 1 .. k + 1 : j \in 1 .. k \/ j = k + 1
  OBVIOUS
<1>4. CASE k + 1 \in places
  <2>1. KeptOf(q, m, list, places, k + 1, S)
    BY <1>1, <1>2, <1>3, <1>4 DEF KeptOf
  <2> QED
    BY <1>4, <2>1 DEF KeptInv, WithoutStep
<1>5. CASE k + 1 \notin places
  <2>1. PICK x \in S : x = list[k + 1]
    OBVIOUS
  <2>2. PICK r : r = Append(q, x)
    OBVIOUS
  <2>3. q \in Seq(S) /\ m = Len(q)
    BY <1>1 DEF KeptOf
  <2>4. /\ r \in Seq(S) /\ Len(r) = m + 1 /\ r[m + 1] = x
        /\ \A i \in 1 .. m : r[i] = q[i]
    BY <2>2, <2>3
  <2>5. \A i \in 1 .. m + 1 : i \in 1 .. m \/ i = m + 1
    OBVIOUS
  <2>6. k + 1 \in 1 .. k + 1 /\ m + 1 \in 1 .. m + 1 /\ \A i \in 1 .. m : i \in 1 .. m + 1
    OBVIOUS
  <2>7. \A i \in 1 .. m + 1 : \E j \in 1 .. k + 1 : j \notin places /\ r[i] = list[j]
    <3>1. \A i \in 1 .. m : \E j \in 1 .. k : j \notin places /\ q[i] = list[j]
      BY <1>1 DEF KeptOf
    <3> QED
      BY <1>2, <1>5, <2>1, <2>4, <2>5, <2>6, <3>1
  <2>8. \A j \in 1 .. k + 1 : j \notin places => \E i \in 1 .. m + 1 : r[i] = list[j]
    <3>1. \A j \in 1 .. k : j \notin places => \E i \in 1 .. m : q[i] = list[j]
      BY <1>1 DEF KeptOf
    <3>2. r[m + 1] = list[k + 1]
      BY <2>1, <2>4
    <3> QED
      BY <1>3, <2>4, <2>6, <3>1, <3>2
  <2>9. ASSUME NEW i1 \in 1 .. m + 1, NEW i2 \in 1 .. m + 1, i1 < i2
        PROVE  \E j1, j2 \in 1 .. k + 1 : /\ j1 < j2 /\ j1 \notin places /\ j2 \notin places
                                          /\ r[i1] = list[j1] /\ r[i2] = list[j2]
    <3>1. \A j \in 1 .. k : j < k + 1
      OBVIOUS
    <3>2. CASE i1 \in 1 .. m /\ i2 \in 1 .. m
      <4>1. PICK j1 \in 1 .. k, j2 \in 1 .. k :
              j1 < j2 /\ j1 \notin places /\ j2 \notin places /\ q[i1] = list[j1] /\ q[i2] = list[j2]
        BY <1>1, <2>9, <3>2 DEF KeptOf
      <4> QED
        BY <1>2, <2>4, <3>2, <4>1
    <3>3. CASE i1 \in 1 .. m /\ i2 = m + 1
      <4>1. PICK j1 \in 1 .. k : j1 \notin places /\ q[i1] = list[j1]
        BY <1>1, <3>3 DEF KeptOf
      <4> QED
        BY <1>2, <1>5, <2>1, <2>4, <2>6, <3>1, <3>3, <4>1
    <3> QED
      BY <2>5, <2>9, <3>2, <3>3
  <2>10. KeptOf(r, m + 1, list, places, k + 1, S)
    <3>1. m + 1 <= k + 1
      BY <1>1 DEF KeptOf
    <3> QED
      BY <2>4, <2>7, <2>8, <2>9, <3>1 DEF KeptOf
  <2> QED
    BY <1>5, <2>1, <2>2, <2>10 DEF KeptInv, WithoutStep
<1> QED
  BY <1>4, <1>5

LEMMA WithoutKeeps ==
  ASSUME NEW S, NEW list \in Seq(S), NEW places
  PROVE  KeptInv(Without(list, places), list, places, Len(list), S)
<1>1. PICK n \in Nat : n = Len(list)
  OBVIOUS
<1>2. list \in [1 .. n -> S]
  BY <1>1
<1>3. PICK run : run = WithoutRun(list, places, n)
  OBVIOUS
<1>4. /\ run[0] = <<>>
      /\ \A k \in 0 .. n : k < n =>
           run[k + 1] = WithoutStep(run[k], list, places, k + 1)
  <2>1. IsWithoutRun(run, list, places, n)
    BY <1>3, WithoutRunSteps
  <2>2. \A k \in 0 .. n : k < n => k + 1 \in 0 .. n /\ k + 1 # 0 /\ (k + 1) - 1 = k
    OBVIOUS
  <2> QED
    BY <2>1, <2>2 DEF IsWithoutRun
<1> DEFINE good == {k \in 0 .. n : KeptInv(run[k], list, places, k, S)}
<1>5. 0 \in good
  <2>1. KeptOf(<<>>, 0, list, places, 0, S)
    BY DEF KeptOf
  <2> QED
    BY <1>4, <2>1 DEF KeptInv
<1>6. ASSUME NEW k \in good, k < n PROVE k + 1 \in good
  <2>1. KeptInv(WithoutStep(run[k], list, places, k + 1), list, places, k + 1, S)
    BY <1>2, <1>6, KeptStep
  <2>2. k + 1 \in 0 .. n
    BY <1>6
  <2> QED
    BY <1>4, <2>1, <2>2
<1>7. KeptInv(run[n], list, places, n, S)
  <2>1. good \in SUBSET (0 .. n) /\ \A k \in good : k < n => k + 1 \in good
    BY <1>6
  <2> HIDE DEF good
  <2>2. good = 0 .. n
    BY <1>5, <2>1, StepInduction
  <2>3. n \in good
    BY <2>2
  <2> QED
    BY <2>3 DEF good
<1> QED
  BY <1>1, <1>3, <1>7, WithoutIsRun

-----------------------------------------------------------------------------
(* The values of one search.                                               *)

NodeStates ==
  [id : Others, replied : BOOLEAN, acked : BOOLEAN, token : BOOLEAN, pinged : Nat,
   request_age : Nat, reply_age : Nat]
\* No node is twice in the list of a search.
NodeLists ==
  {nodes \in Seq(NodeStates) : \A i, j \in 1 .. Len(nodes) : nodes[i].id = nodes[j].id => i = j}
SearchStates ==
  [tid : Nat, id : Targets, port : Ports \cup {0}, done : BOOLEAN, step_age : Nat, nodes : NodeLists]
Requests == [type : {"get_peers", "announce_peer"}, tid : Nat, to : Others]

\* The search is the same, and done or not as it was.
SameSearch(sr, new) ==
  new \in SearchStates /\ new.id = sr.id /\ new.done = sr.done
\* No node of a list has been asked or has replied.
Unasked(nodes) == \A i \in 1 .. Len(nodes) : ~nodes[i].replied /\ nodes[i].pinged = 0

LEMMA Limits ==
  /\ SearchNodes \in Nat \ {0} /\ Closest \in Nat \ {0} /\ MaxPings \in Nat \ {0}
  /\ Inflight \in Nat \ {0} /\ TidMod \in Nat \ {0}
  /\ Retransmit \in Nat /\ StepWait \in Nat /\ ExpireTime \in Nat /\ ReplyTime \in Nat
BY DhtSearchAssumption

\* Another list of nodes for a search.
LEMMA NewList ==
  ASSUME NEW sr \in SearchStates, NEW nodes \in NodeLists
  PROVE  /\ SameSearch(sr, [sr EXCEPT !.nodes = nodes])
         /\ [sr EXCEPT !.nodes = nodes].nodes = nodes
BY DEF SearchStates, SameSearch

LEMMA NewNode ==
  ASSUME NEW id \in Others
  PROVE  /\ NewSearchNode(id) \in NodeStates /\ NewSearchNode(id).id = id
         /\ ~NewSearchNode(id).replied /\ NewSearchNode(id).pinged = 0
BY Limits DEF NewSearchNode, NodeStates

\* The list with a node more, or as many when it was full.
LEMMA InsertedNodes ==
  ASSUME NEW S, NEW nodes \in Seq(S), NEW i \in 1 .. Len(nodes) + 1, NEW n \in S
  PROVE  \E m \in Nat :
           /\ Inserted(nodes, i, n) \in Seq(S) /\ Len(Inserted(nodes, i, n)) = m /\ m <= Len(nodes) + 1
           /\ m <= SearchNodes /\ (m = Len(nodes) + 1 \/ m = SearchNodes)
           /\ \A j \in 1 .. m : Inserted(nodes, i, n)[j] =
                IF j < i THEN nodes[j] ELSE IF j = i THEN n ELSE nodes[j - 1]
<1>1. PICK l \in Nat : l = Len(nodes)
  OBVIOUS
<1>2. PICK longer : longer = InsertAt(nodes, i, n)
  OBVIOUS
<1>3. PICK p : p = SubSeq(nodes, 1, i - 1)
  OBVIOUS
<1>4. PICK q : q = SubSeq(nodes, i, l)
  OBVIOUS
<1>5. p \in Seq(S) /\ Len(p) = i - 1 /\ \A j \in 1 .. i - 1 : p[j] = nodes[j]
  BY <1>1, <1>3
<1>6. q \in Seq(S) /\ Len(q) = l + 1 - i /\ \A j \in 1 .. l + 1 - i : q[j] = nodes[i + j - 1]
  BY <1>1, <1>4
<1>7. longer = p \o <<n>> \o q
  BY <1>1, <1>2, <1>3, <1>4 DEF InsertAt
<1>8. PICK pn : pn = p \o <<n>>
  OBVIOUS
<1>9. /\ pn \in Seq(S) /\ Len(pn) = i /\ pn[i] = n
      /\ \A j \in 1 .. i - 1 : pn[j] = nodes[j]
  BY <1>5, <1>8
<1>10. longer \in Seq(S) /\ Len(longer) = l + 1
  BY <1>1, <1>6, <1>7, <1>8, <1>9
<1>11. \A j \in 1 .. l + 1 : longer[j] = IF j < i THEN nodes[j] ELSE IF j = i THEN n ELSE nodes[j - 1]
  <2> SUFFICES ASSUME NEW j \in 1 .. l + 1
               PROVE  longer[j] = IF j < i THEN nodes[j] ELSE IF j = i THEN n ELSE nodes[j - 1]
    OBVIOUS
  <2>1. CASE j <= i
    <3>1. longer[j] = pn[j]
      BY <1>1, <1>6, <1>7, <1>8, <1>9, <2>1
    <3> QED
      BY <1>9, <2>1, <3>1
  <2>2. CASE j > i
    <3>1. PICK k \in 1 .. l + 1 - i : k = j - i
      BY <1>1, <2>2
    <3>2. longer[j] = q[k]
      BY <1>1, <1>6, <1>7, <1>8, <1>9, <2>2, <3>1
    <3>3. i + k - 1 = j - 1
      BY <3>1
    <3> QED
      BY <1>6, <2>2, <3>2, <3>3
  <2> QED
    BY <1>1, <2>1, <2>2
<1>12. PICK m \in Nat : /\ m = Min({l + 1, SearchNodes}) /\ m <= l + 1
                        /\ m <= SearchNodes /\ (m = l + 1 \/ m = SearchNodes)
  BY <1>1, Limits DEF Min
<1>13. Inserted(nodes, i, n) = SubSeq(longer, 1, m)
  BY <1>2, <1>10, <1>12 DEF Inserted
<1>14. PICK r : r = SubSeq(longer, 1, m)
  OBVIOUS
<1>15. m <= Len(longer)
  BY <1>10, <1>12
<1>16. r \in Seq(S) /\ Len(r) = m /\ \A j \in 1 .. m : r[j] = longer[j]
  BY <1>10, <1>14, <1>15
<1>17. \A j \in 1 .. m : r[j] = IF j < i THEN nodes[j] ELSE IF j = i THEN n ELSE nodes[j - 1]
  <2> SUFFICES ASSUME NEW j \in 1 .. m
               PROVE  r[j] = IF j < i THEN nodes[j] ELSE IF j = i THEN n ELSE nodes[j - 1]
    OBVIOUS
  <2>1. j \in 1 .. l + 1
    BY <1>12
  <2>2. r[j] = longer[j]
    BY <1>16
  <2> QED
    BY <1>11, <2>1, <2>2
<1>18. Inserted(nodes, i, n) = r
  BY <1>13, <1>14
<1>19. m <= Len(nodes) + 1 /\ m <= SearchNodes /\ (m = Len(nodes) + 1 \/ m = SearchNodes)
  BY <1>1, <1>12
<1> QED
  BY <1>12, <1>16, <1>17, <1>18, <1>19

\* A node that is not in the list goes into it without replacing another
\* (insert_search_node).
LEMMA InsertNodeKeeps ==
  ASSUME NEW sr \in SearchStates, NEW id \in Others
  PROVE  /\ SameSearch(sr, InsertNode(sr, id))
         /\ Unasked(sr.nodes) => Unasked(InsertNode(sr, id).nodes)
<1>1. PICK nodes : nodes = sr.nodes
  OBVIOUS
<1>2. nodes \in Seq(NodeStates) /\ \A i, j \in 1 .. Len(nodes) : nodes[i].id = nodes[j].id => i = j
  BY <1>1 DEF SearchStates, NodeLists
<1>3. PICK l \in Nat : l = Len(nodes)
  BY <1>2
<1>4. CASE PlaceOf(sr, id) # {}
  <2>1. InsertNode(sr, id) = sr
    BY <1>4 DEF InsertNode
  <2> QED
    BY <2>1 DEF SameSearch
<1>5. CASE PlaceOf(sr, id) = {}
  <2>1. \A j \in 1 .. l : nodes[j].id # id
    BY <1>1, <1>2, <1>3, <1>5 DEF PlaceOf
  <2>2. PICK further : further = {i \in DOMAIN sr.nodes : Closer(id, sr.nodes[i].id, sr.id)}
    OBVIOUS
  <2>3. further \in SUBSET (1 .. l)
    BY <1>1, <1>2, <1>3, <2>2
  <2>4. PICK i : i = IF further = {} THEN l + 1 ELSE Min(further)
    OBVIOUS
  <2>5. i \in 1 .. l + 1
    <3>1. CASE further = {}
      BY <1>3, <2>4, <3>1
    <3>2. CASE further # {}
      <4>1. Min(further) \in further
        BY <1>3, <2>3, <3>2, LeastPlace
      <4> QED
        BY <1>3, <2>3, <2>4, <3>2, <4>1
    <3> QED
      BY <3>1, <3>2
  <2>6. PICK n \in NodeStates : n = NewSearchNode(id)
    BY NewNode
  <2>7. n.id = id /\ ~n.replied /\ n.pinged = 0
    BY <2>6, NewNode
  <2>8. PICK r : r = Inserted(nodes, i, n)
    OBVIOUS
  <2>9. PICK m \in Nat :
          /\ r \in Seq(NodeStates) /\ Len(r) = m /\ m <= l + 1
          /\ \A j \in 1 .. m : r[j] = IF j < i THEN nodes[j] ELSE IF j = i THEN n ELSE nodes[j - 1]
    <3>1. i \in 1 .. Len(nodes) + 1
      BY <1>3, <2>5
    <3>2. \E m \in Nat :
            /\ Inserted(nodes, i, n) \in Seq(NodeStates) /\ Len(Inserted(nodes, i, n)) = m /\ m <= Len(nodes) + 1
            /\ \A j \in 1 .. m : Inserted(nodes, i, n)[j] =
                 IF j < i THEN nodes[j] ELSE IF j = i THEN n ELSE nodes[j - 1]
      BY <1>2, <3>1, InsertedNodes
    <3> QED
      BY <1>3, <2>8, <3>2
  <2>10. InsertNode(sr, id) = [sr EXCEPT !.nodes = r]
    BY <1>1, <1>3, <1>5, <2>2, <2>4, <2>6, <2>8 DEF InsertNode
  <2>11. \A j \in 1 .. m : /\ j < i => r[j] = nodes[j] /\ j \in 1 .. l
                           /\ j = i => r[j] = n
                           /\ j > i => r[j] = nodes[j - 1] /\ j - 1 \in 1 .. l
    BY <1>3, <2>5, <2>9
  <2>12. r \in NodeLists
    <3> SUFFICES ASSUME NEW j \in 1 .. m, NEW k \in 1 .. m, r[j].id = r[k].id, j < k PROVE FALSE
      <4>1. \A j, k \in 1 .. m : j # k => j < k \/ k < j
        OBVIOUS
      <4> QED
        BY <2>9, <4>1 DEF NodeLists
    <3>1. CASE k < i
      BY <1>2, <1>3, <2>5, <2>11, <3>1
    <3>2. CASE k = i
      BY <2>1, <2>5, <2>7, <2>11, <3>2
    <3>3. CASE k > i
      <4>1. CASE j < i
        BY <1>2, <1>3, <2>5, <2>11, <3>3, <4>1
      <4>2. CASE j = i
        BY <2>1, <2>5, <2>7, <2>11, <3>3, <4>2
      <4>3. CASE j > i
        BY <1>2, <1>3, <2>5, <2>11, <3>3, <4>3
      <4> QED
        BY <2>5, <4>1, <4>2, <4>3
    <3> QED
      BY <2>5, <3>1, <3>2, <3>3
  <2>13. Unasked(nodes) => Unasked(r)
    <3> SUFFICES ASSUME Unasked(nodes), NEW j \in 1 .. m PROVE ~r[j].replied /\ r[j].pinged = 0
      BY <2>9 DEF Unasked
    <3>1. j < i \/ j = i \/ j > i
      BY <2>5
    <3>2. \A k \in 1 .. l : ~nodes[k].replied /\ nodes[k].pinged = 0
      BY <1>3 DEF Unasked
    <3> QED
      BY <2>7, <2>11, <3>1, <3>2
  <2> QED
    BY <1>1, <2>10, <2>12, <2>13, NewList
<1> QED
  BY <1>4, <1>5

\* ... and one node after the other.
IsInsertRun(f, sr, ids, n) == f = [k \in 0 .. n |-> IF k = 0 THEN sr ELSE InsertNode(f[k - 1], ids[k])]
InsertRun(sr, ids, n) == CHOOSE f : IsInsertRun(f, sr, ids, n)

LEMMA InsertRunSteps ==
  ASSUME NEW sr, NEW ids, NEW n \in Nat
  PROVE  IsInsertRun(InsertRun(sr, ids, n), sr, ids, n)
<1> DEFINE runs == {j \in 0 .. n : \E f : IsInsertRun(f, sr, ids, j)}
<1>1. \E f : IsInsertRun(f, sr, ids, 0)
  <2>1. IsInsertRun([k \in 0 .. 0 |-> sr], sr, ids, 0)
    BY DEF IsInsertRun
  <2> QED
    BY <2>1
<1>2. ASSUME NEW j \in runs, j < n PROVE j + 1 \in runs
  <2>1. PICK f : IsInsertRun(f, sr, ids, j)
    OBVIOUS
  <2> DEFINE g == [k \in 0 .. j + 1 |-> IF k = j + 1 THEN InsertNode(f[j], ids[j + 1]) ELSE f[k]]
  <2>2. ASSUME NEW k \in 0 .. j + 1
        PROVE  g[k] = IF k = 0 THEN sr ELSE InsertNode(g[k - 1], ids[k])
    BY <2>1 DEF IsInsertRun
  <2>3. IsInsertRun(g, sr, ids, j + 1)
    BY <2>2 DEF IsInsertRun
  <2>4. j + 1 \in 0 .. n /\ \E h : IsInsertRun(h, sr, ids, j + 1)
    BY <1>2, <2>3
  <2> QED
    BY <2>4
<1>3. \E f : IsInsertRun(f, sr, ids, n)
  <2>1. 0 \in runs /\ n \in 0 .. n
    BY <1>1
  <2>2. runs \in SUBSET (0 .. n) /\ \A j \in runs : j < n => j + 1 \in runs
    BY <1>2
  <2> HIDE DEF runs
  <2>3. runs = 0 .. n
    BY <2>1, <2>2, StepInduction
  <2>4. n \in runs
    BY <2>1, <2>3
  <2> QED
    BY <2>4 DEF runs
<1> QED
  BY <1>3 DEF InsertRun

LEMMA InsertNodesIsRun ==
  ASSUME NEW sr, NEW ids
  PROVE  InsertNodes(sr, ids) = InsertRun(sr, ids, Len(ids))[Len(ids)]
BY DEF InsertNodes, InsertRun, IsInsertRun

LEMMA InsertNodesKeeps ==
  ASSUME NEW sr \in SearchStates, NEW ids \in Seq(Others)
  PROVE  /\ SameSearch(sr, InsertNodes(sr, ids))
         /\ Unasked(sr.nodes) => Unasked(InsertNodes(sr, ids).nodes)
<1>1. PICK n \in Nat : n = Len(ids)
  OBVIOUS
<1>2. \A k \in 0 .. n : k < n => ids[k + 1] \in Others
  BY <1>1
<1>3. PICK run : run = InsertRun(sr, ids, n)
  OBVIOUS
<1>4. run[0] = sr /\ \A k \in 0 .. n : k < n => run[k + 1] = InsertNode(run[k], ids[k + 1])
  <2>1. IsInsertRun(run, sr, ids, n)
    BY <1>3, InsertRunSteps
  <2>2. \A k \in 0 .. n : k < n => k + 1 \in 0 .. n /\ k + 1 # 0 /\ (k + 1) - 1 = k
    OBVIOUS
  <2> QED
    BY <2>1, <2>2 DEF IsInsertRun
<1> DEFINE good == {k \in 0 .. n : /\ SameSearch(sr, run[k])
                                   /\ Unasked(sr.nodes) => Unasked(run[k].nodes)}
<1>5. 0 \in good
  BY <1>4 DEF SameSearch
<1>6. ASSUME NEW k \in good, k < n PROVE k + 1 \in good
  <2>1. PICK s \in SearchStates : s = run[k] /\ s.id = sr.id /\ s.done = sr.done
    BY DEF SameSearch
  <2>2. PICK id \in Others : id = ids[k + 1]
    BY <1>2, <1>6
  <2>3. run[k + 1] = InsertNode(s, id)
    BY <1>4, <1>6, <2>1, <2>2
  <2>4. SameSearch(s, InsertNode(s, id)) /\ (Unasked(s.nodes) => Unasked(InsertNode(s, id).nodes))
    BY InsertNodeKeeps
  <2>5. SameSearch(sr, run[k + 1])
    BY <2>1, <2>3, <2>4 DEF SameSearch
  <2>6. Unasked(sr.nodes) => Unasked(run[k + 1].nodes)
    BY <2>1, <2>3, <2>4
  <2>7. k + 1 \in 0 .. n
    BY <1>6
  <2> QED
    BY <2>5, <2>6, <2>7
<1>7. n \in good
  <2>1. good \in SUBSET (0 .. n) /\ \A k \in good : k < n => k + 1 \in good
    BY <1>6
  <2> HIDE DEF good
  <2>2. good = 0 .. n
    BY <1>5, <2>1, StepInduction
  <2> QED
    BY <2>2
<1> QED
  BY <1>1, <1>3, <1>7, InsertNodesIsRun

-----------------------------------------------------------------------------
(* What else changes one search.                                           *)

\* One node of a list changes, and keeps its id.
LEMMA ChangedNode ==
  ASSUME NEW nodes \in NodeLists, NEW i \in DOMAIN nodes, NEW n \in NodeStates, n.id = nodes[i].id
  PROVE  [nodes EXCEPT ![i] = n] \in NodeLists
<1>1. PICK l \in Nat : l = Len(nodes) /\ nodes \in Seq(NodeStates) /\ DOMAIN nodes = 1 .. l
  BY DEF NodeLists
<1>2. PICK r : r = [nodes EXCEPT ![i] = n]
  OBVIOUS
<1>3. r \in Seq(NodeStates) /\ Len(r) = l
  BY <1>1, <1>2
<1>4. \A j \in 1 .. l : r[j].id = nodes[j].id
  BY <1>1, <1>2
<1> QED
  BY <1>1, <1>2, <1>3, <1>4 DEF NodeLists

\* All nodes of a list change, and keep their ids.
LEMMA ChangedNodes ==
  ASSUME NEW nodes \in NodeLists, NEW r, DOMAIN r = DOMAIN nodes, r = [i \in DOMAIN r |-> r[i]],
         \A i \in DOMAIN nodes : r[i] \in NodeStates /\ r[i].id = nodes[i].id
  PROVE  r \in NodeLists /\ Len(r) = Len(nodes)
<1>1. PICK l \in Nat : l = Len(nodes) /\ nodes \in Seq(NodeStates) /\ DOMAIN nodes = 1 .. l
  BY DEF NodeLists
<1>2. r \in [1 .. l -> NodeStates]
  BY <1>1
<1>3. r \in Seq(NodeStates) /\ Len(r) = l
  BY <1>2
<1> QED
  BY <1>1, <1>3 DEF NodeLists

\* Some nodes are cut from a list.
LEMMA CutNodes ==
  ASSUME NEW nodes \in NodeLists, NEW places
  PROVE  /\ Without(nodes, places) \in NodeLists
         /\ \A i \in 1 .. Len(Without(nodes, places)) :
              \E j \in 1 .. Len(nodes) : j \notin places /\ Without(nodes, places)[i] = nodes[j]
<1>1. nodes \in Seq(NodeStates)
  BY DEF NodeLists
<1>2. PICK l \in Nat : l = Len(nodes)
  BY <1>1
<1>3. PICK q : q = Without(nodes, places)
  OBVIOUS
<1>4. PICK m \in Nat : KeptOf(q, m, nodes, places, l, NodeStates)
  BY <1>1, <1>2, <1>3, WithoutKeeps DEF KeptInv
<1>5. q \in Seq(NodeStates) /\ m = Len(q)
  BY <1>4 DEF KeptOf
<1>6. \A i \in 1 .. m : \E j \in 1 .. l : j \notin places /\ q[i] = nodes[j]
  BY <1>4 DEF KeptOf
<1>7. ASSUME NEW i1 \in 1 .. m, NEW i2 \in 1 .. m, q[i1].id = q[i2].id PROVE i1 = i2
  <2> SUFFICES ASSUME i1 # i2 PROVE FALSE
    OBVIOUS
  <2>1. PICK j1 \in 1 .. l, j2 \in 1 .. l : j1 # j2 /\ q[i1] = nodes[j1] /\ q[i2] = nodes[j2]
    <3>1. \A j1, j2 \in 1 .. l : j1 < j2 => j1 # j2 /\ j2 # j1
      OBVIOUS
    <3>2. CASE i1 < i2
      <4>1. PICK j1 \in 1 .. l, j2 \in 1 .. l : j1 < j2 /\ q[i1] = nodes[j1] /\ q[i2] = nodes[j2]
        BY <1>4, <3>2 DEF KeptOf
      <4> QED
        BY <3>1, <4>1
    <3>3. CASE i2 < i1
      <4>1. PICK j2 \in 1 .. l, j1 \in 1 .. l : j2 < j1 /\ q[i2] = nodes[j2] /\ q[i1] = nodes[j1]
        BY <1>4, <3>3 DEF KeptOf
      <4> QED
        BY <3>1, <4>1
    <3> QED
      BY <3>2, <3>3
  <2> QED
    BY <1>2, <1>7, <2>1 DEF NodeLists
<1>8. q \in NodeLists
  BY <1>5, <1>7 DEF NodeLists
<1> QED
  BY <1>2, <1>3, <1>5, <1>6, <1>8

\* What happens to a node leaves it in its place.
LEMMA NodeChanges ==
  ASSUME NEW n \in NodeStates
  PROVE  /\ PingedNode(n) \in NodeStates /\ PingedNode(n).id = n.id
         /\ AckNode(n) \in NodeStates /\ AckNode(n).id = n.id
         /\ AskAgain(n) \in NodeStates /\ AskAgain(n).id = n.id
         /\ RepliedNode(n) \in NodeStates /\ RepliedNode(n).id = n.id
         /\ [n EXCEPT !.acked = TRUE] \in NodeStates
<1>1. PingedNode(n) \in NodeStates /\ PingedNode(n).id = n.id
  <2>1. PICK p \in Nat : p = n.pinged + 1
    BY DEF NodeStates
  <2>2. PICK new : new = [n EXCEPT !.pinged = p, !.request_age = 0]
    OBVIOUS
  <2>3. new \in NodeStates /\ new.id = n.id
    BY <2>2 DEF NodeStates
  <2>4. PingedNode(n) = new
    BY <2>1, <2>2 DEF PingedNode
  <2> QED
    BY <2>3, <2>4
<1>2. AckNode(n) \in NodeStates /\ AckNode(n).id = n.id
  <2>1. PICK p \in Nat : p = Retransmit + 1
    BY Limits
  <2>2. PICK new : new = [n EXCEPT !.acked = TRUE, !.pinged = 0, !.request_age = p, !.reply_age = 0]
    OBVIOUS
  <2>3. new \in NodeStates /\ new.id = n.id
    BY <2>2 DEF NodeStates
  <2>4. AckNode(n) = new
    BY <2>1, <2>2 DEF AckNode
  <2> QED
    BY <2>3, <2>4
<1>3. AskAgain(n) \in NodeStates /\ AskAgain(n).id = n.id
  BY DEF AskAgain, NodeStates
<1>4. [n EXCEPT !.acked = TRUE] \in NodeStates
  BY DEF NodeStates
<1>5. RepliedNode(n) \in NodeStates /\ RepliedNode(n).id = n.id
  <2>1. PICK b \in BOOLEAN : b = (n.token \/ n.id \notin Tokenless)
    OBVIOUS
  <2>2. PICK p \in Nat : p = Retransmit + 1
    BY Limits
  <2>3. PICK new : new = [n EXCEPT !.replied = TRUE, !.token = b, !.pinged = 0,
                                   !.request_age = p, !.reply_age = 0]
    OBVIOUS
  <2>4. new \in NodeStates /\ new.id = n.id
    BY <2>3 DEF NodeStates
  <2>5. RepliedNode(n) = new
    BY <2>1, <2>2, <2>3 DEF RepliedNode
  <2> QED
    BY <2>4, <2>5
<1> QED
  BY <1>1, <1>2, <1>3, <1>4, <1>5

LEMMA OlderAge ==
  ASSUME NEW age \in Nat, NEW limit \in Nat
  PROVE  Older(age, limit) \in Nat
<1>1. PICK x \in Nat : x = age + 1
  OBVIOUS
<1>2. PICK y \in Nat : y = limit + 1
  OBVIOUS
<1>3. Min({x, y}) \in {x, y}
  <2>1. \E z \in {x, y} : \A w \in {x, y} : z <= w
    OBVIOUS
  <2> QED
    BY <2>1 DEF Min
<1> QED
  BY <1>1, <1>2, <1>3 DEF Older

LEMMA OlderNodeKeeps ==
  ASSUME NEW n \in NodeStates
  PROVE  OlderNode(n) \in NodeStates /\ OlderNode(n).id = n.id
<1>1. Older(n.request_age, Retransmit) \in Nat /\ Older(n.reply_age, ReplyTime) \in Nat
  BY Limits, OlderAge DEF NodeStates
<1> QED
  BY <1>1 DEF OlderNode, NodeStates

LEMMA FlushKeeps ==
  ASSUME NEW sr \in SearchStates, NEW ids
  PROVE  SameSearch(sr, FlushNodes(sr, ids))
<1>1. PICK nodes \in NodeLists : nodes = sr.nodes
  BY DEF SearchStates
<1>2. PICK places : places = {i \in DOMAIN sr.nodes : sr.nodes[i].id \in ids}
  OBVIOUS
<1>3. Without(nodes, places) \in NodeLists
  BY CutNodes
<1>4. FlushNodes(sr, ids) = [sr EXCEPT !.nodes = Without(nodes, places)]
  BY <1>1, <1>2 DEF FlushNodes
<1> QED
  BY <1>3, <1>4, NewList

\* Where a node is in a list.
LEMMA Places ==
  ASSUME NEW sr \in SearchStates, NEW id, PlaceOf(sr, id) # {}
  PROVE  /\ Min(PlaceOf(sr, id)) \in DOMAIN sr.nodes
         /\ sr.nodes[Min(PlaceOf(sr, id))].id = id
<1>1. PICK l \in Nat : DOMAIN sr.nodes = 1 .. l
  BY DEF SearchStates, NodeLists
<1>2. PlaceOf(sr, id) \in SUBSET (1 .. l)
  BY <1>1 DEF PlaceOf
<1>3. Min(PlaceOf(sr, id)) \in PlaceOf(sr, id)
  BY <1>2, LeastPlace
<1> QED
  BY <1>3 DEF PlaceOf

LEMMA InsertRepliedKeeps ==
  ASSUME NEW sr \in SearchStates, NEW id \in Others
  PROVE  SameSearch(sr, InsertReplied(sr, id))
<1>1. PICK longer \in SearchStates : longer = InsertNode(sr, id) /\ longer.id = sr.id /\ longer.done = sr.done
  BY InsertNodeKeeps DEF SameSearch
<1>2. PICK at : at = PlaceOf(longer, id)
  OBVIOUS
<1>3. CASE at = {}
  BY <1>1, <1>2, <1>3 DEF InsertReplied, SameSearch
<1>4. CASE at # {}
  <2>1. PICK nodes \in NodeLists : nodes = longer.nodes
    BY DEF SearchStates
  <2>2. PICK i \in DOMAIN nodes : i = Min(at) /\ nodes[i].id = id
    BY <1>2, <1>4, <2>1, Places
  <2>3. nodes[i] \in NodeStates
    BY DEF NodeLists
  <2>4. PICK n \in NodeStates : n = RepliedNode(nodes[i]) /\ n.id = nodes[i].id
    BY <2>3, NodeChanges
  <2>6. [nodes EXCEPT ![i] = n] \in NodeLists
    BY <2>4, ChangedNode
  <2>7. InsertReplied(sr, id) = [longer EXCEPT !.nodes = [nodes EXCEPT ![i] = n]]
    BY <1>1, <1>2, <1>4, <2>1, <2>2, <2>4 DEF InsertReplied
  <2>8. SameSearch(longer, InsertReplied(sr, id))
    BY <2>6, <2>7, NewList
  <2> QED
    BY <1>1, <2>8 DEF SameSearch
<1> QED
  BY <1>3, <1>4

-----------------------------------------------------------------------------
(* The requests of a search, and its steps.                                *)

StepStates == [sr : SearchStates, sent : SUBSET Requests, done : BOOLEAN]
SameStep(s, new) == new \in StepStates /\ SameSearch(s.sr, new.sr) /\ new.done = s.done

LEMMA RequestType ==
  ASSUME NEW sr \in SearchStates, NEW i \in DOMAIN sr.nodes
  PROVE  Request("get_peers", sr, i) \in Requests /\ Request("announce_peer", sr, i) \in Requests
<1>1. sr.nodes[i] \in NodeStates
  BY DEF SearchStates, NodeLists
<1>2. sr.nodes[i].id \in Others /\ sr.tid \in Nat
  BY <1>1 DEF SearchStates, NodeStates
<1> QED
  BY <1>2 DEF Request, Requests

LEMMA AskKeeps ==
  ASSUME NEW s \in StepStates, NEW i
  PROVE  SameStep(s, Ask(s, i))
<1>1. PICK sr \in SearchStates, q \in SUBSET Requests, d \in BOOLEAN : s = [sr |-> sr, sent |-> q, done |-> d]
  BY DEF StepStates
<1>2. CASE ~(i \in DOMAIN s.sr.nodes /\ Askable(s.sr.nodes[i]))
  BY <1>1, <1>2 DEF Ask, SameStep, SameSearch
<1>3. CASE i \in DOMAIN s.sr.nodes /\ Askable(s.sr.nodes[i])
  <2>1. PICK nodes \in NodeLists : nodes = sr.nodes
    BY DEF SearchStates
  <2>2. i \in DOMAIN nodes /\ nodes[i] \in NodeStates
    BY <1>1, <1>3, <2>1 DEF NodeLists
  <2>3. PICK n \in NodeStates : n = PingedNode(nodes[i]) /\ n.id = nodes[i].id
    BY <2>2, NodeChanges
  <2>4. PICK r \in NodeLists : r = [nodes EXCEPT ![i] = n]
    BY <2>2, <2>3, ChangedNode
  <2>5. PICK q2 \in SUBSET Requests : q2 = q \cup {Request("get_peers", sr, i)}
    BY <2>1, <2>2, RequestType
  <2>6. Ask(s, i) = [sr |-> [sr EXCEPT !.nodes = r], sent |-> q2, done |-> d]
    BY <1>1, <1>3, <2>1, <2>2, <2>3, <2>4, <2>5 DEF Ask
  <2>7. SameSearch(sr, [sr EXCEPT !.nodes = r])
    BY NewList
  <2>8. PICK new : new = [sr EXCEPT !.nodes = r]
    OBVIOUS
  <2>9. PICK out : out = [sr |-> new, sent |-> q2, done |-> d]
    OBVIOUS
  <2>10. out \in StepStates
    BY <2>7, <2>8, <2>9 DEF SameSearch, StepStates
  <2> QED
    BY <1>1, <2>6, <2>7, <2>8, <2>9, <2>10 DEF SameStep
<1> QED
  BY <1>2, <1>3

LEMMA AskAnyKeeps ==
  ASSUME NEW s \in StepStates
  PROVE  SameStep(s, AskAny(s))
BY AskKeeps DEF AskAny, SameStep, SameSearch, StepStates

LEMMA JoinKeeps ==
  ASSUME NEW s \in StepStates, NEW id \in Others
  PROVE  SameStep(s, Join(s, id))
<1>1. PICK sr \in SearchStates, q \in SUBSET Requests, d \in BOOLEAN : s = [sr |-> sr, sent |-> q, done |-> d]
  BY DEF StepStates
<1>2. PICK new : new = InsertNode(sr, id) /\ SameSearch(sr, new)
  BY InsertNodeKeeps
<1>3. PICK longer : longer = [s EXCEPT !.sr = InsertNode(@, id)]
  OBVIOUS
<1>4. longer = [sr |-> new, sent |-> q, done |-> d]
  BY <1>1, <1>2, <1>3
<1>5. longer \in StepStates /\ SameStep(s, longer)
  BY <1>1, <1>2, <1>4 DEF SameSearch, SameStep, StepStates
<1>6. \A i : SameStep(longer, Ask(longer, i))
  BY <1>5, AskKeeps
<1>7. Join(s, id) = longer \/ \E i : Join(s, id) = Ask(longer, i)
  BY <1>3 DEF Join
<1> QED
  BY <1>5, <1>6, <1>7 DEF SameStep, SameSearch

\* Before a node that is not given up and is not among the first that have to
\* reply, there are Closest of these.
LEMMA FirstBefore ==
  ASSUME NEW sr \in SearchStates, NEW i \in DOMAIN sr.nodes,
         sr.nodes[i].pinged < MaxPings, i \notin LiveFirst(sr)
  PROVE  \E first \in SUBSET {j \in LiveFirst(sr) : j < i} :
           IsFiniteSet(first) /\ Cardinality(first) >= Closest
<1>1. PICK l \in Nat : DOMAIN sr.nodes = 1 .. l
  BY DEF SearchStates, NodeLists
<1>2. PICK live : live = {j \in DOMAIN sr.nodes : sr.nodes[j].pinged < MaxPings}
  OBVIOUS
<1>3. live \in SUBSET (1 .. l) /\ i \in live
  BY <1>1, <1>2
<1>4. PICK rank : rank = [j \in live |-> Cardinality({k \in live : k < j})]
  OBVIOUS
<1>5. \A j \in live : {k \in live : k < j} \in SUBSET (1 .. l) /\ rank[j] = Cardinality({k \in live : k < j})
  BY <1>3, <1>4
<1>6. IsFiniteSet(1 .. l)
  BY <1>1, FS_Interval
<1>7. \A j \in live : IsFiniteSet({k \in live : k < j}) /\ rank[j] \in Nat
  <2> SUFFICES ASSUME NEW j \in live
               PROVE  IsFiniteSet({k \in live : k < j}) /\ rank[j] \in Nat
    OBVIOUS
  <2>1. PICK S \in SUBSET (1 .. l) : S = {k \in live : k < j}
    BY <1>5
  <2>2. IsFiniteSet(S) /\ Cardinality(S) \in Nat
    BY <1>6, FS_Subset, FS_CardinalityType
  <2> QED
    BY <1>5, <2>1, <2>2
<1>8. \A j \in live : j \in LiveFirst(sr) <=> rank[j] < Closest
  BY <1>2, <1>4 DEF LiveFirst
<1>9. PICK far : far = {j \in live : rank[j] >= Closest}
  OBVIOUS
<1>10. i \in far
  <2>1. rank[i] \in Nat /\ ~(rank[i] < Closest) /\ Closest \in Nat
    BY <1>3, <1>7, <1>8, Limits
  <2>2. rank[i] >= Closest
    BY <2>1
  <2> QED
    BY <1>3, <1>9, <2>2
<1>11. far \in SUBSET (1 .. l)
  BY <1>3, <1>9
<1>12. PICK m : m = Min(far)
  OBVIOUS
<1>13. m \in far /\ \A y \in far : m <= y
  BY <1>1, <1>10, <1>11, <1>12, LeastPlace
<1>14. PICK first : first = {k \in live : k < m}
  OBVIOUS
<1>15. IsFiniteSet(first) /\ Cardinality(first) >= Closest
  BY <1>5, <1>7, <1>9, <1>13, <1>14
<1>16. ASSUME NEW k \in first PROVE k \in LiveFirst(sr) /\ k < i
  <2>1. k \in live /\ k < m /\ m <= i
    BY <1>10, <1>13, <1>14
  <2>2. k \in Nat /\ m \in Nat /\ i \in Nat
    <3>1. k \in 1 .. l /\ m \in 1 .. l /\ i \in 1 .. l
      BY <1>3, <1>11, <1>13, <2>1
    <3> QED
      BY <3>1
  <2>3. k \notin far
    BY <1>13, <2>1, <2>2
  <2>4. rank[k] < Closest
    <3>1. rank[k] \in Nat /\ ~(rank[k] >= Closest) /\ Closest \in Nat
      BY <1>7, <1>9, <2>1, <2>3, Limits
    <3> QED
      BY <3>1
  <2> QED
    BY <1>8, <2>1, <2>2, <2>4
<1> QED
  BY <1>15, <1>16

\* When the first that have to reply have, and those with a token have
\* acknowledged the announcement, the search is complete.
LEMMA AllRepliedCompletes ==
  ASSUME NEW sr \in SearchStates, AllReplied(sr), NEW new \in SearchStates, NEW ids,
         DOMAIN new.nodes = DOMAIN sr.nodes,
         \A i \in DOMAIN sr.nodes : /\ new.nodes[i].replied = sr.nodes[i].replied
                                    /\ new.nodes[i].pinged = sr.nodes[i].pinged,
         \A i \in LiveFirst(sr) : new.port # 0 => new.nodes[i].acked
  PROVE  Complete(new, ids)
<1> SUFFICES ASSUME NEW id \in Members(new), NEW i, i = Min(PlaceOf(new, id)),
                    ~(new.nodes[i].pinged >= MaxPings)
             PROVE  \/ new.nodes[i].replied /\ (new.port # 0 /\ new.nodes[i].token => new.nodes[i].acked)
                    \/ Cardinality({j \in 1 .. i - 1 : new.nodes[j].replied /\ new.nodes[j].pinged < MaxPings}) >= Closest
  BY DEF Complete
<1>1. PICK l \in Nat : DOMAIN sr.nodes = 1 .. l
  BY DEF SearchStates, NodeLists
<1>2. i \in 1 .. l
  <2>1. PlaceOf(new, id) # {}
    BY DEF Members, PlaceOf
  <2> QED
    BY <1>1, <2>1, Places
<1>3. \A j \in 1 .. l : sr.nodes[j] \in NodeStates /\ sr.nodes[j].pinged \in Nat
  <2>1. \A j \in 1 .. l : sr.nodes[j] \in NodeStates
    BY <1>1 DEF SearchStates, NodeLists
  <2> QED
    BY <2>1 DEF NodeStates
<1>4. sr.nodes[i].pinged < MaxPings
  BY <1>1, <1>2, <1>3, Limits
<1>5. \A j \in LiveFirst(sr) : j \in 1 .. l /\ sr.nodes[j].replied /\ sr.nodes[j].pinged < MaxPings
  BY <1>1 DEF AllReplied, LiveFirst
<1>6. CASE i \in LiveFirst(sr)
  BY <1>1, <1>2, <1>5, <1>6
<1>7. CASE i \notin LiveFirst(sr)
  <2>1. PICK first \in SUBSET {j \in LiveFirst(sr) : j < i} :
          IsFiniteSet(first) /\ Cardinality(first) >= Closest
    BY <1>1, <1>2, <1>4, <1>7, FirstBefore
  <2>2. PICK replied : replied = {j \in 1 .. i - 1 : new.nodes[j].replied /\ new.nodes[j].pinged < MaxPings}
    OBVIOUS
  <2>3. first \in SUBSET replied
    <3> SUFFICES ASSUME NEW j \in first PROVE j \in replied
      OBVIOUS
    <3>1. j \in LiveFirst(sr) /\ j < i
      BY <2>1
    <3>2. j \in 1 .. l /\ j \in 1 .. i - 1
      BY <1>2, <1>5, <3>1
    <3>3. new.nodes[j].replied /\ new.nodes[j].pinged < MaxPings
      BY <1>1, <1>5, <3>1, <3>2
    <3> QED
      BY <2>2, <3>2, <3>3
  <2>4. IsFiniteSet(replied)
    <3>1. IsFiniteSet(1 .. l) /\ replied \in SUBSET (1 .. l)
      BY <1>2, <2>2, FS_Interval
    <3> QED
      BY <3>1, FS_Subset
  <2>5. Cardinality(first) <= Cardinality(replied) /\ Cardinality(first) \in Nat /\ Cardinality(replied) \in Nat
    BY <2>1, <2>3, <2>4, FS_Subset, FS_CardinalityType
  <2>6. Cardinality(replied) >= Closest
    BY <2>1, <2>5, Limits
  <2> QED
    BY <2>2, <2>6
<1> QED
  BY <1>6, <1>7

\* The first node of a list that has been asked nothing has yet to reply.
LEMMA UnaskedNotReplied ==
  ASSUME NEW sr \in SearchStates, Unasked(sr.nodes), AllReplied(sr)
  PROVE  sr.nodes = <<>>
<1>1. sr.nodes \in Seq(NodeStates)
  BY DEF SearchStates, NodeLists
<1> SUFFICES ASSUME Len(sr.nodes) > 0 PROVE FALSE
  BY <1>1
<1>2. PICK l \in Nat : l = Len(sr.nodes) /\ DOMAIN sr.nodes = 1 .. l /\ 1 \in 1 .. l
  BY <1>1
<1>3. PICK live : live = {i \in DOMAIN sr.nodes : sr.nodes[i].pinged < MaxPings}
  OBVIOUS
<1>4. 1 \in live /\ ~sr.nodes[1].replied
  BY <1>2, <1>3, Limits DEF Unasked
<1>5. {j \in live : j < 1} = {}
  BY <1>2, <1>3
<1>6. Cardinality({j \in live : j < 1}) < Closest
  <2>1. Cardinality({j \in live : j < 1}) = 0
    BY <1>5, FS_EmptySet, Zenon
  <2>2. 0 < Closest
    BY Limits
  <2> QED
    BY <2>1, <2>2
<1>7. 1 \in LiveFirst(sr)
  BY <1>3, <1>4, <1>6 DEF LiveFirst
<1> QED
  BY <1>4, <1>7 DEF AllReplied

\* What a step does to a search that is not done: when it is done after it, it
\* is complete, and when it had asked no node, it had none.
StepOutcome(s, r) ==
  /\ r \in StepStates /\ r.sr.id = s.sr.id /\ r.done = r.sr.done
  /\ r.done => \A ids : Complete(r.sr, ids)
  /\ r.done /\ Unasked(s.sr.nodes) => r.sr.nodes = <<>>

LEMMA AskFirstOutcome ==
  ASSUME NEW s \in StepStates, ~s.done, ~s.sr.done
  PROVE  StepOutcome(s, AskFirst(s))
<1>1. PICK sr \in SearchStates, q \in SUBSET Requests, d \in BOOLEAN : s = [sr |-> sr, sent |-> q, done |-> d]
  BY DEF StepStates
<1>2. CASE s.sr.step_age <= Retransmit
  <2>1. AskFirst(s) = s
    BY <1>2 DEF AskFirst
  <2>2. s.done = s.sr.done
    BY <1>1 DEF SearchStates
  <2> QED
    BY <2>1, <2>2 DEF StepOutcome
<1>3. CASE ~(s.sr.step_age <= Retransmit)
  <2>1. PICK nodes \in NodeLists : nodes = sr.nodes
    BY DEF SearchStates
  <2> DEFINE askable == {i \in DOMAIN s.sr.nodes : Askable(s.sr.nodes[i])}
  <2>2. PICK chosen \in SUBSET DOMAIN nodes :
          chosen = {i \in askable : Cardinality({j \in askable : j < i}) < Inflight}
    BY <1>1, <2>1
  <2>3. PICK r : r = [i \in DOMAIN nodes |-> IF i \in chosen THEN PingedNode(nodes[i]) ELSE nodes[i]]
    OBVIOUS
  <2>4. r \in NodeLists
    <3>1. \A i \in DOMAIN nodes : nodes[i] \in NodeStates
      BY DEF NodeLists
    <3>2. \A i \in DOMAIN nodes : r[i] \in NodeStates /\ r[i].id = nodes[i].id
      BY <2>3, <3>1, NodeChanges
    <3>3. DOMAIN r = DOMAIN nodes /\ r = [i \in DOMAIN r |-> r[i]]
      BY <2>3
    <3> QED
      BY <3>2, <3>3, ChangedNodes
  <2>5. PICK more : more = {Request("get_peers", sr, i) : i \in chosen}
    OBVIOUS
  <2>6. more \in SUBSET Requests
    BY <2>1, <2>2, <2>5, RequestType
  <2>7. PICK new : new = [sr EXCEPT !.nodes = r, !.step_age = 0]
    OBVIOUS
  <2>8. new \in SearchStates /\ new.id = sr.id /\ new.done = sr.done
    BY <2>4, <2>7 DEF SearchStates
  <2>9. AskFirst(s) = [sr |-> new, sent |-> q \cup more, done |-> d]
    BY <1>1, <1>3, <2>1, <2>2, <2>3, <2>5, <2>7 DEF AskFirst
  <2>10. PICK out : out = [sr |-> new, sent |-> q \cup more, done |-> d]
    OBVIOUS
  <2>11. out \in StepStates /\ out.sr.id = s.sr.id /\ out.done = s.done /\ out.sr.done = s.sr.done
    BY <1>1, <2>6, <2>8, <2>10 DEF StepStates
  <2>12. ~out.done /\ ~out.sr.done
    BY <2>11
  <2>13. out.done \in BOOLEAN /\ out.sr.done \in BOOLEAN
    BY <2>11 DEF StepStates, SearchStates
  <2> QED
    BY <2>9, <2>10, <2>11, <2>12, <2>13 DEF StepOutcome
<1> QED
  BY <1>2, <1>3

LEMMA AnnounceOutcome ==
  ASSUME NEW s \in StepStates, AllReplied(s.sr)
  PROVE  StepOutcome(s, Announce(s))
<1>1. PICK sr \in SearchStates, q \in SUBSET Requests, d \in BOOLEAN : s = [sr |-> sr, sent |-> q, done |-> d]
  BY DEF StepStates
<1>2. PICK nodes \in NodeLists : nodes = sr.nodes
  BY DEF SearchStates
<1>3. PICK first : first = LiveFirst(sr)
  OBVIOUS
<1>4. first \in SUBSET DOMAIN nodes
  BY <1>2, <1>3 DEF LiveFirst
<1>5. PICK missing : missing = {i \in first : ~Acked(nodes[i])}
  OBVIOUS
<1>6. missing \in SUBSET DOMAIN nodes
  BY <1>4, <1>5
<1>7. PICK r : r = [i \in DOMAIN nodes |->
                      IF i \in missing THEN PingedNode(nodes[i])
                      ELSE IF i \in first THEN [nodes[i] EXCEPT !.acked = TRUE] ELSE nodes[i]]
  OBVIOUS
<1>8. \A i \in DOMAIN nodes : nodes[i] \in NodeStates
  BY DEF NodeLists
<1>9. r \in NodeLists /\ Len(r) = Len(nodes)
  <2>1. \A i \in DOMAIN nodes : r[i] \in NodeStates /\ r[i].id = nodes[i].id
    <3> SUFFICES ASSUME NEW i \in DOMAIN nodes PROVE r[i] \in NodeStates /\ r[i].id = nodes[i].id
      OBVIOUS
    <3>1. PICK n \in NodeStates : n = nodes[i]
      BY <1>8
    <3>2. [n EXCEPT !.acked = TRUE] \in NodeStates /\ [n EXCEPT !.acked = TRUE].id = n.id
      BY DEF NodeStates
    <3>3. r[i] \in {PingedNode(n), [n EXCEPT !.acked = TRUE], n}
      BY <1>7, <3>1
    <3> QED
      BY <3>1, <3>2, <3>3, NodeChanges
  <2>2. DOMAIN r = DOMAIN nodes /\ r = [i \in DOMAIN r |-> r[i]]
    BY <1>7
  <2> QED
    BY <2>1, <2>2, ChangedNodes
<1>10. PICK done \in BOOLEAN : done = (missing = {})
  OBVIOUS
<1>11. PICK new : new = [sr EXCEPT !.nodes = r, !.done = done, !.step_age = 0]
  OBVIOUS
<1>12. new \in SearchStates /\ new.id = sr.id /\ new.done = done /\ new.nodes = r
  BY <1>9, <1>11 DEF SearchStates
<1>13. PICK more \in SUBSET Requests : more = {Request("announce_peer", sr, i) : i \in missing}
  BY <1>2, <1>6, RequestType
<1>14. Announce(s) = [sr |-> new, sent |-> q \cup more, done |-> done]
  BY <1>1, <1>2, <1>3, <1>5, <1>7, <1>10, <1>11, <1>13 DEF Announce
<1>15. PICK out : out = [sr |-> new, sent |-> q \cup more, done |-> done]
  OBVIOUS
<1>16. out \in StepStates /\ out.sr.id = s.sr.id /\ out.done = out.sr.done
  BY <1>1, <1>12, <1>13, <1>15 DEF StepStates
<1>17. ASSUME done, NEW ids PROVE Complete(new, ids)
  <2>1. missing = {}
    BY <1>10, <1>17
  <2>2. \A i \in DOMAIN nodes : r[i] = IF i \in first THEN [nodes[i] EXCEPT !.acked = TRUE] ELSE nodes[i]
    BY <1>7, <2>1
  <2>3. ASSUME NEW i \in DOMAIN nodes
        PROVE  /\ r[i].replied = nodes[i].replied /\ r[i].pinged = nodes[i].pinged
               /\ i \in first => r[i].acked
    <3>1. PICK n \in NodeStates : n = nodes[i]
      BY <1>8
    <3>2. PICK m : m = [n EXCEPT !.acked = TRUE]
      OBVIOUS
    <3>3. m.replied = n.replied /\ m.pinged = n.pinged /\ m.acked
      BY <3>2 DEF NodeStates
    <3> QED
      BY <2>2, <3>1, <3>2, <3>3
  <2>4. DOMAIN new.nodes = DOMAIN sr.nodes
    BY <1>2, <1>7, <1>12
  <2>5. \A i \in DOMAIN sr.nodes : /\ new.nodes[i].replied = sr.nodes[i].replied
                                   /\ new.nodes[i].pinged = sr.nodes[i].pinged
    BY <1>2, <1>12, <2>3
  <2>6. \A i \in LiveFirst(sr) : new.port # 0 => new.nodes[i].acked
    BY <1>3, <1>4, <1>12, <2>3
  <2>7. AllReplied(sr)
    BY <1>1
  <2> QED
    BY <1>12, <2>4, <2>5, <2>6, <2>7, AllRepliedCompletes
<1>18. ASSUME Unasked(sr.nodes) PROVE new.nodes = <<>>
  <2>1. sr.nodes = <<>>
    BY <1>1, <1>18, UnaskedNotReplied
  <2>2. Len(r) = 0 /\ r \in Seq(NodeStates)
    BY <1>2, <1>9, <2>1 DEF NodeLists
  <2> QED
    BY <1>12, <2>2
<1>19. out.sr = new /\ out.done = done /\ s.sr = sr
  BY <1>1, <1>15
<1> QED
  BY <1>14, <1>15, <1>16, <1>17, <1>18, <1>19 DEF StepOutcome

LEMMA StepEffect ==
  ASSUME NEW s \in StepStates, ~s.done, ~s.sr.done
  PROVE  StepOutcome(s, Step(s))
<1>1. CASE ~AllReplied(s.sr)
  BY <1>1, AskFirstOutcome DEF Step
<1>2. CASE AllReplied(s.sr) /\ s.sr.port # 0
  BY <1>2, AnnounceOutcome DEF Step
<1>3. CASE AllReplied(s.sr) /\ s.sr.port = 0
  <2>1. PICK sr \in SearchStates, q \in SUBSET Requests, d \in BOOLEAN : s = [sr |-> sr, sent |-> q, done |-> d]
    BY DEF StepStates
  <2>2. PICK new : new = [sr EXCEPT !.done = TRUE, !.step_age = 0]
    OBVIOUS
  <2>3. new \in SearchStates /\ new.id = sr.id /\ new.done /\ new.nodes = sr.nodes /\ new.port = sr.port
    BY <2>2 DEF SearchStates
  <2>4. Step(s) = [sr |-> new, sent |-> q, done |-> TRUE]
    BY <1>3, <2>1, <2>2 DEF Step
  <2>5. PICK out : out = [sr |-> new, sent |-> q, done |-> TRUE]
    OBVIOUS
  <2>6. out \in StepStates /\ out.sr = new /\ out.done
    BY <2>3, <2>5 DEF StepStates
  <2>7. out.sr.done \in BOOLEAN /\ out.done \in BOOLEAN
    BY <2>6 DEF StepStates, SearchStates
  <2>8. \A ids : Complete(new, ids)
    <3> SUFFICES ASSUME NEW ids PROVE Complete(new, ids)
      OBVIOUS
    <3>1. AllReplied(sr) /\ new.port = 0
      BY <1>3, <2>1, <2>3
    <3>2. DOMAIN new.nodes = DOMAIN sr.nodes
      BY <2>3
    <3>3. \A i \in DOMAIN sr.nodes : /\ new.nodes[i].replied = sr.nodes[i].replied
                                     /\ new.nodes[i].pinged = sr.nodes[i].pinged
      BY <2>3
    <3>4. \A i \in LiveFirst(sr) : new.port # 0 => new.nodes[i].acked
      BY <3>1
    <3> QED
      BY <2>3, <3>1, <3>2, <3>3, <3>4, AllRepliedCompletes
  <2>9. Unasked(sr.nodes) => new.nodes = <<>>
    BY <1>3, <2>1, <2>3, UnaskedNotReplied
  <2> QED
    BY <2>1, <2>3, <2>4, <2>5, <2>6, <2>7, <2>8, <2>9 DEF StepOutcome
<1> QED
  BY <1>1, <1>2, <1>3

-----------------------------------------------------------------------------
(* All searches.                                                           *)

\* No target is searched for twice at a time.
SearchLists ==
  {list \in Seq(SearchStates) : \A i, j \in 1 .. Len(list) : list[i].id = list[j].id => i = j}
Records ==
  [searches : SearchLists, sent : SUBSET Requests, finished : [Targets -> Nat],
   heard : [Targets -> SUBSET Others]]
RecordOf(list, q, f, h) == [searches |-> list, sent |-> q, finished |-> f, heard |-> h]

\* The searches are the same, and none has become done.
Kept(a, b) ==
  /\ b \in Records /\ b.finished = a.finished /\ Len(b.searches) = Len(a.searches)
  /\ \A k \in DOMAIN a.searches : SameSearch(a.searches[k], b.searches[k])

LEMMA RecordFields ==
  ASSUME NEW a \in Records
  PROVE  \E list \in SearchLists, q \in SUBSET Requests, f \in [Targets -> Nat], h \in [Targets -> SUBSET Others] :
           a = RecordOf(list, q, f, h)
BY DEF Records, RecordOf

LEMMA RecordType ==
  ASSUME NEW list \in SearchLists, NEW q \in SUBSET Requests, NEW f \in [Targets -> Nat],
         NEW h \in [Targets -> SUBSET Others]
  PROVE  RecordOf(list, q, f, h) \in Records
BY DEF Records, RecordOf

LEMMA ListType ==
  ASSUME NEW list \in SearchLists
  PROVE  \E l \in Nat : /\ Len(list) = l /\ DOMAIN list = 1 .. l /\ list \in Seq(SearchStates)
                        /\ \A k \in 1 .. l : list[k] \in SearchStates /\ list[k].id \in Targets
<1>1. list \in Seq(SearchStates)
  BY DEF SearchLists
<1>2. PICK l \in Nat : Len(list) = l /\ DOMAIN list = 1 .. l
  BY <1>1
<1>3. \A k \in 1 .. l : list[k] \in SearchStates
  BY <1>1, <1>2
<1>4. \A k \in 1 .. l : list[k].id \in Targets
  BY <1>3 DEF SearchStates
<1> QED
  BY <1>1, <1>2, <1>3, <1>4

\* All searches of a list change, and keep their targets.
LEMMA ChangedSearches ==
  ASSUME NEW list \in SearchLists, NEW r, DOMAIN r = DOMAIN list, r = [k \in DOMAIN r |-> r[k]],
         \A k \in DOMAIN list : r[k] \in SearchStates /\ r[k].id = list[k].id
  PROVE  r \in SearchLists /\ Len(r) = Len(list)
<1>1. PICK l \in Nat : Len(list) = l /\ DOMAIN list = 1 .. l
  BY ListType
<1>2. r \in [1 .. l -> SearchStates]
  BY <1>1
<1>3. r \in Seq(SearchStates) /\ Len(r) = l
  BY <1>2
<1> QED
  BY <1>1, <1>3 DEF SearchLists

LEMMA ChangedSearch ==
  ASSUME NEW list \in SearchLists, NEW k \in DOMAIN list, NEW sr \in SearchStates, sr.id = list[k].id
  PROVE  [list EXCEPT ![k] = sr] \in SearchLists /\ Len([list EXCEPT ![k] = sr]) = Len(list)
<1>1. PICK r : r = [list EXCEPT ![k] = sr]
  OBVIOUS
<1>2. PICK l \in Nat : DOMAIN list = 1 .. l /\ \A j \in 1 .. l : list[j] \in SearchStates
  BY ListType
<1>3. \A j \in DOMAIN list : r[j] \in SearchStates /\ r[j].id = list[j].id
  BY <1>1, <1>2
<1>4. DOMAIN r = DOMAIN list /\ r = [j \in DOMAIN r |-> r[j]]
  BY <1>1
<1> QED
  BY <1>1, <1>3, <1>4, ChangedSearches

LEMMA KeptSelf ==
  ASSUME NEW a \in Records
  PROVE  Kept(a, a)
<1>1. PICK l \in Nat : DOMAIN a.searches = 1 .. l /\ \A k \in 1 .. l : a.searches[k] \in SearchStates
  BY ListType DEF Records
<1> QED
  BY <1>1 DEF Kept, SameSearch

LEMMA KeptThrough ==
  ASSUME NEW a \in Records, NEW b, NEW c, Kept(a, b), Kept(b, c)
  PROVE  Kept(a, c)
<1>1. DOMAIN a.searches = DOMAIN b.searches
  <2>1. a.searches \in SearchLists /\ b.searches \in SearchLists
    BY DEF Records, Kept
  <2>2. DOMAIN a.searches = 1 .. Len(a.searches) /\ DOMAIN b.searches = 1 .. Len(b.searches)
    BY <2>1, ListType
  <2> QED
    BY <2>2 DEF Kept
<1> QED
  BY <1>1 DEF Kept, SameSearch

\* One search changes.
LEMMA KeptOne ==
  ASSUME NEW list \in SearchLists, NEW q \in SUBSET Requests, NEW f \in [Targets -> Nat],
         NEW h \in [Targets -> SUBSET Others], NEW k \in DOMAIN list, NEW sr, SameSearch(list[k], sr),
         NEW q2 \in SUBSET Requests, NEW h2 \in [Targets -> SUBSET Others]
  PROVE  Kept(RecordOf(list, q, f, h), RecordOf([list EXCEPT ![k] = sr], q2, f, h2))
<1>1. PICK r : r = [list EXCEPT ![k] = sr]
  OBVIOUS
<1>2. r \in SearchLists /\ Len(r) = Len(list)
  BY <1>1, ChangedSearch DEF SameSearch
<1>3. PICK l \in Nat : DOMAIN list = 1 .. l /\ \A j \in 1 .. l : list[j] \in SearchStates
  BY ListType
<1>4. \A j \in DOMAIN list : SameSearch(list[j], r[j])
  BY <1>1, <1>3 DEF SameSearch
<1>5. RecordOf(r, q2, f, h2) \in Records
  BY <1>2, RecordType
<1> QED
  BY <1>1, <1>2, <1>4, <1>5 DEF Kept, RecordOf

LEMMA StepOfType ==
  ASSUME NEW a \in Records, NEW k \in DOMAIN a.searches
  PROVE  /\ StepOf(a, k) \in StepStates /\ StepOf(a, k).sr = a.searches[k]
         /\ StepOf(a, k).sent = a.sent /\ ~StepOf(a, k).done
         /\ a.searches[k] \in SearchStates
<1>1. a.searches[k] \in SearchStates
  BY ListType DEF Records
<1>2. a.sent \in SUBSET Requests
  BY DEF Records
<1> QED
  BY <1>1, <1>2 DEF StepOf, StepStates

LEMMA PutKeeps ==
  ASSUME NEW a \in Records, NEW k \in DOMAIN a.searches, NEW s, SameStep(StepOf(a, k), s)
  PROVE  Kept(a, Put(a, k, s))
<1>1. PICK list \in SearchLists, q \in SUBSET Requests, f \in [Targets -> Nat], h \in [Targets -> SUBSET Others] :
        a = RecordOf(list, q, f, h)
  BY RecordFields
<1>2. k \in DOMAIN list /\ a.searches = list
  BY <1>1 DEF RecordOf
<1>3. SameSearch(list[k], s.sr) /\ ~s.done /\ s.sent \in SUBSET Requests
  BY <1>2, StepOfType DEF SameStep, StepStates
<1>4. Put(a, k, s) = RecordOf([list EXCEPT ![k] = s.sr], s.sent, f, h)
  <2>1. PICK f2 : f2 = [f EXCEPT ![s.sr.id] = IF s.done THEN @ + 1 ELSE @]
    OBVIOUS
  <2>2. f2 = f
    BY <1>3, <2>1
  <2>3. Put(a, k, s) = RecordOf([list EXCEPT ![k] = s.sr], s.sent, f2, h)
    <3>1. PICK list2 : list2 = [list EXCEPT ![k] = s.sr]
      OBVIOUS
    <3>2. a.searches = list /\ a.finished = f
      BY <1>1 DEF RecordOf
    <3>3. Put(a, k, s) = [a EXCEPT !.searches = list2, !.sent = s.sent, !.finished = f2]
      BY <2>1, <3>1, <3>2 DEF Put
    <3> QED
      BY <1>1, <3>1, <3>3 DEF RecordOf
  <2> QED
    BY <2>2, <2>3
<1> QED
  BY <1>1, <1>2, <1>3, <1>4, KeptOne

LEMMA OfferKeeps ==
  ASSUME NEW a \in Records, NEW k \in DOMAIN a.searches, NEW ids \in Seq(Others)
  PROVE  Kept(a, Offer(a, k, ids))
<1>1. PICK list \in SearchLists, q \in SUBSET Requests, f \in [Targets -> Nat], h \in [Targets -> SUBSET Others] :
        a = RecordOf(list, q, f, h)
  BY RecordFields
<1>2. k \in DOMAIN list /\ a.searches = list /\ list[k] \in SearchStates /\ list[k].id \in Targets
  BY <1>1, ListType DEF RecordOf
<1>3. PICK sr : sr = InsertNodes(list[k], ids) /\ SameSearch(list[k], sr)
  BY <1>2, InsertNodesKeeps
<1>4. PICK h2 : h2 = [h EXCEPT ![list[k].id] = @ \cup Range(ids)]
  OBVIOUS
<1>5. h2 \in [Targets -> SUBSET Others]
  <2>1. Range(ids) \in SUBSET Others
    BY DEF Range
  <2> QED
    BY <1>2, <1>4, <2>1
<1>6. Offer(a, k, ids) = RecordOf([list EXCEPT ![k] = sr], q, f, h2)
  <2>1. PICK list2 : list2 = [list EXCEPT ![k] = sr]
    OBVIOUS
  <2>2. a.searches = list /\ a.heard = h
    BY <1>1 DEF RecordOf
  <2>3. Offer(a, k, ids) = [a EXCEPT !.searches = list2, !.heard = h2]
    BY <1>3, <1>4, <2>1, <2>2 DEF Offer
  <2> QED
    BY <1>1, <2>1, <2>3 DEF RecordOf
<1> QED
  BY <1>1, <1>2, <1>3, <1>5, <1>6, KeptOne

LEMMA RepliedKeeps ==
  ASSUME NEW a \in Records, NEW k \in DOMAIN a.searches, NEW id \in Others
  PROVE  Kept(a, Replied(a, k, id))
<1>1. PICK list \in SearchLists, q \in SUBSET Requests, f \in [Targets -> Nat], h \in [Targets -> SUBSET Others] :
        a = RecordOf(list, q, f, h)
  BY RecordFields
<1>2. k \in DOMAIN list /\ a.searches = list /\ list[k] \in SearchStates /\ list[k].id \in Targets
  BY <1>1, ListType DEF RecordOf
<1>3. PICK sr : sr = InsertReplied(list[k], id) /\ SameSearch(list[k], sr)
  BY <1>2, InsertRepliedKeeps
<1>4. PICK h2 : h2 = [h EXCEPT ![list[k].id] = @ \cup {id}]
  OBVIOUS
<1>5. h2 \in [Targets -> SUBSET Others]
  BY <1>2, <1>4
<1>6. Replied(a, k, id) = RecordOf([list EXCEPT ![k] = sr], q, f, h2)
  <2>1. PICK list2 : list2 = [list EXCEPT ![k] = sr]
    OBVIOUS
  <2>2. a.searches = list /\ a.heard = h
    BY <1>1 DEF RecordOf
  <2>3. Replied(a, k, id) = [a EXCEPT !.searches = list2, !.heard = h2]
    BY <1>3, <1>4, <2>1, <2>2 DEF Replied
  <2> QED
    BY <1>1, <2>1, <2>3 DEF RecordOf
<1> QED
  BY <1>1, <1>2, <1>3, <1>5, <1>6, KeptOne

\* Some searches change.
LEMMA KeptSome ==
  ASSUME NEW list \in SearchLists, NEW q \in SUBSET Requests, NEW f \in [Targets -> Nat],
         NEW h \in [Targets -> SUBSET Others], NEW r, DOMAIN r = DOMAIN list, r = [k \in DOMAIN r |-> r[k]],
         \A k \in DOMAIN list : SameSearch(list[k], r[k]),
         NEW q2 \in SUBSET Requests, NEW h2 \in [Targets -> SUBSET Others]
  PROVE  Kept(RecordOf(list, q, f, h), RecordOf(r, q2, f, h2))
<1>1. r \in SearchLists /\ Len(r) = Len(list)
  <2>1. \A k \in DOMAIN list : r[k] \in SearchStates /\ r[k].id = list[k].id
    BY DEF SameSearch
  <2> QED
    BY <2>1, ChangedSearches
<1>2. RecordOf(r, q2, f, h2) \in Records
  BY <1>1, RecordType
<1> QED
  BY <1>1, <1>2 DEF Kept, RecordOf

LEMMA AddSearchNodeKeeps ==
  ASSUME NEW a \in Records, NEW id \in Others
  PROVE  Kept(a, AddSearchNode(a, id))
<1>1. PICK list \in SearchLists, q \in SUBSET Requests, f \in [Targets -> Nat], h \in [Targets -> SUBSET Others] :
        a = RecordOf(list, q, f, h)
  BY RecordFields
<1>2. a.searches = list /\ a.sent = q /\ a.finished = f /\ a.heard = h
  BY <1>1 DEF RecordOf
<1>3. PICK open : open = {k \in DOMAIN a.searches : HasRoom(a.searches[k])}
  OBVIOUS
<1>4. open \in SUBSET DOMAIN list
  BY <1>2, <1>3
<1>5. PICK joined : joined = [k \in open |-> Join(StepOf(a, k), id)]
  OBVIOUS
<1>6. \A k \in open : SameSearch(list[k], joined[k].sr) /\ joined[k].sent \in SUBSET Requests
  <2> SUFFICES ASSUME NEW k \in open
               PROVE  SameSearch(list[k], joined[k].sr) /\ joined[k].sent \in SUBSET Requests
    OBVIOUS
  <2>1. k \in DOMAIN a.searches
    BY <1>2, <1>4
  <2>2. PICK s \in StepStates : s = StepOf(a, k) /\ s.sr = list[k]
    BY <1>2, <2>1, StepOfType
  <2>3. SameStep(s, Join(s, id))
    BY JoinKeeps
  <2>4. joined[k] = Join(s, id)
    BY <1>5, <2>2
  <2> QED
    BY <2>2, <2>3, <2>4 DEF SameStep, StepStates
<1>7. PICK r : r = [k \in DOMAIN list |-> IF k \in open THEN joined[k].sr ELSE list[k]]
  OBVIOUS
<1>8. DOMAIN r = DOMAIN list /\ r = [k \in DOMAIN r |-> r[k]]
  BY <1>7
<1>9. \A k \in DOMAIN list : SameSearch(list[k], r[k])
  <2>1. \A k \in DOMAIN list : SameSearch(list[k], list[k])
    BY ListType DEF SameSearch
  <2> QED
    BY <1>6, <1>7, <2>1
<1>10. PICK more : more = UNION {joined[k].sent : k \in open}
  OBVIOUS
<1>11. q \cup more \in SUBSET Requests
  BY <1>6, <1>10
<1>12. PICK h2 : h2 = [t \in Targets |-> IF \E k \in open : a.searches[k].id = t THEN h[t] \cup {id} ELSE h[t]]
  OBVIOUS
<1>13. h2 \in [Targets -> SUBSET Others]
  BY <1>12
<1>14. AddSearchNode(a, id) = RecordOf(r, q \cup more, f, h2)
  <2>1. AddSearchNode(a, id) = [a EXCEPT !.searches = r, !.sent = q \cup more, !.heard = h2]
    BY <1>2, <1>3, <1>5, <1>7, <1>10, <1>12 DEF AddSearchNode
  <2> QED
    BY <1>1, <2>1 DEF RecordOf
<1> QED
  BY <1>1, <1>8, <1>9, <1>11, <1>13, <1>14, KeptSome

\* The nodes a reply lists are other nodes.
LEMMA OthersListed ==
  ASSUME NEW from \in Others
  PROVE  Without(Knows[from], {i \in DOMAIN Knows[from] : Knows[from][i] = MyId}) \in Seq(Others)
<1>1. PICK list \in Seq(Others \cup {MyId}) : list = Knows[from]
  BY DhtSearchAssumption
<1>2. PICK l \in Nat : l = Len(list) /\ DOMAIN list = 1 .. l /\ \A i \in 1 .. l : list[i] \in Others \cup {MyId}
  BY <1>1
<1>3. PICK places : places = {i \in DOMAIN Knows[from] : Knows[from][i] = MyId}
  OBVIOUS
<1>4. PICK others : others = Without(list, places)
  OBVIOUS
<1>5. PICK m \in Nat : KeptOf(others, m, list, places, l, Others \cup {MyId})
  BY <1>2, <1>4, WithoutKeeps DEF KeptInv
<1>6. others \in Seq(Others \cup {MyId}) /\ m = Len(others)
  BY <1>5 DEF KeptOf
<1>7. \A i \in 1 .. m : \E j \in 1 .. l : j \notin places /\ others[i] = list[j]
  BY <1>5 DEF KeptOf
<1>8. \A i \in 1 .. m : others[i] \in Others
  BY <1>1, <1>2, <1>3, <1>7
<1> QED
  BY <1>1, <1>3, <1>4, <1>6, <1>8

LEMMA KeptDomain ==
  ASSUME NEW a \in Records, NEW b, Kept(a, b)
  PROVE  b \in Records /\ DOMAIN b.searches = DOMAIN a.searches
<1>1. a.searches \in SearchLists /\ b.searches \in SearchLists /\ Len(a.searches) = Len(b.searches)
  BY DEF Records, Kept
<1>2. DOMAIN a.searches = 1 .. Len(a.searches) /\ DOMAIN b.searches = 1 .. Len(b.searches)
  BY <1>1, ListType
<1> QED
  BY <1>1, <1>2 DEF Kept

LEMMA GetPeersReplyKeeps ==
  ASSUME NEW a \in Records, NEW k \in DOMAIN a.searches, NEW from \in Others
  PROVE  Kept(a, GetPeersReply(a, k, from))
<1>1. PICK others \in Seq(Others) :
        others = Without(Knows[from], {i \in DOMAIN Knows[from] : Knows[from][i] = MyId})
  BY OthersListed
<1>2. PICK added : added = AddSearchNode(a, from)
  OBVIOUS
<1>3. added \in Records /\ k \in DOMAIN added.searches /\ Kept(a, added)
  BY <1>2, AddSearchNodeKeeps, KeptDomain
<1>4. PICK listed : listed = Offer(added, k, others)
  OBVIOUS
<1>5. Kept(added, listed)
  BY <1>3, <1>4, OfferKeeps
<1>6. listed \in Records /\ k \in DOMAIN listed.searches
  BY <1>3, <1>5, KeptDomain
<1>7. PICK asked : asked = Put(listed, k, AskAny(StepOf(listed, k)))
  OBVIOUS
<1>8. Kept(listed, asked)
  BY <1>6, <1>7, StepOfType, AskAnyKeeps, PutKeeps
<1>9. asked \in Records /\ k \in DOMAIN asked.searches
  BY <1>6, <1>8, KeptDomain
<1>10. Kept(asked, Replied(asked, k, from))
  BY <1>9, RepliedKeeps
<1>11. GetPeersReply(a, k, from) = Replied(asked, k, from)
  BY <1>1, <1>2, <1>4, <1>7 DEF GetPeersReply
<1> QED
  BY <1>3, <1>5, <1>6, <1>8, <1>9, <1>10, <1>11, KeptThrough

LEMMA AnnounceReplyKeeps ==
  ASSUME NEW a \in Records, NEW k \in DOMAIN a.searches, NEW from \in Others
  PROVE  Kept(a, AnnounceReply(a, k, from))
<1>1. PICK added : added = AddSearchNode(a, from)
  OBVIOUS
<1>2. added \in Records /\ k \in DOMAIN added.searches /\ Kept(a, added)
  BY <1>1, AddSearchNodeKeeps, KeptDomain
<1>3. PICK at : at = PlaceOf(added.searches[k], from)
  OBVIOUS
<1>4. PICK acked : acked = IF at = {} THEN added ELSE [added EXCEPT !.searches[k].nodes[Min(at)] = AckNode(@)]
  OBVIOUS
<1>5. Kept(added, acked)
  <2>1. CASE at = {}
    BY <1>2, <1>4, <2>1, KeptSelf
  <2>2. CASE at # {}
    <3>1. PICK list \in SearchLists, q \in SUBSET Requests, f \in [Targets -> Nat], h \in [Targets -> SUBSET Others] :
            added = RecordOf(list, q, f, h)
      BY <1>2, RecordFields
    <3>2. added.searches = list
      BY <3>1 DEF RecordOf
    <3>3. PICK sr \in SearchStates : sr = list[k]
      BY <1>2, <3>2, ListType
    <3>4. PICK nodes \in NodeLists : nodes = sr.nodes
      BY DEF SearchStates
    <3>5. PICK i \in DOMAIN nodes : i = Min(at)
      BY <1>3, <2>2, <3>2, <3>3, <3>4, Places
    <3>6. PICK n \in NodeStates : n = AckNode(nodes[i]) /\ n.id = nodes[i].id
      <4>1. nodes[i] \in NodeStates
        BY DEF NodeLists
      <4> QED
        BY <4>1, NodeChanges
    <3>7. PICK r \in NodeLists : r = [nodes EXCEPT ![i] = n]
      BY <3>6, ChangedNode
    <3>8. PICK new : new = [sr EXCEPT !.nodes = r]
      OBVIOUS
    <3>9. SameSearch(list[k], new)
      BY <3>3, <3>8, NewList
    <3>10. new = [sr EXCEPT !.nodes[i] = AckNode(@)]
      BY <3>4, <3>6, <3>7, <3>8
    <3>11. PICK list2 : list2 = [list EXCEPT ![k] = new]
      OBVIOUS
    <3>12. list2 = [list EXCEPT ![k].nodes[i] = AckNode(@)]
      BY <3>3, <3>10, <3>11
    <3>13. acked = [added EXCEPT !.searches[k].nodes[i] = AckNode(@)]
      BY <1>4, <2>2, <3>5
    <3>14. acked = [added EXCEPT !.searches = list2]
      BY <3>2, <3>12, <3>13
    <3>15. acked = RecordOf([list EXCEPT ![k] = new], q, f, h)
      BY <3>1, <3>11, <3>14 DEF RecordOf
    <3> QED
      BY <1>2, <3>1, <3>2, <3>9, <3>15, KeptOne
  <2> QED
    BY <2>1, <2>2
<1>6. acked \in Records /\ k \in DOMAIN acked.searches
  BY <1>2, <1>5, KeptDomain
<1>7. Kept(acked, Put(acked, k, AskAny(StepOf(acked, k))))
  BY <1>6, StepOfType, AskAnyKeeps, PutKeeps
<1>8. AnnounceReply(a, k, from) = Put(acked, k, AskAny(StepOf(acked, k)))
  BY <1>1, <1>3, <1>4 DEF AnnounceReply
<1> QED
  BY <1>2, <1>5, <1>6, <1>7, <1>8, KeptThrough

LEMMA MembersOthers ==
  ASSUME NEW sr \in SearchStates
  PROVE  Members(sr) \in SUBSET Others
<1>1. \A i \in DOMAIN sr.nodes : sr.nodes[i] \in NodeStates
  BY DEF SearchStates, NodeLists
<1> QED
  BY <1>1 DEF Members, NodeStates

LEMMA CutKeeps ==
  ASSUME NEW a \in Records, NEW from
  PROVE  Kept(a, Cut(a, from))
<1>1. PICK list \in SearchLists, q \in SUBSET Requests, f \in [Targets -> Nat], h \in [Targets -> SUBSET Others] :
        a = RecordOf(list, q, f, h)
  BY RecordFields
<1>2. a.searches = list /\ a.sent = q /\ a.finished = f /\ a.heard = h
  BY <1>1 DEF RecordOf
<1> DEFINE cut == [k \in DOMAIN a.searches |-> FlushNodes(a.searches[k], {from})]
           shorter == {k \in DOMAIN cut : cut[k] # a.searches[k]}
           h2 == [t \in Targets |->
                    IF \E k \in shorter : cut[k].id = t
                    THEN UNION {Members(cut[k]) : k \in {k \in shorter : cut[k].id = t}} ELSE a.heard[t]]
<1>3. Cut(a, from) = [a EXCEPT !.searches = cut, !.heard = h2]
  BY DEF Cut
<1>4. \A k \in DOMAIN list : SameSearch(list[k], cut[k])
  <2>1. \A k \in DOMAIN list : list[k] \in SearchStates
    BY ListType
  <2> QED
    BY <1>2, <2>1, FlushKeeps
<1>5. DOMAIN cut = DOMAIN list /\ cut = [k \in DOMAIN cut |-> cut[k]]
  BY <1>2
<1> HIDE DEF cut
<1>6. \A k \in DOMAIN cut : Members(cut[k]) \in SUBSET Others
  BY <1>4, <1>5, MembersOthers DEF SameSearch
<1>7. h2 \in [Targets -> SUBSET Others]
  <2>1. \A t \in Targets : a.heard[t] \in SUBSET Others
    BY <1>2
  <2>2. \A t : UNION {Members(cut[k]) : k \in {k \in shorter : cut[k].id = t}} \in SUBSET Others
    BY <1>6
  <2> QED
    BY <2>1, <2>2
<1> HIDE DEF h2
<1>8. Cut(a, from) = RecordOf(cut, q, f, h2)
  BY <1>1, <1>3 DEF RecordOf
<1> QED
  BY <1>1, <1>4, <1>5, <1>7, <1>8, KeptSome

-----------------------------------------------------------------------------
(* The searches that are not done.                                         *)

Open(list, t) == {k \in DOMAIN list : list[k].id = t /\ ~list[k].done}

LEMMA OpenCount ==
  ASSUME NEW list \in SearchLists, NEW t
  PROVE  /\ Open(list, t) = {} => Cardinality(Open(list, t)) = 0
         /\ \A k \in Open(list, t) : Open(list, t) = {k}
         /\ Open(list, t) # {} => Cardinality(Open(list, t)) = 1
<1>1. PICK l \in Nat : DOMAIN list = 1 .. l /\ l = Len(list)
  BY ListType
<1>2. ASSUME NEW k \in Open(list, t) PROVE Open(list, t) = {k}
  BY <1>1 DEF Open, SearchLists
<1>3. ASSUME Open(list, t) # {} PROVE Cardinality(Open(list, t)) = 1
  <2>1. PICK k : k \in Open(list, t)
    BY <1>3
  <2>2. Open(list, t) = {k}
    BY <1>2, <2>1
  <2> QED
    BY <2>2, FS_Singleton
<1> QED
  BY <1>2, <1>3, FS_EmptySet

\* What a call has brought about when dht_periodic returns: each search that
\* was not done still is not, or is reported once; and one that is reported
\* and remembered is complete.
Settled(a, c) ==
  /\ c \in Records
  /\ \A t \in Targets : c.finished[t] + Cardinality(Open(c.searches, t))
                          = a.finished[t] + Cardinality(Open(a.searches, t))
  /\ \A k \in DOMAIN c.searches :
       c.finished[c.searches[k].id] > a.finished[c.searches[k].id] =>
         \A ids : Complete(c.searches[k], ids)

LEMMA KeptOpen ==
  ASSUME NEW a \in Records, NEW b, Kept(a, b), NEW t
  PROVE  Open(b.searches, t) = Open(a.searches, t)
BY KeptDomain DEF Kept, SameSearch, Open

LEMMA KeptSettled ==
  ASSUME NEW a \in Records, NEW b, Kept(a, b), NEW c, Settled(b, c)
  PROVE  Settled(a, c)
BY KeptOpen DEF Kept, Settled

LEMMA SettledSelf ==
  ASSUME NEW a \in Records
  PROVE  Settled(a, a)
<1>1. \A k \in DOMAIN a.searches : a.finished[a.searches[k].id] \in Nat
  BY ListType DEF Records
<1> QED
  BY <1>1 DEF Settled

LEMMA CutSearches ==
  ASSUME NEW list \in SearchLists, NEW places
  PROVE  Without(list, places) \in SearchLists
<1>1. list \in Seq(SearchStates)
  BY DEF SearchLists
<1>2. PICK l \in Nat : l = Len(list)
  BY <1>1
<1>3. PICK q : q = Without(list, places)
  OBVIOUS
<1>4. PICK m \in Nat : KeptOf(q, m, list, places, l, SearchStates)
  BY <1>1, <1>2, <1>3, WithoutKeeps DEF KeptInv
<1>5. q \in Seq(SearchStates) /\ m = Len(q)
  BY <1>4 DEF KeptOf
<1>6. ASSUME NEW i1 \in 1 .. m, NEW i2 \in 1 .. m, q[i1].id = q[i2].id PROVE i1 = i2
  <2> SUFFICES ASSUME i1 # i2 PROVE FALSE
    OBVIOUS
  <2>1. PICK j1 \in 1 .. l, j2 \in 1 .. l : j1 # j2 /\ q[i1] = list[j1] /\ q[i2] = list[j2]
    <3>1. \A j1, j2 \in 1 .. l : j1 < j2 => j1 # j2 /\ j2 # j1
      OBVIOUS
    <3>2. CASE i1 < i2
      <4>1. PICK j1 \in 1 .. l, j2 \in 1 .. l : j1 < j2 /\ q[i1] = list[j1] /\ q[i2] = list[j2]
        BY <1>4, <3>2 DEF KeptOf
      <4> QED
        BY <3>1, <4>1
    <3>3. CASE i2 < i1
      <4>1. PICK j2 \in 1 .. l, j1 \in 1 .. l : j2 < j1 /\ q[i2] = list[j2] /\ q[i1] = list[j1]
        BY <1>4, <3>3 DEF KeptOf
      <4> QED
        BY <3>1, <4>1
    <3> QED
      BY <3>2, <3>3
  <2> QED
    BY <1>2, <1>6, <2>1 DEF SearchLists
<1> QED
  BY <1>3, <1>5, <1>6 DEF SearchLists

\* Which searches are left, and what is counted, when some are forgotten.
LEMMA ExpireSettles ==
  ASSUME NEW a \in Records
  PROVE  /\ Settled(a, ExpireSearches(a))
         /\ \A k \in DOMAIN ExpireSearches(a).searches :
              LET t == ExpireSearches(a).searches[k].id
              IN  ExpireSearches(a).finished[t] = a.finished[t]
<1>1. PICK list \in SearchLists, q \in SUBSET Requests, f \in [Targets -> Nat], h \in [Targets -> SUBSET Others] :
        a = RecordOf(list, q, f, h)
  BY RecordFields
<1>2. a.searches = list /\ a.sent = q /\ a.finished = f /\ a.heard = h
  BY <1>1 DEF RecordOf
<1>3. PICK l \in Nat : /\ Len(list) = l /\ DOMAIN list = 1 .. l /\ list \in Seq(SearchStates)
                       /\ \A k \in 1 .. l : list[k] \in SearchStates /\ list[k].id \in Targets
  BY ListType
<1>4. \A i, j \in 1 .. l : list[i].id = list[j].id => i = j
  BY <1>3 DEF SearchLists
<1> DEFINE old == {k \in DOMAIN a.searches : a.searches[k].step_age > ExpireTime}
           lost == {k \in old : Reported(a.searches[k])}
           LostOf(t) == {k \in lost : a.searches[k].id = t}
           f2 == [t \in Targets |-> a.finished[t] + Cardinality(LostOf(t))]
           kept == Without(a.searches, old)
<1>5. ExpireSearches(a) = [a EXCEPT !.searches = kept, !.finished = f2]
  BY DEF ExpireSearches
<1>6. \A t : LostOf(t) \in SUBSET Open(list, t)
  BY <1>2 DEF Open, Reported
<1>7. \A t : \A k \in LostOf(t) : k \in old
  OBVIOUS
<1>8. \A t : \A k \in Open(list, t) : k \in old => k \in LostOf(t)
  BY <1>2 DEF Open, Reported
<1>9. PICK m \in Nat : KeptOf(kept, m, list, old, l, SearchStates)
  BY <1>2, <1>3, WithoutKeeps DEF KeptInv
<1> HIDE DEF lost, old, kept
<1>10. kept \in Seq(SearchStates) /\ m = Len(kept)
  BY <1>9 DEF KeptOf
<1>11. \A i \in 1 .. m : \E j \in 1 .. l : j \notin old /\ kept[i] = list[j]
  BY <1>9 DEF KeptOf
<1>12. \A j \in 1 .. l : j \notin old => \E i \in 1 .. m : kept[i] = list[j]
  BY <1>9 DEF KeptOf
<1>13. kept \in SearchLists
  BY <1>2, CutSearches DEF kept
<1>14. DOMAIN kept = 1 .. m
  BY <1>10
<1>15. ASSUME NEW t
       PROVE  /\ Cardinality(LostOf(t)) \in Nat
              /\ Cardinality(LostOf(t)) + Cardinality(Open(kept, t)) = Cardinality(Open(list, t))
              /\ (\E i \in 1 .. m : kept[i].id = t) => Cardinality(LostOf(t)) = 0
  <2>1. ASSUME NEW i \in 1 .. m, kept[i].id = t PROVE LostOf(t) = {}
    <3>1. PICK j \in 1 .. l : j \notin old /\ kept[i] = list[j]
      BY <1>11
    <3>2. \A k \in Open(list, t) : k = j
      BY <1>3, <1>4, <2>1, <3>1 DEF Open
    <3> QED
      BY <1>6, <1>7, <3>1, <3>2
  <2>2. \A i \in Open(kept, t) : \E j \in Open(list, t) : j \notin old
    <3> SUFFICES ASSUME NEW i \in Open(kept, t) PROVE \E j \in Open(list, t) : j \notin old
      OBVIOUS
    <3>1. i \in 1 .. m /\ kept[i].id = t /\ ~kept[i].done
      BY <1>14 DEF Open
    <3>2. PICK j \in 1 .. l : j \notin old /\ kept[i] = list[j]
      BY <1>11, <3>1
    <3> QED
      BY <1>3, <3>1, <3>2 DEF Open
  <2>3. \A j \in Open(list, t) : j \notin old => Open(kept, t) # {}
    <3> SUFFICES ASSUME NEW j \in Open(list, t), j \notin old PROVE Open(kept, t) # {}
      OBVIOUS
    <3>1. j \in 1 .. l /\ list[j].id = t /\ ~list[j].done
      BY <1>3 DEF Open
    <3>2. PICK i \in 1 .. m : kept[i] = list[j]
      BY <1>12, <3>1
    <3> QED
      BY <1>14, <3>1, <3>2 DEF Open
  <2> HIDE DEF LostOf
  <2>4. PICK gone : gone = LostOf(t)
    OBVIOUS
  <2>5. gone \in SUBSET Open(list, t)
    BY <1>6, <2>4
  <2>6. Cardinality({}) = 0
    BY FS_EmptySet
  <2>7. CASE Open(list, t) = {}
    <3>1. gone = {} /\ Open(kept, t) = {}
      BY <2>2, <2>5, <2>7
    <3> QED
      BY <2>4, <2>6, <2>7, <3>1
  <2>8. CASE Open(list, t) # {}
    <3>1. PICK j : j \in Open(list, t)
      BY <2>8
    <3>2. Open(list, t) = {j} /\ Cardinality(Open(list, t)) = 1
      BY <3>1, OpenCount
    <3>3. CASE j \in old
      <4>1. j \in gone
        BY <1>8, <2>4, <3>1, <3>3
      <4>2. gone = {j} /\ gone = Open(list, t)
        BY <2>5, <3>2, <4>1
      <4>3. Open(kept, t) = {}
        BY <2>2, <3>2, <3>3
      <4>4. ~\E i \in 1 .. m : kept[i].id = t
        BY <2>1, <2>4, <4>1
      <4> QED
        BY <2>4, <2>6, <3>2, <4>2, <4>3, <4>4
    <3>4. CASE j \notin old
      <4>1. gone = {}
        BY <1>7, <2>4, <2>5, <3>2, <3>4
      <4>2. Cardinality(Open(kept, t)) = 1
        BY <1>13, <2>3, <3>1, <3>4, OpenCount
      <4> QED
        BY <2>4, <2>6, <3>2, <4>1, <4>2
    <3> QED
      BY <3>3, <3>4
  <2> QED
    BY <2>7, <2>8
<1> HIDE DEF LostOf
<1>16. f2 \in [Targets -> Nat] /\ \A t \in Targets : f2[t] = f[t] + Cardinality(LostOf(t)) /\ f[t] \in Nat
  BY <1>2, <1>15
<1> HIDE DEF f2
<1>17. PICK b : b = RecordOf(kept, q, f2, h)
  OBVIOUS
<1>18. ExpireSearches(a) = b
  BY <1>1, <1>5, <1>17 DEF RecordOf
<1>19. b \in Records /\ b.searches = kept /\ b.finished = f2
  BY <1>13, <1>16, <1>17, RecordType DEF RecordOf
<1>20. ASSUME NEW t \in Targets
       PROVE  f2[t] + Cardinality(Open(kept, t)) = f[t] + Cardinality(Open(list, t))
  <2>1. Cardinality(Open(kept, t)) \in Nat
    BY <1>13, OpenCount
  <2> QED
    BY <1>15, <1>16, <2>1
<1>21. ASSUME NEW k \in DOMAIN kept PROVE f2[kept[k].id] = f[kept[k].id]
  <2>1. PICK t \in Targets : t = kept[k].id
    BY <1>13, ListType
  <2>2. Cardinality(LostOf(t)) = 0
    BY <1>14, <1>15, <2>1
  <2> QED
    BY <1>16, <2>1, <2>2
<1>22. \A k \in DOMAIN kept : ~(f2[kept[k].id] > f[kept[k].id])
  <2>1. \A k \in DOMAIN kept : f2[kept[k].id] = f[kept[k].id] /\ f[kept[k].id] \in Nat
    BY <1>13, <1>21, ListType
  <2> QED
    BY <2>1
<1> QED
  BY <1>2, <1>18, <1>19, <1>20, <1>21, <1>22 DEF Settled

\* A search whose turn it is takes a step, and is counted when that ends it.
LEMMA StepDueSettles ==
  ASSUME NEW a \in Records
  PROVE  /\ Settled(a, StepDue(a))
         /\ DOMAIN StepDue(a).searches = DOMAIN a.searches
         /\ \A k \in DOMAIN a.searches : StepDue(a).searches[k].id = a.searches[k].id
<1>1. PICK list \in SearchLists, q \in SUBSET Requests, f \in [Targets -> Nat], h \in [Targets -> SUBSET Others] :
        a = RecordOf(list, q, f, h)
  BY RecordFields
<1>2. a.searches = list /\ a.sent = q /\ a.finished = f /\ a.heard = h
  BY <1>1 DEF RecordOf
<1>3. PICK l \in Nat : /\ Len(list) = l /\ DOMAIN list = 1 .. l /\ list \in Seq(SearchStates)
                       /\ \A k \in 1 .. l : list[k] \in SearchStates /\ list[k].id \in Targets
  BY ListType
<1>4. \A i, j \in 1 .. l : list[i].id = list[j].id => i = j
  BY <1>3 DEF SearchLists
<1> DEFINE due == {k \in DOMAIN a.searches : ~a.searches[k].done /\ a.searches[k].step_age >= StepWait}
           step == [k \in due |-> Step(StepOf(a, k))]
           Ended(t) == {k \in due : step[k].done /\ a.searches[k].id = t}
           r == [k \in DOMAIN a.searches |-> IF k \in due THEN step[k].sr ELSE a.searches[k]]
           more == UNION {step[k].sent : k \in due}
           f2 == [t \in Targets |-> a.finished[t] + Cardinality(Ended(t))]
<1>5. StepDue(a) = [a EXCEPT !.searches = r, !.sent = a.sent \cup more, !.finished = f2]
  BY DEF StepDue
<1>6. due \in SUBSET (1 .. l) /\ \A k \in due : ~list[k].done
  BY <1>2, <1>3
<1>7. \A k \in due : step[k] = Step(StepOf(a, k))
  OBVIOUS
<1>8. \A t : \A k : k \in Ended(t) <=> k \in due /\ step[k].done /\ list[k].id = t
  BY <1>2
<1>9. \A k \in 1 .. l : r[k] = IF k \in due THEN step[k].sr ELSE list[k]
  BY <1>2, <1>3
<1>10. DOMAIN r = DOMAIN list /\ r = [k \in DOMAIN r |-> r[k]]
  BY <1>2
<1>11. more = UNION {step[k].sent : k \in due}
  OBVIOUS
<1>12. f2 = [t \in Targets |-> a.finished[t] + Cardinality(Ended(t))]
  OBVIOUS
<1> HIDE DEF due, step, Ended, r, more, f2
<1>13. ASSUME NEW k \in due
       PROVE  /\ step[k].sr \in SearchStates /\ step[k].sr.id = list[k].id
              /\ step[k].done = step[k].sr.done /\ step[k].sent \in SUBSET Requests
              /\ step[k].done => \A ids : Complete(step[k].sr, ids)
  <2>1. k \in DOMAIN a.searches /\ ~list[k].done
    BY <1>2, <1>3, <1>6
  <2>2. PICK s \in StepStates : s = StepOf(a, k) /\ s.sr = list[k] /\ ~s.done
    BY <1>2, <2>1, StepOfType
  <2>3. StepOutcome(s, step[k])
    BY <1>7, <2>1, <2>2, StepEffect
  <2> QED
    BY <2>2, <2>3 DEF StepOutcome, StepStates
<1>14. r \in SearchLists /\ Len(r) = Len(list)
  <2>1. \A k \in DOMAIN list : r[k] \in SearchStates /\ r[k].id = list[k].id
    BY <1>3, <1>9, <1>13
  <2> QED
    BY <1>10, <2>1, ChangedSearches
<1>15. DOMAIN r = 1 .. l
  BY <1>3, <1>10
<1>16. \A k \in 1 .. l : r[k].id = list[k].id
  BY <1>3, <1>9, <1>13
<1>17. ASSUME NEW t
       PROVE  /\ Cardinality(Ended(t)) \in Nat
              /\ Cardinality(Ended(t)) + Cardinality(Open(r, t)) = Cardinality(Open(list, t))
              /\ Cardinality(Ended(t)) > 0 => \E k \in due : step[k].done /\ list[k].id = t
  <2>1. PICK ended : ended = Ended(t)
    OBVIOUS
  <2>2. ended \in SUBSET Open(list, t)
    BY <1>3, <1>6, <1>8, <2>1 DEF Open
  <2>3. \A k \in Open(r, t) : k \in Open(list, t) /\ k \notin ended
    <3> SUFFICES ASSUME NEW k \in Open(r, t) PROVE k \in Open(list, t) /\ k \notin ended
      OBVIOUS
    <3>1. k \in 1 .. l /\ r[k].id = t /\ ~r[k].done
      BY <1>15 DEF Open
    <3>2. list[k].id = t
      BY <1>16, <3>1
    <3>3. CASE k \in due
      <4>1. ~step[k].done /\ ~list[k].done
        BY <1>6, <1>9, <1>13, <3>1, <3>3
      <4> QED
        BY <1>3, <1>8, <2>1, <3>1, <3>2, <4>1 DEF Open
    <3>4. CASE k \notin due
      <4>1. ~list[k].done
        BY <1>9, <3>1, <3>4
      <4> QED
        BY <1>3, <1>8, <2>1, <3>1, <3>2, <3>4, <4>1 DEF Open
    <3> QED
      BY <3>3, <3>4
  <2>4. \A k \in Open(list, t) : k \notin ended => k \in Open(r, t)
    <3> SUFFICES ASSUME NEW k \in Open(list, t), k \notin ended PROVE k \in Open(r, t)
      OBVIOUS
    <3>1. k \in 1 .. l /\ list[k].id = t /\ ~list[k].done
      BY <1>3 DEF Open
    <3>2. r[k].id = t
      BY <1>16, <3>1
    <3>3. CASE k \in due
      <4>1. ~step[k].done
        BY <1>8, <2>1, <3>1, <3>3
      <4>2. ~r[k].done
        BY <1>9, <1>13, <3>1, <3>3, <4>1
      <4> QED
        BY <1>15, <3>1, <3>2, <4>2 DEF Open
    <3>4. CASE k \notin due
      <4>1. ~r[k].done
        BY <1>9, <3>1, <3>4
      <4> QED
        BY <1>15, <3>1, <3>2, <4>1 DEF Open
    <3> QED
      BY <3>3, <3>4
  <2>5. Cardinality({}) = 0
    BY FS_EmptySet
  <2>6. CASE Open(list, t) = {}
    <3>1. ended = {} /\ Open(r, t) = {}
      BY <2>2, <2>3, <2>6
    <3> QED
      BY <2>1, <2>5, <2>6, <3>1
  <2>7. CASE Open(list, t) # {}
    <3>1. PICK j : j \in Open(list, t)
      BY <2>7
    <3>2. Open(list, t) = {j} /\ Cardinality(Open(list, t)) = 1
      BY <3>1, OpenCount
    <3>3. CASE j \in ended
      <4>1. ended = Open(list, t)
        BY <2>2, <3>2, <3>3
      <4>2. Open(r, t) = {}
        BY <2>3, <3>2, <3>3
      <4>3. j \in due /\ step[j].done /\ list[j].id = t
        BY <1>8, <2>1, <3>3
      <4> QED
        BY <2>1, <2>5, <3>2, <4>1, <4>2, <4>3
    <3>4. CASE j \notin ended
      <4>1. ended = {}
        BY <2>2, <3>2, <3>4
      <4>2. Cardinality(Open(r, t)) = 1
        BY <1>14, <2>4, <3>1, <3>4, OpenCount
      <4> QED
        BY <2>1, <2>5, <3>2, <4>1, <4>2
    <3> QED
      BY <3>3, <3>4
  <2> QED
    BY <2>6, <2>7
<1>18. f2 \in [Targets -> Nat] /\ \A t \in Targets : f2[t] = f[t] + Cardinality(Ended(t)) /\ f[t] \in Nat
  BY <1>2, <1>12, <1>17
<1>19. q \cup more \in SUBSET Requests
  BY <1>11, <1>13
<1>20. PICK c : c = RecordOf(r, q \cup more, f2, h)
  OBVIOUS
<1>21. StepDue(a) = c
  BY <1>1, <1>2, <1>5, <1>20 DEF RecordOf
<1>22. c \in Records /\ c.searches = r /\ c.finished = f2
  BY <1>14, <1>18, <1>19, <1>20, RecordType DEF RecordOf
<1>23. ASSUME NEW t \in Targets
       PROVE  f2[t] + Cardinality(Open(r, t)) = f[t] + Cardinality(Open(list, t))
  <2>1. Cardinality(Open(r, t)) \in Nat
    BY <1>14, OpenCount
  <2> QED
    BY <1>17, <1>18, <2>1
<1>24. ASSUME NEW k \in DOMAIN r, f2[r[k].id] > f[r[k].id]
       PROVE  \A ids : Complete(r[k], ids)
  <2>1. k \in 1 .. l
    BY <1>15
  <2>2. PICK t \in Targets : t = r[k].id /\ t = list[k].id
    BY <1>3, <1>16, <2>1
  <2>3. Cardinality(Ended(t)) > 0
    BY <1>17, <1>18, <1>24, <2>2
  <2>4. PICK j \in due : step[j].done /\ list[j].id = t
    BY <1>17, <2>3
  <2>5. j = k
    BY <1>4, <1>6, <2>1, <2>2, <2>4
  <2> QED
    BY <1>9, <1>13, <2>1, <2>4, <2>5
<1> QED
  BY <1>2, <1>3, <1>15, <1>16, <1>21, <1>22, <1>23, <1>24 DEF Settled

\* One after the other.
LEMMA ExpiredAndStepped ==
  ASSUME NEW a \in Records, NEW b \in {a, ExpireSearches(a)}, NEW c \in {StepDue(b), b}
  PROVE  Settled(a, c)
<1>1. /\ b \in Records /\ Settled(a, b)
      /\ \A k \in DOMAIN b.searches : b.finished[b.searches[k].id] = a.finished[b.searches[k].id]
  <2>1. CASE b = a
    BY <2>1, SettledSelf
  <2>2. CASE b = ExpireSearches(a)
    BY <2>2, ExpireSettles DEF Settled
  <2> QED
    BY <2>1, <2>2
<1>2. CASE c = b
  BY <1>1, <1>2
<1>3. CASE c = StepDue(b)
  <2>1. /\ Settled(b, c) /\ DOMAIN c.searches = DOMAIN b.searches
        /\ \A k \in DOMAIN b.searches : c.searches[k].id = b.searches[k].id
    BY <1>1, <1>3, StepDueSettles
  <2>2. ASSUME NEW t \in Targets
        PROVE  c.finished[t] + Cardinality(Open(c.searches, t))
                 = a.finished[t] + Cardinality(Open(a.searches, t))
    BY <1>1, <2>1 DEF Settled
  <2>3. \A k \in DOMAIN c.searches :
          c.finished[c.searches[k].id] > a.finished[c.searches[k].id] =>
            \A ids : Complete(c.searches[k], ids)
    BY <1>1, <2>1 DEF Settled
  <2> QED
    BY <2>1, <2>2, <2>3 DEF Settled
<1> QED
  BY <1>2, <1>3

-----------------------------------------------------------------------------
(* The steps of the specification.                                         *)

\* The searches are well-formed, and each call of dht_search that returned 1
\* has led to one report, or its search is not done.
SearchIInv ==
  /\ All \in Records /\ search_id \in Nat /\ started \in [Targets -> Nat]
  /\ OneDoneEach
  /\ DiesOnlyAlone

\* What dht_periodic leaves behind (dht_periodic, expire_searches, search_step).
LEMMA TasksSettle ==
  ASSUME NEW a, a \in Records, Tasks(a)
  PROVE  \E c : /\ Settled(a, c) /\ All' \in Records
               /\ searches' = c.searches /\ finished' = c.finished
<1>0. PICK b \in {a, ExpireSearches(a)} : \E c \in {StepDue(b), b} :
        /\ searches' = c.searches /\ sent' = c.sent /\ finished' = c.finished
        /\ heard' = [t \in Targets |-> IF \E k \in DOMAIN c.searches : c.searches[k].id = t
                                       THEN c.heard[t] ELSE {}]
  BY DEF Tasks
<1>1. PICK c \in {StepDue(b), b} :
        /\ searches' = c.searches /\ sent' = c.sent /\ finished' = c.finished
        /\ heard' = [t \in Targets |-> IF \E k \in DOMAIN c.searches : c.searches[k].id = t
                                       THEN c.heard[t] ELSE {}]
  BY <1>0
<1>2. Settled(a, c) /\ c \in Records
  BY ExpiredAndStepped DEF Settled
<1>3. PICK list \in SearchLists, q \in SUBSET Requests, f \in [Targets -> Nat], h \in [Targets -> SUBSET Others] :
        c = RecordOf(list, q, f, h)
  BY <1>2, RecordFields
<1>4. PICK h2 : h2 = [t \in Targets |-> IF \E k \in DOMAIN c.searches : c.searches[k].id = t
                                      THEN h[t] ELSE {}]
  OBVIOUS
<1>5. h2 \in [Targets -> SUBSET Others]
  BY <1>4
<1>6. searches' = list /\ sent' = q /\ finished' = f /\ heard' = h2
  BY <1>1, <1>3, <1>4 DEF RecordOf
<1>7. All' = RecordOf(list, q, f, h2)
  BY <1>6 DEF All, RecordOf
<1>8. All' \in Records
  BY <1>5, <1>7, RecordType
<1> QED
  BY <1>1, <1>2, <1>8

\* OneDoneEach, of the searches and reports of a record.
Balanced(a, calls1) ==
  \A t \in Targets : calls1[t] = a.finished[t] + Cardinality(Open(a.searches, t))

LEMMA BalancedNow ==
  OneDoneEach <=> Balanced(All, started)
BY DEF OneDoneEach, Balanced, All, Open

\* All but dht_search: the searches are kept as they are, apart from what
\* dht_periodic does with them.
LEMMA SettledStep ==
  ASSUME SearchIInv, All' \in Records, NEW c, Settled(All, c),
         searches' = c.searches, finished' = c.finished,
         ~dead, UNCHANGED <<search_id, started, dead>>
  PROVE  /\ SearchIInv'
         /\ \A k \in DOMAIN searches' :
              LET sr == searches'[k]
              IN  sr.done /\ finished'[sr.id] > finished[sr.id] => Complete(sr, heard'[sr.id])
<1>1. Balanced(All, started)
  BY BalancedNow DEF SearchIInv
<1>2. Balanced(All', started')
  BY <1>1 DEF Balanced, Settled, All
<1>3. OneDoneEach'
  BY <1>2 DEF OneDoneEach, Balanced, All, Open
<1>4. DiesOnlyAlone'
  BY DEF DiesOnlyAlone
<1>5. SearchIInv'
  BY <1>3, <1>4 DEF SearchIInv
<1>6. \A k \in DOMAIN searches' :
        finished'[searches'[k].id] > finished[searches'[k].id] => Complete(searches'[k], heard'[searches'[k].id])
  BY DEF Settled, All
<1> QED
  BY <1>5, <1>6

LEMMA TasksStep ==
  ASSUME SearchIInv, NEW a, Kept(All, a), Tasks(a), ~dead, UNCHANGED <<search_id, started, dead>>
  PROVE  /\ SearchIInv'
         /\ \A k \in DOMAIN searches' :
              LET sr == searches'[k]
              IN  sr.done /\ finished'[sr.id] > finished[sr.id] => Complete(sr, heard'[sr.id])
<1>1. All \in Records /\ a \in Records
  BY DEF SearchIInv, Kept
<1>2. PICK c : /\ Settled(a, c) /\ All' \in Records
               /\ searches' = c.searches /\ finished' = c.finished
  BY <1>1, TasksSettle
<1>3. Settled(All, c)
  BY <1>1, <1>2, KeptSettled
<1> QED
  BY <1>2, <1>3, SettledStep

\* A request that is answered is, or is not, answerable again.
LEMMA ReceivedKeeps ==
  ASSUME All \in Records, NEW r \in sent
  PROVE  r.to \in Others /\ Kept(All, Received(r))
<1>1. PICK list \in SearchLists, q \in SUBSET Requests, f \in [Targets -> Nat], h \in [Targets -> SUBSET Others] :
        All = RecordOf(list, q, f, h)
  BY RecordFields
<1>2. sent = q
  BY <1>1 DEF All, RecordOf
<1>3. r.to \in Others
  BY <1>2 DEF Requests
<1>4. PICK q2 : q2 = IF dups' > dups THEN q ELSE q \ {r}
  OBVIOUS
<1>5. Received(r) = RecordOf(list, q2, f, h)
  BY <1>1, <1>2, <1>4 DEF Received, RecordOf
<1>6. q2 \in SUBSET Requests
  BY <1>4
<1>7. \A k \in DOMAIN list : SameSearch(list[k], list[k])
  BY ListType DEF SameSearch
<1>8. RecordOf(list, q2, f, h) \in Records
  BY <1>6, RecordType
<1> QED
  BY <1>1, <1>3, <1>5, <1>7, <1>8 DEF Kept, RecordOf

LEMMA SearchFound ==
  ASSUME NEW a \in Records, NEW tid, FindSearch(a, tid) # {}
  PROVE  Min(FindSearch(a, tid)) \in DOMAIN a.searches
<1>1. PICK l \in Nat : DOMAIN a.searches = 1 .. l
  BY ListType DEF Records
<1>2. FindSearch(a, tid) \in SUBSET (1 .. l)
  BY <1>1 DEF FindSearch
<1> QED
  BY <1>1, <1>2, LeastPlace

LEMMA GetPeersReplied_Step ==
  ASSUME SearchIInv, NEW r \in sent, GetPeersReplied(r)
  PROVE  /\ SearchIInv'
         /\ \A k \in DOMAIN searches' :
              LET sr == searches'[k]
              IN  sr.done /\ finished'[sr.id] > finished[sr.id] => Complete(sr, heard'[sr.id])
<1>1. All \in Records
  BY DEF SearchIInv
<1>2. PICK ks : ks = FindSearch(All, r.tid)
  OBVIOUS
<1>3. PICK a : a = IF ks = {} THEN Received(r) ELSE GetPeersReply(Received(r), Min(ks), r.to)
  OBVIOUS
<1>4. Tasks(a) /\ ~dead /\ UNCHANGED <<search_id, started, dead>>
  BY <1>2, <1>3 DEF GetPeersReplied, Receive
<1>5. r.to \in Others /\ Kept(All, Received(r))
  BY <1>1, ReceivedKeeps
<1>6. Received(r) \in Records /\ DOMAIN Received(r).searches = DOMAIN All.searches
  BY <1>1, <1>5, KeptDomain
<1>7. Kept(All, a)
  <2>1. CASE ks = {}
    BY <1>3, <1>5, <2>1
  <2>2. CASE ks # {}
    <3>1. Kept(Received(r), a)
      BY <1>1, <1>2, <1>3, <1>5, <1>6, <2>2, SearchFound, GetPeersReplyKeeps
    <3> QED
      BY <1>1, <1>5, <3>1, KeptThrough
  <2> QED
    BY <2>1, <2>2
<1> QED
  BY <1>4, <1>7, TasksStep

LEMMA AnnounceReplied_Step ==
  ASSUME SearchIInv, NEW r \in sent, AnnounceReplied(r)
  PROVE  /\ SearchIInv'
         /\ \A k \in DOMAIN searches' :
              LET sr == searches'[k]
              IN  sr.done /\ finished'[sr.id] > finished[sr.id] => Complete(sr, heard'[sr.id])
<1>1. All \in Records
  BY DEF SearchIInv
<1>2. PICK ks : ks = FindSearch(All, r.tid)
  OBVIOUS
<1>3. PICK a : a = IF ks = {} THEN Received(r) ELSE AnnounceReply(Received(r), Min(ks), r.to)
  OBVIOUS
<1>4. Tasks(a) /\ ~dead /\ UNCHANGED <<search_id, started, dead>>
  BY <1>2, <1>3 DEF AnnounceReplied, Receive
<1>5. r.to \in Others /\ Kept(All, Received(r))
  BY <1>1, ReceivedKeeps
<1>6. Received(r) \in Records /\ DOMAIN Received(r).searches = DOMAIN All.searches
  BY <1>1, <1>5, KeptDomain
<1>7. Kept(All, a)
  <2>1. CASE ks = {}
    BY <1>3, <1>5, <2>1
  <2>2. CASE ks # {}
    <3>1. Kept(Received(r), a)
      BY <1>1, <1>2, <1>3, <1>5, <1>6, <2>2, SearchFound, AnnounceReplyKeeps
    <3> QED
      BY <1>1, <1>5, <3>1, KeptThrough
  <2> QED
    BY <2>1, <2>2
<1> QED
  BY <1>4, <1>7, TasksStep

LEMMA GarbledReply_Step ==
  ASSUME SearchIInv, NEW r \in sent, GarbledReply(r)
  PROVE  /\ SearchIInv'
         /\ \A k \in DOMAIN searches' :
              LET sr == searches'[k]
              IN  sr.done /\ finished'[sr.id] > finished[sr.id] => Complete(sr, heard'[sr.id])
<1>1. All \in Records
  BY DEF SearchIInv
<1>2. PICK ks : ks = FindSearch(All, r.tid)
  OBVIOUS
<1>3. PICK cut : cut = Cut(Received(r), r.to)
  OBVIOUS
<1>4. PICK a : a = IF ks = {} THEN cut ELSE Replied(cut, Min(ks), r.to)
  OBVIOUS
<1>5. Tasks(a) /\ ~dead /\ UNCHANGED <<search_id, started, dead>>
  BY <1>2, <1>3, <1>4 DEF GarbledReply, Receive
<1>6. r.to \in Others /\ Kept(All, Received(r))
  BY <1>1, ReceivedKeeps
<1>7. Kept(Received(r), cut)
  BY <1>3, <1>6, CutKeeps DEF Kept
<1>8. Kept(All, cut)
  BY <1>1, <1>6, <1>7, KeptThrough
<1>9. cut \in Records /\ DOMAIN cut.searches = DOMAIN All.searches
  BY <1>1, <1>8, KeptDomain
<1>10. Kept(All, a)
  <2>1. CASE ks = {}
    BY <1>4, <1>8, <2>1
  <2>2. CASE ks # {}
    <3>1. Kept(cut, a)
      BY <1>1, <1>2, <1>4, <1>6, <1>9, <2>2, SearchFound, RepliedKeeps
    <3> QED
      BY <1>1, <1>8, <3>1, KeptThrough
  <2> QED
    BY <2>1, <2>2
<1> QED
  BY <1>5, <1>10, TasksStep

LEMMA Pong_Step ==
  ASSUME SearchIInv, NEW from \in Near, Pong(from)
  PROVE  /\ SearchIInv'
         /\ \A k \in DOMAIN searches' :
              LET sr == searches'[k]
              IN  sr.done /\ finished'[sr.id] > finished[sr.id] => Complete(sr, heard'[sr.id])
<1>1. from \in Others
  BY DhtSearchAssumption
<1>2. Kept(All, AddSearchNode(All, from))
  BY <1>1, AddSearchNodeKeeps DEF SearchIInv
<1>3. Tasks(AddSearchNode(All, from)) /\ ~dead /\ UNCHANGED <<search_id, started, dead>>
  BY DEF Pong, Unchanged
<1> QED
  BY <1>2, <1>3, TasksStep

LEMMA BrokenReply_Step ==
  ASSUME SearchIInv, NEW from, BrokenReply(from)
  PROVE  /\ SearchIInv'
         /\ \A k \in DOMAIN searches' :
              LET sr == searches'[k]
              IN  sr.done /\ finished'[sr.id] > finished[sr.id] => Complete(sr, heard'[sr.id])
<1>1. Kept(All, Cut(All, from))
  BY CutKeeps DEF SearchIInv
<1>2. Tasks(Cut(All, from)) /\ ~dead /\ UNCHANGED <<search_id, started, dead>>
  BY DEF BrokenReply
<1> QED
  BY <1>1, <1>2, TasksStep

LEMMA Idle_Step ==
  ASSUME SearchIInv, Idle
  PROVE  /\ SearchIInv'
         /\ \A k \in DOMAIN searches' :
              LET sr == searches'[k]
              IN  sr.done /\ finished'[sr.id] > finished[sr.id] => Complete(sr, heard'[sr.id])
<1>1. Kept(All, All)
  BY KeptSelf DEF SearchIInv
<1>2. Tasks(All) /\ ~dead /\ UNCHANGED <<search_id, started, dead>>
  BY DEF Idle, Unchanged
<1> QED
  BY <1>1, <1>2, TasksStep

LEMMA Tick_Step ==
  ASSUME SearchIInv, Tick
  PROVE  /\ SearchIInv'
         /\ \A k \in DOMAIN searches' :
              LET sr == searches'[k]
              IN  sr.done /\ finished'[sr.id] > finished[sr.id] => Complete(sr, heard'[sr.id])
<1>1. PICK list \in SearchLists, q \in SUBSET Requests, f \in [Targets -> Nat], h \in [Targets -> SUBSET Others] :
        All = RecordOf(list, q, f, h)
  BY RecordFields DEF SearchIInv
<1>2. searches = list /\ sent = q /\ finished = f /\ heard = h
  BY <1>1 DEF All, RecordOf
<1>3. PICK r : r = [k \in DOMAIN searches |->
                      [searches[k] EXCEPT !.step_age = Older(@, ExpireTime),
                                          !.nodes = [i \in DOMAIN @ |-> OlderNode(@[i])]]]
  OBVIOUS
<1>4. ASSUME NEW k \in DOMAIN list PROVE SameSearch(list[k], r[k])
  <2>1. PICK sr \in SearchStates : sr = list[k]
    BY ListType
  <2>2. PICK nodes \in NodeLists : nodes = sr.nodes
    BY DEF SearchStates
  <2>3. PICK older : older = [i \in DOMAIN nodes |-> OlderNode(nodes[i])]
    OBVIOUS
  <2>4. older \in NodeLists
    <3>1. \A i \in DOMAIN nodes : nodes[i] \in NodeStates
      BY DEF NodeLists
    <3>2. \A i \in DOMAIN nodes : older[i] \in NodeStates /\ older[i].id = nodes[i].id
      BY <2>3, <3>1, OlderNodeKeeps
    <3>3. DOMAIN older = DOMAIN nodes /\ older = [i \in DOMAIN older |-> older[i]]
      BY <2>3
    <3> QED
      BY <3>2, <3>3, ChangedNodes
  <2>5. PICK age \in Nat : age = Older(sr.step_age, ExpireTime)
    BY Limits, OlderAge DEF SearchStates
  <2>6. r[k] = [sr EXCEPT !.step_age = age, !.nodes = older]
    BY <1>2, <1>3, <2>1, <2>2, <2>3, <2>5
  <2> QED
    BY <2>1, <2>4, <2>5, <2>6 DEF SameSearch, SearchStates
<1>5. DOMAIN r = DOMAIN list /\ r = [k \in DOMAIN r |-> r[k]]
  BY <1>2, <1>3
<1>6. PICK a : a = RecordOf(r, q, f, h)
  OBVIOUS
<1>7. Kept(All, a)
  BY <1>1, <1>4, <1>5, <1>6, KeptSome
<1>8. All' = a /\ a.searches = r /\ a.finished = f
  BY <1>2, <1>3, <1>6 DEF Tick, All, RecordOf
<1>9. a \in Records /\ All \in Records
  BY <1>7 DEF Kept, SearchIInv
<1>10. Settled(All, a)
  BY <1>7, <1>9, SettledSelf, KeptSettled
<1>11. searches' = a.searches /\ finished' = a.finished /\ ~dead /\ UNCHANGED <<search_id, started, dead>>
  BY <1>2, <1>3, <1>8 DEF Tick
<1> QED
  BY <1>8, <1>9, <1>10, <1>11, SettledStep

-----------------------------------------------------------------------------
(* dht_search.                                                             *)

\* A search that begins again has yet to hear of every node it keeps.
LEMMA RestartedSearch ==
  ASSUME NEW sr \in SearchStates
  PROVE  /\ Restarted(sr) \in SearchStates /\ Restarted(sr).id = sr.id
         /\ ~Restarted(sr).done /\ Unasked(Restarted(sr).nodes)
<1> DEFINE silent == {n \in Range(sr.nodes) : n.pinged >= MaxPings \/ n.reply_age > ReplyTime}
<1>1. PICK ids : ids = {n.id : n \in silent}
  OBVIOUS
<1>2. PICK kept \in SearchStates : kept = FlushNodes(sr, ids) /\ kept.id = sr.id
  BY FlushKeeps DEF SameSearch
<1>3. PICK nodes \in NodeLists : nodes = kept.nodes
  BY DEF SearchStates
<1>4. PICK again : again = [i \in DOMAIN nodes |-> AskAgain(nodes[i])]
  OBVIOUS
<1>5. \A i \in DOMAIN nodes : nodes[i] \in NodeStates
  BY DEF NodeLists
<1>6. \A i \in DOMAIN nodes : /\ again[i] \in NodeStates /\ again[i].id = nodes[i].id
                              /\ ~again[i].replied /\ again[i].pinged = 0
  <2> SUFFICES ASSUME NEW i \in DOMAIN nodes
               PROVE  /\ again[i] \in NodeStates /\ again[i].id = nodes[i].id
                      /\ ~again[i].replied /\ again[i].pinged = 0
    OBVIOUS
  <2>1. PICK n \in NodeStates : n = nodes[i]
    BY <1>5
  <2>2. again[i] = AskAgain(n)
    BY <1>4, <2>1
  <2>3. AskAgain(n) \in NodeStates /\ AskAgain(n).id = n.id
    BY NodeChanges
  <2>4. ~AskAgain(n).replied /\ AskAgain(n).pinged = 0
    BY DEF AskAgain, NodeStates
  <2> QED
    BY <2>1, <2>2, <2>3, <2>4
<1>7. again \in NodeLists /\ DOMAIN again = DOMAIN nodes
  <2>1. DOMAIN again = DOMAIN nodes /\ again = [i \in DOMAIN again |-> again[i]]
    BY <1>4
  <2> QED
    BY <1>6, <2>1, ChangedNodes
<1>8. Unasked(again)
  <2>1. DOMAIN again = 1 .. Len(again)
    BY <1>7 DEF NodeLists
  <2> QED
    BY <1>6, <1>7, <2>1 DEF Unasked
<1>9. Restarted(sr) = [kept EXCEPT !.done = FALSE, !.nodes = again]
  BY <1>1, <1>2, <1>3, <1>4 DEF Restarted
<1>10. PICK new : new = [kept EXCEPT !.done = FALSE, !.nodes = again]
  OBVIOUS
<1>11. new \in SearchStates /\ new.id = kept.id /\ ~new.done /\ new.nodes = again
  BY <1>7, <1>10 DEF SearchStates
<1> QED
  BY <1>2, <1>8, <1>9, <1>10, <1>11

LEMMA FreshSearch ==
  ASSUME NEW t \in Targets, search_id \in Nat
  PROVE  /\ Fresh(t) \in SearchStates /\ Fresh(t).id = t
         /\ ~Fresh(t).done /\ Unasked(Fresh(t).nodes)
<1>1. PICK age \in Nat : age = ExpireTime + 1
  BY Limits
<1>2. <<>> \in NodeLists /\ Unasked(<<>>)
  BY DEF NodeLists, Unasked
<1>3. Fresh(t) = [tid |-> search_id, id |-> t, port |-> 0, done |-> FALSE, step_age |-> age, nodes |-> <<>>]
  BY <1>1 DEF Fresh
<1> QED
  BY <1>2, <1>3 DEF SearchStates

\* The list with which the search of t begins, at place k; whether another
\* target is searched for is as it was.
Begins(list, before, k, t) ==
  /\ list \in SearchLists /\ k \in DOMAIN list
  /\ {j \in DOMAIN list : list[j].id = t} = {k}
  /\ ~list[k].done /\ Unasked(list[k].nodes)
  /\ \A u \in Targets \ {t} : Open(list, u) = {} <=> Open(before, u) = {}

\* new_search, when no slot can be taken.
LEMMA PrependBegins ==
  ASSUME NEW list \in SearchLists, NEW t \in Targets, NEW sr \in SearchStates, sr.id = t, ~sr.done, Unasked(sr.nodes),
         \A j \in DOMAIN list : list[j].id # t
  PROVE  Begins([k \in 1 .. Len(list) + 1 |-> IF k = 1 THEN sr ELSE list[k - 1]], list, 1, t)
<1>1. PICK l \in Nat : /\ Len(list) = l /\ DOMAIN list = 1 .. l
                       /\ \A k \in 1 .. l : list[k] \in SearchStates /\ list[k].id \in Targets
  BY ListType
<1>2. \A i, j \in 1 .. l : list[i].id = list[j].id => i = j
  BY <1>1 DEF SearchLists
<1>3. PICK m \in Nat : m = l + 1
  OBVIOUS
<1>4. PICK new : new = [k \in 1 .. m |-> IF k = 1 THEN sr ELSE list[k - 1]]
  OBVIOUS
<1>5. \A k \in 1 .. m : k # 1 => k - 1 \in 1 .. l
  BY <1>3
<1>6. \A k \in 1 .. m : new[k] \in SearchStates
  BY <1>1, <1>4, <1>5
<1>7. new \in [1 .. m -> SearchStates] /\ DOMAIN new = 1 .. m
  BY <1>4, <1>6
<1>8. new \in Seq(SearchStates) /\ Len(new) = m
  BY <1>7
<1>9. new[1] = sr /\ 1 \in 1 .. m
  BY <1>3, <1>4
<1>10. \A k \in 1 .. m : k # 1 => new[k] = list[k - 1]
  BY <1>4
<1>11. \A k \in 1 .. m : k # 1 => new[k].id # t
  BY <1>1, <1>5, <1>10
<1>12. ASSUME NEW i \in 1 .. m, NEW j \in 1 .. m, new[i].id = new[j].id PROVE i = j
  <2>1. CASE i = 1 \/ j = 1
    BY <1>9, <1>11, <1>12, <2>1
  <2>2. CASE i # 1 /\ j # 1
    <3>1. i - 1 = j - 1
      BY <1>2, <1>5, <1>10, <1>12, <2>2
    <3> QED
      BY <3>1
  <2> QED
    BY <2>1, <2>2
<1>13. new \in SearchLists
  BY <1>8, <1>12 DEF SearchLists
<1>14. {j \in DOMAIN new : new[j].id = t} = {1}
  BY <1>7, <1>9, <1>11
<1>15. ASSUME NEW u \in Targets \ {t} PROVE Open(new, u) = {} <=> Open(list, u) = {}
  <2>1. ASSUME NEW j \in Open(list, u) PROVE Open(new, u) # {}
    <3>1. PICK k \in 1 .. m : k = j + 1 /\ k # 1 /\ k - 1 = j
      BY <1>1, <1>3 DEF Open
    <3>2. new[k] = list[j]
      BY <1>10, <3>1
    <3> QED
      BY <1>7, <3>2 DEF Open
  <2>2. ASSUME NEW k \in Open(new, u) PROVE Open(list, u) # {}
    <3>1. k \in 1 .. m /\ k # 1
      BY <1>7, <1>9 DEF Open
    <3>2. k - 1 \in 1 .. l /\ new[k] = list[k - 1]
      BY <1>5, <1>10, <3>1
    <3> QED
      BY <1>1, <3>2 DEF Open
  <2> QED
    BY <2>1, <2>2
<1>16. Begins(new, list, 1, t)
  BY <1>7, <1>9, <1>13, <1>14, <1>15 DEF Begins
<1> QED
  BY <1>1, <1>3, <1>4, <1>16

\* The search at place k becomes that of t: it was that of t, or one of a
\* target that is done while t has none.
LEMMA ReplaceBegins ==
  ASSUME NEW list \in SearchLists, NEW t \in Targets, NEW sr \in SearchStates, sr.id = t, ~sr.done, Unasked(sr.nodes),
         NEW k \in DOMAIN list, list[k].id = t \/ list[k].done,
         \A j \in DOMAIN list : list[j].id = t => j = k
  PROVE  Begins([list EXCEPT ![k] = sr], list, k, t)
<1>1. PICK l \in Nat : /\ Len(list) = l /\ DOMAIN list = 1 .. l
                       /\ \A j \in 1 .. l : list[j] \in SearchStates /\ list[j].id \in Targets
  BY ListType
<1>2. \A i, j \in 1 .. l : list[i].id = list[j].id => i = j
  BY <1>1 DEF SearchLists
<1>3. PICK new : new = [list EXCEPT ![k] = sr]
  OBVIOUS
<1>4. /\ DOMAIN new = 1 .. l /\ new[k] = sr /\ k \in 1 .. l
      /\ \A j \in 1 .. l : j # k => new[j] = list[j]
  BY <1>1, <1>3
<1>5. new \in [1 .. l -> SearchStates]
  BY <1>1, <1>3
<1>6. new \in Seq(SearchStates) /\ Len(new) = l
  BY <1>5
<1>7. \A j \in 1 .. l : j # k => new[j].id # t
  BY <1>1, <1>4
<1>8. \A i, j \in 1 .. l : new[i].id = new[j].id => i = j
  BY <1>2, <1>4, <1>7
<1>9. new \in SearchLists
  BY <1>6, <1>8 DEF SearchLists
<1>10. {j \in DOMAIN new : new[j].id = t} = {k}
  BY <1>4, <1>7
<1>11. \A u \in Targets \ {t} : Open(new, u) = Open(list, u)
  BY <1>1, <1>4 DEF Open
<1> QED
  BY <1>3, <1>4, <1>9, <1>10, <1>11 DEF Begins

\* The lists with which a search begins (dht_search, new_search).
StartLists(t) ==
  LET old == {k \in DOMAIN searches : searches[k].id = t}
  IN  IF old = {} THEN NewSearch(t) ELSE {[searches EXCEPT ![Min(old)] = Restarted(@)]}

LEMMA StartListsBegin ==
  ASSUME searches \in SearchLists, search_id \in Nat, NEW t \in Targets, NEW list \in StartLists(t)
  PROVE  \E k : Begins(list, searches, k, t)
<1>1. PICK l \in Nat : Len(searches) = l /\ DOMAIN searches = 1 .. l
  BY ListType
<1>2. PICK old : old = {k \in DOMAIN searches : searches[k].id = t}
  OBVIOUS
<1>3. Fresh(t) \in SearchStates /\ Fresh(t).id = t /\ ~Fresh(t).done /\ Unasked(Fresh(t).nodes)
  BY FreshSearch
<1>4. CASE old = {} /\ Expirable = {}
  <2>1. \A j \in DOMAIN searches : searches[j].id # t
    BY <1>2, <1>4
  <2>2. list = [k \in 1 .. Len(searches) + 1 |-> IF k = 1 THEN Fresh(t) ELSE searches[k - 1]]
    BY <1>2, <1>4 DEF StartLists, NewSearch
  <2> QED
    BY <1>3, <2>1, <2>2, PrependBegins
<1>5. CASE old = {} /\ Expirable # {}
  <2>1. PICK k \in Expirable : list = [searches EXCEPT ![k] = Fresh(t)]
    BY <1>2, <1>5 DEF StartLists, NewSearch
  <2>2. k \in DOMAIN searches /\ searches[k].done
    BY <2>1 DEF Expirable
  <2>3. \A j \in DOMAIN searches : searches[j].id = t => j = k
    BY <1>2, <1>5
  <2> QED
    BY <1>3, <2>1, <2>2, <2>3, ReplaceBegins
<1>6. CASE old # {}
  <2>1. old \in SUBSET (1 .. l)
    BY <1>1, <1>2
  <2>2. PICK k \in DOMAIN searches : k = Min(old) /\ searches[k].id = t
    BY <1>2, <1>6, <2>1, LeastPlace
  <2>3. PICK sr \in SearchStates : sr = Restarted(searches[k]) /\ sr.id = t /\ ~sr.done /\ Unasked(sr.nodes)
    <3>1. searches[k] \in SearchStates
      BY ListType
    <3> QED
      BY <2>2, <3>1, RestartedSearch
  <2>4. \A j \in DOMAIN searches : searches[j].id = t => j = k
    BY <1>1, <2>2 DEF SearchLists
  <2>5. list = [searches EXCEPT ![k] = sr]
    BY <1>2, <1>6, <2>2, <2>3 DEF StartLists
  <2> QED
    BY <2>2, <2>3, <2>4, <2>5, ReplaceBegins
<1> QED
  BY <1>4, <1>5, <1>6

\* A second call while the search goes on is not a new one.
LEMMA AgainOpen ==
  ASSUME searches \in SearchLists, NEW t \in Targets,
         NEW old, old = {k \in DOMAIN searches : searches[k].id = t}
  PROVE  (old # {} /\ ~searches[Min(old)].done) <=> Open(searches, t) # {}
<1>1. PICK l \in Nat : Len(searches) = l /\ DOMAIN searches = 1 .. l
  BY ListType
<1>2. CASE old = {}
  BY <1>2 DEF Open
<1>3. CASE old # {}
  <2>1. old \in SUBSET (1 .. l)
    BY <1>1
  <2>2. PICK k : k \in DOMAIN searches /\ k = Min(old) /\ searches[k].id = t
    BY <1>3, <2>1, LeastPlace
  <2>3. \A j \in DOMAIN searches : searches[j].id = t => j = k
    BY <1>1, <2>2 DEF SearchLists
  <2> QED
    BY <1>3, <2>2, <2>3 DEF Open
<1> QED
  BY <1>2, <1>3

\* The nodes of the routing table, one after the other.
LEMMA NearbySequence ==
  ASSUME NEW nearby \in SUBSET Near
  PROVE  SetToSeq(nearby) \in Seq(Others) /\ Range(SetToSeq(nearby)) = nearby
<1>1. nearby \in SUBSET Others /\ IsFiniteSet(Others)
  BY DhtSearchAssumption
<1>2. IsFiniteSet(nearby)
  BY <1>1, FS_Subset
<1>3. PICK n \in Nat : n = Cardinality(nearby)
  BY <1>2, FS_CardinalityType
<1>4. ExistsBijection(1 .. n, nearby)
  BY <1>2, <1>3, FS_CardinalityType
<1>5. PICK f \in [1 .. n -> nearby] : \A i, j \in 1 .. n : f[i] = f[j] => i = j
  BY <1>4 DEF ExistsBijection, Bijection, Injection, IsInjective
<1>6. IsInjective(f)
  BY <1>5 DEF IsInjective
<1>7. SetToSeq(nearby) = CHOOSE g \in [1 .. n -> nearby] : IsInjective(g)
  BY <1>3 DEF SetToSeq
<1>8. PICK g \in [1 .. n -> nearby] : g = SetToSeq(nearby) /\ IsInjective(g)
  BY <1>6, <1>7
<1>9. g \in Seq(Others)
  BY <1>1, <1>8
<1>10. g \in Surjection(1 .. n, nearby)
  <2>1. g \in Injection(1 .. n, nearby)
    BY <1>8 DEF Injection
  <2>2. Cardinality(1 .. n) = Cardinality(nearby)
    BY <1>3, FS_Interval
  <2> QED
    BY <1>2, <2>1, <2>2, FS_Injection
<1>11. Range(g) = nearby
  BY <1>8, <1>10 DEF Surjection, Range
<1> QED
  BY <1>8, <1>9, <1>11

\* A search that was not done takes a step.
LEMMA PutSettles ==
  ASSUME NEW a \in Records, NEW k \in DOMAIN a.searches, ~a.searches[k].done,
         NEW s \in StepStates, s.sr.id = a.searches[k].id, s.done = s.sr.done,
         s.done => \A ids : Complete(s.sr, ids)
  PROVE  Settled(a, Put(a, k, s)) /\ Put(a, k, s).searches = [a.searches EXCEPT ![k] = s.sr]
<1>1. PICK list \in SearchLists, q \in SUBSET Requests, f \in [Targets -> Nat], h \in [Targets -> SUBSET Others] :
        a = RecordOf(list, q, f, h)
  BY RecordFields
<1>2. a.searches = list /\ a.finished = f /\ k \in DOMAIN list
  BY <1>1 DEF RecordOf
<1>3. PICK l \in Nat : /\ Len(list) = l /\ DOMAIN list = 1 .. l
                       /\ \A j \in 1 .. l : list[j] \in SearchStates /\ list[j].id \in Targets
  BY ListType
<1>4. \A i, j \in 1 .. l : list[i].id = list[j].id => i = j
  BY <1>3 DEF SearchLists
<1>5. PICK t \in Targets : t = s.sr.id /\ t = list[k].id
  BY <1>2, <1>3
<1>6. s.sr \in SearchStates /\ s.sent \in SUBSET Requests /\ s.done \in BOOLEAN
  BY DEF StepStates
<1>7. PICK list2 : list2 = [list EXCEPT ![k] = s.sr]
  OBVIOUS
<1>8. list2 \in SearchLists
  BY <1>2, <1>5, <1>6, <1>7, ChangedSearch
<1>9. PICK x \in Nat : x = IF s.done THEN f[t] + 1 ELSE f[t]
  <2>1. f[t] \in Nat
    OBVIOUS
  <2> QED
    BY <2>1
<1>10. PICK f2 : f2 = [f EXCEPT ![t] = x]
  OBVIOUS
<1>11. f2 \in [Targets -> Nat] /\ f2[t] = x /\ \A u \in Targets : u # t => f2[u] = f[u]
  BY <1>10
<1>12. Put(a, k, s) = RecordOf(list2, s.sent, f2, h)
  <2>1. f2 = [f EXCEPT ![s.sr.id] = IF s.done THEN @ + 1 ELSE @]
    BY <1>5, <1>9, <1>10
  <2>2. Put(a, k, s) = [a EXCEPT !.searches = list2, !.sent = s.sent, !.finished = f2]
    BY <1>2, <1>7, <2>1 DEF Put
  <2> QED
    BY <1>1, <2>2 DEF RecordOf
<1>13. PICK c : c = Put(a, k, s)
  OBVIOUS
<1>14. c \in Records /\ c.searches = list2 /\ c.finished = f2
  <2>1. RecordOf(list2, s.sent, f2, h) \in Records
    BY <1>6, <1>8, <1>11, RecordType
  <2> QED
    BY <1>12, <1>13, <2>1 DEF RecordOf
<1>15. DOMAIN list2 = 1 .. l /\ list2[k] = s.sr /\ \A j \in 1 .. l : j # k => list2[j] = list[j]
  BY <1>2, <1>3, <1>7
<1>16. \A j \in 1 .. l : j # k => list2[j].id # t
  BY <1>2, <1>3, <1>4, <1>5, <1>15
<1>17. ASSUME NEW u \in Targets
       PROVE  f2[u] + Cardinality(Open(list2, u)) = f[u] + Cardinality(Open(list, u))
  <2>1. f[u] \in Nat /\ f2[u] \in Nat
    BY <1>11
  <2>2. CASE u # t
    <3>1. Open(list2, u) = Open(list, u)
      BY <1>2, <1>3, <1>5, <1>15, <2>2 DEF Open
    <3> QED
      BY <1>11, <2>2, <3>1
  <2>3. CASE u = t
    <3>1. k \in Open(list, u)
      BY <1>2, <1>5, <2>3 DEF Open
    <3>2. Cardinality(Open(list, u)) = 1
      BY <3>1, OpenCount
    <3>3. CASE s.done
      <4>1. Open(list2, u) = {}
        BY <1>15, <1>16, <2>3, <3>3 DEF Open
      <4>2. Cardinality(Open(list2, u)) = 0
        BY <1>8, <4>1, OpenCount
      <4> QED
        BY <1>9, <1>11, <2>1, <2>3, <3>2, <3>3, <4>2
    <3>4. CASE ~s.done
      <4>1. k \in Open(list2, u)
        BY <1>2, <1>3, <1>5, <1>15, <2>3, <3>4 DEF Open
      <4>2. Cardinality(Open(list2, u)) = 1
        BY <1>8, <4>1, OpenCount
      <4> QED
        BY <1>9, <1>11, <2>1, <2>3, <3>2, <3>4, <4>2
    <3> QED
      BY <3>3, <3>4
  <2> QED
    BY <2>2, <2>3
<1>18. ASSUME NEW j \in DOMAIN list2, f2[list2[j].id] > f[list2[j].id]
       PROVE  \A ids : Complete(list2[j], ids)
  <2>1. PICK u \in Targets : u = list2[j].id
    BY <1>8, ListType
  <2>2. f[u] \in Nat /\ f2[u] > f[u]
    BY <1>18, <2>1
  <2>3. u = t
    BY <1>11, <2>2
  <2>4. s.done
    BY <1>9, <1>11, <2>2, <2>3
  <2>5. j = k
    BY <1>15, <1>16, <2>1, <2>3
  <2> QED
    BY <1>15, <2>4, <2>5
<1>19. Settled(a, c)
  BY <1>2, <1>14, <1>17, <1>18 DEF Settled
<1> QED
  BY <1>2, <1>7, <1>13, <1>14, <1>19

LEMMA Search_Step ==
  ASSUME SearchIInv, NEW caller, NEW t \in Targets, NEW port \in Ports, NEW nearby \in SUBSET Near,
         Search(caller, t, port, nearby)
  PROVE  /\ SearchIInv'
         /\ \A k \in DOMAIN searches' :
              LET sr == searches'[k]
              IN  sr.done /\ finished'[sr.id] > finished[sr.id] => Complete(sr, heard'[sr.id])
<1>1. PICK before \in SearchLists, q \in SUBSET Requests, f \in [Targets -> Nat], h \in [Targets -> SUBSET Others] :
        All = RecordOf(before, q, f, h)
  BY RecordFields DEF SearchIInv
<1>2. searches = before /\ sent = q /\ finished = f /\ heard = h
  BY <1>1 DEF All, RecordOf
<1>3. PICK old : old = {k \in DOMAIN searches : searches[k].id = t}
  OBVIOUS
<1>4. /\ search_id' = IF old = {} THEN (search_id + 1) % TidMod ELSE search_id
      /\ started' = [started EXCEPT ![t] = IF old # {} /\ ~searches[Min(old)].done THEN @ ELSE @ + 1]
  BY <1>3 DEF Search
<1>5. PICK list \in StartLists(t) :
        LET k == Min({j \in DOMAIN list : list[j].id = t})
            filled == InsertNodes([list[k] EXCEPT !.port = port], SetToSeq(nearby))
            s == Step([sr |-> filled, sent |-> sent, done |-> FALSE])
            a == Put([All EXCEPT !.searches = list], k, s)
        IN  /\ searches' = a.searches /\ sent' = a.sent /\ finished' = a.finished
            /\ heard' = [u \in Targets |->
                 IF u = t THEN Members(list[k]) \cup nearby
                 ELSE IF \E j \in DOMAIN list : list[j].id = u THEN heard[u] ELSE {}]
            /\ dead' = CallbackDies(caller, s.done)
  BY <1>3 DEF Search, StartLists
<1>6. PICK k : Begins(list, searches, k, t)
  BY <1>1, <1>2, StartListsBegin DEF SearchIInv
<1>7. /\ list \in SearchLists /\ k \in DOMAIN list /\ list[k].id = t /\ ~list[k].done /\ Unasked(list[k].nodes)
      /\ {j \in DOMAIN list : list[j].id = t} = {k}
      /\ \A u \in Targets \ {t} : Open(list, u) = {} <=> Open(searches, u) = {}
  BY <1>6 DEF Begins
<1>8. Min({j \in DOMAIN list : list[j].id = t}) = k
  <2>1. PICK l \in Nat : DOMAIN list = 1 .. l
    BY <1>7, ListType
  <2>2. {k} \in SUBSET (1 .. l)
    BY <1>7, <2>1
  <2>3. Min({k}) \in {k}
    BY <2>2, LeastPlace
  <2> QED
    BY <1>7, <2>3
<1>9. list[k] \in SearchStates
  BY <1>7, ListType
<1>10. PICK begun : begun = [list[k] EXCEPT !.port = port]
  OBVIOUS
<1>11. begun \in SearchStates /\ begun.id = t /\ ~begun.done /\ Unasked(begun.nodes)
  BY <1>7, <1>9, <1>10 DEF SearchStates
<1>12. PICK filled : filled = InsertNodes(begun, SetToSeq(nearby))
  OBVIOUS
<1>13. filled \in SearchStates /\ filled.id = t /\ ~filled.done /\ Unasked(filled.nodes)
  BY <1>11, <1>12, NearbySequence, InsertNodesKeeps DEF SameSearch
<1>14. PICK s0 : s0 = [sr |-> filled, sent |-> sent, done |-> FALSE]
  OBVIOUS
<1>15. s0 \in StepStates /\ ~s0.done /\ ~s0.sr.done /\ s0.sr.id = t /\ Unasked(s0.sr.nodes)
  BY <1>2, <1>13, <1>14 DEF StepStates
<1>16. PICK s : s = Step(s0)
  OBVIOUS
<1>17. /\ s \in StepStates /\ s.sr.id = t /\ s.done = s.sr.done
       /\ s.done => (\A ids : Complete(s.sr, ids)) /\ s.sr.nodes = <<>>
  BY <1>15, <1>16, StepEffect DEF StepOutcome
<1>18. PICK a : a = [All EXCEPT !.searches = list]
  OBVIOUS
<1>19. a = RecordOf(list, q, f, h)
  BY <1>1, <1>18 DEF RecordOf
<1>20. a \in Records /\ a.searches = list /\ a.finished = f
  BY <1>7, <1>19, RecordType DEF RecordOf
<1>21. PICK c : c = Put(a, k, s)
  OBVIOUS
<1>22. Settled(a, c) /\ c.searches = [list EXCEPT ![k] = s.sr]
  BY <1>7, <1>17, <1>20, <1>21, PutSettles
<1>23. PICK heard2 : heard2 = [u \in Targets |->
                 IF u = t THEN Members(list[k]) \cup nearby
                 ELSE IF \E j \in DOMAIN list : list[j].id = u THEN heard[u] ELSE {}]
  OBVIOUS
<1>24. /\ searches' = c.searches /\ sent' = c.sent /\ finished' = c.finished /\ heard' = heard2
       /\ dead' = CallbackDies(caller, s.done)
  BY <1>5, <1>8, <1>10, <1>12, <1>14, <1>16, <1>18, <1>21, <1>23
<1>25. heard2 \in [Targets -> SUBSET Others]
  <2>1. Members(list[k]) \cup nearby \in SUBSET Others
    BY <1>9, MembersOthers, DhtSearchAssumption
  <2>2. \A u \in Targets : heard[u] \in SUBSET Others
    BY <1>2
  <2> QED
    BY <1>23, <2>1, <2>2
<1>26. All' \in Records
  <2>1. PICK list2 \in SearchLists, q2 \in SUBSET Requests, f2 \in [Targets -> Nat], h2 \in [Targets -> SUBSET Others] :
          c = RecordOf(list2, q2, f2, h2)
    BY <1>22, RecordFields DEF Settled
  <2>2. searches' = list2 /\ sent' = q2 /\ finished' = f2
    BY <1>24, <2>1 DEF RecordOf
  <2>3. All' = RecordOf(list2, q2, f2, heard2)
    BY <1>24, <2>2 DEF All, RecordOf
  <2> QED
    BY <1>25, <2>3, RecordType
<1>27. search_id' \in Nat
  BY <1>4, Limits DEF SearchIInv
<1>28. started' \in [Targets -> Nat]
  <2>1. started \in [Targets -> Nat] /\ started[t] \in Nat
    BY DEF SearchIInv
  <2>2. PICK x \in Nat : x = started[t] + 1
    BY <2>1
  <2>3. started' = started \/ started' = [started EXCEPT ![t] = x]
    BY <1>4, <2>1, <2>2
  <2> QED
    BY <2>1, <2>3
<1>29. ASSUME NEW u \in Targets
       PROVE  started'[u] = c.finished[u] + Cardinality(Open(c.searches, u))
  <2>1. started[u] = f[u] + Cardinality(Open(searches, u))
    BY <1>1, <1>2, BalancedNow DEF SearchIInv, Balanced, RecordOf
  <2>2. c.finished[u] + Cardinality(Open(c.searches, u)) = f[u] + Cardinality(Open(list, u))
    BY <1>20, <1>22 DEF Settled
  <2>3. started \in [Targets -> Nat] /\ f[u] \in Nat
    BY DEF SearchIInv
  <2>4. CASE u # t
    <3>1. Cardinality(Open(list, u)) = Cardinality(Open(searches, u))
      <4>1. CASE Open(searches, u) = {}
        <5>1. Open(list, u) = {}
          BY <1>7, <2>4, <4>1
        <5> QED
          BY <4>1, <5>1
      <4>2. CASE Open(searches, u) # {}
        <5>1. Open(list, u) # {}
          BY <1>7, <2>4, <4>2
        <5>2. Cardinality(Open(list, u)) = 1
          BY <1>7, <5>1, OpenCount
        <5>3. Cardinality(Open(searches, u)) = 1
          BY <1>2, <4>2, OpenCount
        <5> QED
          BY <5>2, <5>3
      <4> QED
        BY <4>1, <4>2
    <3>2. started'[u] = started[u]
      BY <1>4, <2>3, <2>4
    <3> QED
      BY <2>1, <2>2, <3>1, <3>2
  <2>5. CASE u = t
    <3>1. Open(list, t) # {}
      BY <1>7 DEF Open
    <3>2. Cardinality(Open(list, t)) = 1
      BY <1>7, <3>1, OpenCount
    <3>3. (old # {} /\ ~searches[Min(old)].done) <=> Open(searches, t) # {}
      BY <1>2, <1>3, AgainOpen
    <3>4. CASE Open(searches, t) # {}
      <4>1. Cardinality(Open(searches, t)) = 1
        BY <1>2, <3>4, OpenCount
      <4>2. started'[t] = started[t]
        BY <1>4, <2>3, <3>3, <3>4
      <4> QED
        BY <2>1, <2>2, <2>5, <3>2, <4>1, <4>2
    <3>5. CASE Open(searches, t) = {}
      <4>1. Cardinality(Open(searches, t)) = 0
        BY <1>2, <3>5, OpenCount
      <4>2. started'[t] = started[t] + 1
        BY <1>4, <2>3, <3>3, <3>5
      <4> QED
        BY <2>1, <2>2, <2>3, <2>5, <3>2, <4>1, <4>2
    <3> QED
      BY <3>4, <3>5
  <2> QED
    BY <2>4, <2>5
<1>30. OneDoneEach'
  BY <1>24, <1>29 DEF OneDoneEach, Open
<1>31. DiesOnlyAlone'
  <2> SUFFICES ASSUME dead' PROVE \E j \in DOMAIN searches' : searches'[j].done /\ searches'[j].nodes = <<>>
    BY DEF DiesOnlyAlone
  <2>1. s.done
    BY <1>17, <1>24 DEF CallbackDies, StepStates
  <2>2. k \in DOMAIN searches' /\ searches'[k] = s.sr
    BY <1>7, <1>22, <1>24
  <2> QED
    BY <1>17, <2>1, <2>2
<1>32. SearchIInv'
  BY <1>26, <1>27, <1>28, <1>30, <1>31 DEF SearchIInv
<1>33. \A j \in DOMAIN searches' :
         finished'[searches'[j].id] > finished[searches'[j].id] => Complete(searches'[j], heard'[searches'[j].id])
  BY <1>2, <1>20, <1>22, <1>24 DEF Settled
<1> QED
  BY <1>32, <1>33

-----------------------------------------------------------------------------
(* The list of a search is, in order, the closest of the nodes offered.    *)

\* What the list of a search for t is, when the nodes of ids were offered.
Nearest(nodes, t, ids) ==
  /\ \A i, j \in 1 .. Len(nodes) : i < j => Closer(nodes[i].id, nodes[j].id, t)
  /\ \A i \in 1 .. Len(nodes) : nodes[i].id \in ids
  /\ Len(nodes) <= SearchNodes
  /\ \A id \in ids : \/ \E i \in 1 .. Len(nodes) : nodes[i].id = id
                     \/ /\ Len(nodes) = SearchNodes
                        /\ \A i \in 1 .. Len(nodes) : Closer(nodes[i].id, id, t)

\* The nodes are those of another list, in its order.
SameIds(nodes, new) ==
  Len(new) = Len(nodes) /\ \A i \in 1 .. Len(nodes) : new[i].id = nodes[i].id

LEMMA SameIdsNearest ==
  ASSUME NEW nodes, NEW new, SameIds(nodes, new), NEW t, NEW ids, Nearest(nodes, t, ids)
  PROVE  Nearest(new, t, ids)
BY DEF SameIds, Nearest

\* A node that is not in the list goes before the first that is further.
LEMMA InsertedNearest ==
  ASSUME NEW nodes \in NodeLists, NEW t \in Targets, NEW ids \in SUBSET Others, Nearest(nodes, t, ids),
         NEW n \in NodeStates, \A j \in 1 .. Len(nodes) : nodes[j].id # n.id,
         NEW i \in 1 .. Len(nodes) + 1,
         \A j \in 1 .. Len(nodes) : j < i => ~Closer(n.id, nodes[j].id, t),
         i <= Len(nodes) => Closer(n.id, nodes[i].id, t)
  PROVE  Nearest(Inserted(nodes, i, n), t, ids \cup {n.id})
<1>1. PICK l \in Nat : l = Len(nodes) /\ nodes \in Seq(NodeStates)
  BY DEF NodeLists
<1>2. PICK r : r = Inserted(nodes, i, n)
  OBVIOUS
<1>3. PICK m \in Nat :
        /\ Len(r) = m /\ m <= l + 1 /\ m <= SearchNodes /\ (m = l + 1 \/ m = SearchNodes)
        /\ \A j \in 1 .. m : r[j] = IF j < i THEN nodes[j] ELSE IF j = i THEN n ELSE nodes[j - 1]
  <2>1. \E m \in Nat :
          /\ Inserted(nodes, i, n) \in Seq(NodeStates) /\ Len(Inserted(nodes, i, n)) = m /\ m <= Len(nodes) + 1
          /\ m <= SearchNodes /\ (m = Len(nodes) + 1 \/ m = SearchNodes)
          /\ \A j \in 1 .. m : Inserted(nodes, i, n)[j] =
               IF j < i THEN nodes[j] ELSE IF j = i THEN n ELSE nodes[j - 1]
    <3>1. nodes \in Seq(NodeStates)
      BY <1>1
    <3> QED
      BY <3>1, InsertedNodes
  <2> QED
    BY <1>1, <1>2, <2>1
<1>4. /\ \A j, k \in 1 .. l : j < k => Closer(nodes[j].id, nodes[k].id, t)
      /\ \A j \in 1 .. l : nodes[j].id \in ids
      /\ l <= SearchNodes
      /\ \A id \in ids : \/ \E j \in 1 .. l : nodes[j].id = id
                         \/ l = SearchNodes /\ \A j \in 1 .. l : Closer(nodes[j].id, id, t)
  BY <1>1 DEF Nearest
<1>5. t \in Ids /\ n.id \in Ids /\ ids \subseteq Ids /\ \A j \in 1 .. l : nodes[j].id \in Ids
  BY <1>4, DhtSearchAssumption DEF NodeStates
<1>6. i \in 1 .. l + 1 /\ SearchNodes \in Nat /\ m >= l
  BY <1>1, <1>3, <1>4, Limits
<1>7. \A j \in 1 .. m : /\ j < i => r[j] = nodes[j] /\ j \in 1 .. l
                        /\ j = i => r[j] = n
                        /\ j > i => r[j] = nodes[j - 1] /\ j - 1 \in 1 .. l
  BY <1>3, <1>6
<1>8. \A j \in 1 .. l : j < i => Closer(nodes[j].id, n.id, t)
  BY <1>1, <1>5, CloserTotal
<1>9. \A j \in 1 .. l : j >= i => Closer(n.id, nodes[j].id, t)
  <2> SUFFICES ASSUME NEW j \in 1 .. l, j >= i PROVE Closer(n.id, nodes[j].id, t)
    OBVIOUS
  <2>1. i \in 1 .. l /\ Closer(n.id, nodes[i].id, t)
    BY <1>1, <1>6
  <2>2. CASE j = i
    BY <2>1, <2>2
  <2>3. CASE j # i
    <3>1. Closer(nodes[i].id, nodes[j].id, t)
      BY <1>4, <1>6, <2>1, <2>3
    <3> QED
      BY <1>5, <2>1, <3>1, CloserTransitive
  <2> QED
    BY <2>2, <2>3
<1>10. ASSUME NEW j \in 1 .. m, NEW k \in 1 .. m, j < k PROVE Closer(r[j].id, r[k].id, t)
  <2>1. CASE k < i
    BY <1>4, <1>6, <1>7, <1>10, <2>1
  <2>2. CASE k = i
    BY <1>6, <1>7, <1>8, <1>10, <2>2
  <2>3. CASE k > i
    <3>1. r[k] = nodes[k - 1] /\ k - 1 \in 1 .. l
      BY <1>7, <2>3
    <3>2. CASE j < i
      <4>1. r[j] = nodes[j] /\ j \in 1 .. l /\ j < k - 1
        BY <1>6, <1>7, <2>3, <3>2
      <4> QED
        BY <1>4, <3>1, <4>1
    <3>3. CASE j = i
      <4>1. k - 1 >= i
        BY <1>6, <2>3
      <4> QED
        BY <1>7, <1>9, <3>1, <3>3, <4>1
    <3>4. CASE j > i
      <4>1. r[j] = nodes[j - 1] /\ j - 1 \in 1 .. l
        BY <1>7, <3>4
      <4>2. j - 1 < k - 1
        BY <1>10
      <4> QED
        BY <1>4, <3>1, <4>1, <4>2
    <3> QED
      BY <1>6, <3>2, <3>3, <3>4
  <2> QED
    BY <1>6, <2>1, <2>2, <2>3
<1>11. \A j \in 1 .. m : r[j].id \in ids \cup {n.id}
  <2> SUFFICES ASSUME NEW j \in 1 .. m PROVE r[j].id \in ids \cup {n.id}
    OBVIOUS
  <2>1. j < i \/ j = i \/ j > i
    BY <1>6
  <2> QED
    BY <1>4, <1>7, <2>1
\* A node that is closer than x, or at its place or after, when x falls off.
<1>12. ASSUME NEW x \in Ids, \A j \in 1 .. l : Closer(nodes[j].id, x, t) \/ (j = l /\ nodes[j].id = x /\ m = l),
              i <= l
       PROVE  \A j \in 1 .. m : m = l => Closer(r[j].id, x, t)
  <2> SUFFICES ASSUME NEW j \in 1 .. m, m = l PROVE Closer(r[j].id, x, t)
    OBVIOUS
  <2>1. CASE j < i
    <3>1. r[j] = nodes[j] /\ j \in 1 .. l /\ j # l
      BY <1>6, <1>7, <1>12, <2>1
    <3> QED
      BY <1>12, <3>1
  <2>2. CASE j > i
    <3>1. r[j] = nodes[j - 1] /\ j - 1 \in 1 .. l /\ j - 1 # l
      BY <1>6, <1>7, <1>12, <2>2
    <3> QED
      BY <1>12, <3>1
  <2>3. CASE j = i
    <3>1. r[j] = n /\ i \in 1 .. l /\ Closer(n.id, nodes[i].id, t)
      BY <1>6, <1>7, <1>9, <1>12, <2>3
    <3>2. CASE Closer(nodes[i].id, x, t)
      BY <1>5, <3>1, <3>2, CloserTransitive
    <3>3. CASE nodes[i].id = x
      BY <3>1, <3>3
    <3> QED
      BY <1>12, <3>1, <3>2, <3>3
  <2> QED
    BY <1>6, <2>1, <2>2, <2>3
<1>13. ASSUME NEW x \in ids \cup {n.id}
       PROVE  \/ \E j \in 1 .. m : r[j].id = x
              \/ m = SearchNodes /\ \A j \in 1 .. m : Closer(r[j].id, x, t)
  <2>1. CASE x = n.id
    <3>1. CASE i <= m
      BY <1>6, <1>7, <2>1, <3>1
    <3>2. CASE i > m
      <4>1. m = l /\ m = SearchNodes /\ i = l + 1
        BY <1>3, <1>6, <3>2
      <4>2. i > l /\ i \in Int
        BY <1>6, <3>2, <4>1
      <4>3. \A j \in 1 .. m : j < i /\ j \in 1 .. l
        <5> SUFFICES ASSUME NEW j \in 1 .. l PROVE j < i
          BY <4>1
        <5> QED
          BY <4>2
      <4> QED
        BY <1>7, <1>8, <2>1, <4>1, <4>3
    <3> QED
      BY <1>6, <3>1, <3>2
  <2>2. CASE x \in ids /\ \E p \in 1 .. l : nodes[p].id = x
    <3>1. PICK p \in 1 .. l : nodes[p].id = x
      BY <2>2
    <3>2. CASE p < i
      <4>1. p \in 1 .. m /\ r[p] = nodes[p]
        BY <1>6, <1>7, <3>2
      <4> QED
        BY <3>1, <4>1
    <3>3. CASE p >= i /\ p + 1 <= m
      <4>1. PICK o \in 1 .. m : o = p + 1 /\ o > i /\ o - 1 = p
        BY <1>6, <3>3
      <4>2. r[o] = nodes[p]
        BY <1>7, <4>1
      <4> QED
        BY <3>1, <4>2
    <3>4. CASE p >= i /\ p + 1 > m
      <4>1. p = l /\ m = l /\ m = SearchNodes /\ i <= l
        BY <1>3, <1>6, <3>4
      <4>2. \A j \in 1 .. l : Closer(nodes[j].id, x, t) \/ (j = l /\ nodes[j].id = x /\ m = l)
        <5> SUFFICES ASSUME NEW j \in 1 .. l, j # l PROVE Closer(nodes[j].id, x, t)
          BY <3>1, <4>1
        <5>1. j < l
          OBVIOUS
        <5> QED
          BY <1>4, <3>1, <4>1, <5>1
      <4>3. x \in Ids
        BY <1>5, <2>2
      <4> QED
        BY <1>12, <4>1, <4>2, <4>3
    <3> QED
      BY <1>6, <3>2, <3>3, <3>4
  <2>3. CASE x \in ids /\ ~\E p \in 1 .. l : nodes[p].id = x
    <3>1. l = SearchNodes /\ \A j \in 1 .. l : Closer(nodes[j].id, x, t)
      BY <1>4, <2>3
    <3>2. m = l
      BY <1>3, <1>6, <3>1
    <3>3. CASE i <= l
      <4>1. x \in Ids
        BY <1>5, <2>3
      <4>2. \A j \in 1 .. m : Closer(r[j].id, x, t)
        BY <1>12, <3>1, <3>2, <3>3, <4>1
      <4> QED
        BY <3>1, <3>2, <4>2
    <3>4. CASE i > l
      <4>1. \A j \in 1 .. m : j < i /\ j \in 1 .. l
        BY <1>6, <3>2, <3>4
      <4> QED
        BY <1>7, <3>1, <3>2, <4>1
    <3> QED
      BY <1>6, <3>3, <3>4
  <2> QED
    BY <2>1, <2>2, <2>3
<1> QED
  BY <1>2, <1>3, <1>10, <1>11, <1>13 DEF Nearest

\* A node that is offered, and is in the list or not (insert_search_node).
LEMMA InsertNodeNearest ==
  ASSUME NEW sr \in SearchStates, NEW id \in Others, NEW ids \in SUBSET Others,
         Nearest(sr.nodes, sr.id, ids)
  PROVE  Nearest(InsertNode(sr, id).nodes, sr.id, ids \cup {id})
<1>1. PICK nodes \in NodeLists : nodes = sr.nodes
  BY DEF SearchStates
<1>2. PICK t \in Targets : t = sr.id
  BY DEF SearchStates
<1>3. PICK l \in Nat : l = Len(nodes) /\ DOMAIN nodes = 1 .. l /\ nodes \in Seq(NodeStates)
  BY DEF NodeLists
<1>4. CASE PlaceOf(sr, id) # {}
  <2>1. InsertNode(sr, id) = sr
    BY <1>4 DEF InsertNode
  <2>2. \E i \in 1 .. Len(nodes) : nodes[i].id = id
    BY <1>1, <1>3, <1>4 DEF PlaceOf
  <2>3. Nearest(nodes, t, ids \cup {id})
    BY <1>1, <1>2, <2>2 DEF Nearest
  <2> QED
    BY <1>1, <1>2, <2>1, <2>3
<1>5. CASE PlaceOf(sr, id) = {}
  <2>1. PICK n \in NodeStates : n = NewSearchNode(id) /\ n.id = id
    BY NewNode
  <2>2. \A j \in 1 .. l : nodes[j].id # n.id
    BY <1>1, <1>3, <1>5, <2>1 DEF PlaceOf
  <2>3. PICK further : further = {i \in DOMAIN sr.nodes : Closer(id, sr.nodes[i].id, sr.id)}
    OBVIOUS
  <2>4. \A j \in 1 .. l : j \in further <=> Closer(n.id, nodes[j].id, t)
    BY <1>1, <1>2, <1>3, <2>1, <2>3
  <2>5. further \in SUBSET (1 .. l)
    BY <1>1, <1>3, <2>3
  <2>6. PICK i : i = IF further = {} THEN l + 1 ELSE Min(further)
    OBVIOUS
  <2>7. /\ i \in 1 .. l + 1
        /\ \A j \in 1 .. l : j < i => j \notin further
        /\ i <= l => i \in further
    <3>1. CASE further = {}
      BY <1>3, <2>6, <3>1
    <3>2. CASE further # {}
      <4>1. Min(further) \in further /\ \A y \in further : Min(further) <= y
        BY <1>3, <2>5, <3>2, LeastPlace
      <4>2. i \in 1 .. l /\ i \in further /\ \A y \in further : i <= y
        BY <2>5, <2>6, <3>2, <4>1
      <4> QED
        BY <1>3, <4>2
    <3> QED
      BY <3>1, <3>2
  <2>8. PICK r : r = Inserted(nodes, i, n)
    OBVIOUS
  <2>9. Nearest(r, t, ids \cup {id})
    <3>1. i \in 1 .. Len(nodes) + 1
      BY <1>3, <2>7
    <3>2. Nearest(nodes, t, ids) /\ \A j \in 1 .. Len(nodes) : nodes[j].id # n.id
      BY <1>1, <1>2, <1>3, <2>2
    <3>3. \A j \in 1 .. Len(nodes) : j < i => ~Closer(n.id, nodes[j].id, t)
      BY <1>3, <2>4, <2>7
    <3>4. i <= Len(nodes) => Closer(n.id, nodes[i].id, t)
      BY <1>3, <2>4, <2>7
    <3>5. Nearest(Inserted(nodes, i, n), t, ids \cup {n.id})
      BY <3>1, <3>2, <3>3, <3>4, InsertedNearest
    <3> QED
      BY <2>1, <2>8, <3>5
  <2>10. InsertNode(sr, id) = [sr EXCEPT !.nodes = r]
    BY <1>1, <1>3, <1>5, <2>1, <2>3, <2>6, <2>8 DEF InsertNode
  <2>11. InsertNode(sr, id).nodes = r
    BY <2>10 DEF SearchStates
  <2> QED
    BY <1>2, <2>9, <2>11
<1> QED
  BY <1>4, <1>5

LEMMA InsertNodesNearest ==
  ASSUME NEW sr \in SearchStates, NEW list \in Seq(Others), NEW ids \in SUBSET Others,
         Nearest(sr.nodes, sr.id, ids)
  PROVE  Nearest(InsertNodes(sr, list).nodes, sr.id, ids \cup Range(list))
<1>1. PICK n \in Nat : n = Len(list)
  OBVIOUS
<1>2. \A k \in 0 .. n : k < n => list[k + 1] \in Others
  BY <1>1
<1>3. PICK run : run = InsertRun(sr, list, n)
  OBVIOUS
<1>4. run[0] = sr /\ \A k \in 0 .. n : k < n => run[k + 1] = InsertNode(run[k], list[k + 1])
  <2>1. IsInsertRun(run, sr, list, n)
    BY <1>3, InsertRunSteps
  <2>2. \A k \in 0 .. n : k < n => k + 1 \in 0 .. n /\ k + 1 # 0 /\ (k + 1) - 1 = k
    OBVIOUS
  <2> QED
    BY <2>1, <2>2 DEF IsInsertRun
<1> DEFINE First(k) == ids \cup {list[j] : j \in 1 .. k}
<1> DEFINE good == {k \in 0 .. n : /\ run[k] \in SearchStates /\ run[k].id = sr.id
                                   /\ Nearest(run[k].nodes, sr.id, First(k))}
<1>5. 0 \in good
  <2>1. First(0) = ids
    OBVIOUS
  <2> HIDE DEF First
  <2>2. run[0] \in SearchStates /\ run[0].id = sr.id /\ Nearest(run[0].nodes, sr.id, First(0))
    BY <1>4, <2>1
  <2> QED
    BY <2>2
<1>6. ASSUME NEW k \in good, k < n PROVE k + 1 \in good
  <2>1. PICK s \in SearchStates : s = run[k] /\ s.id = sr.id
    OBVIOUS
  <2>2. PICK id \in Others : id = list[k + 1]
    BY <1>2, <1>6
  <2>3. run[k + 1] = InsertNode(s, id)
    BY <1>4, <1>6, <2>1, <2>2
  <2>4. First(k) \in SUBSET Others
    BY <1>1, <1>6
  <2>5. Nearest(s.nodes, s.id, First(k))
    BY <2>1
  <2>6. First(k + 1) = First(k) \cup {id}
    <3>1. \A j : j \in 1 .. k + 1 <=> j \in 1 .. k \/ j = k + 1
      BY <1>6
    <3> QED
      BY <2>2, <3>1
  <2> HIDE DEF First
  <2>7. Nearest(InsertNode(s, id).nodes, s.id, First(k) \cup {id})
    BY <2>4, <2>5, InsertNodeNearest
  <2>8. InsertNode(s, id) \in SearchStates /\ InsertNode(s, id).id = s.id
    BY InsertNodeKeeps DEF SameSearch
  <2>9. k + 1 \in 0 .. n
    BY <1>6
  <2> QED
    BY <2>1, <2>3, <2>6, <2>7, <2>8, <2>9
<1>7. n \in good
  <2>1. good \in SUBSET (0 .. n) /\ \A k \in good : k < n => k + 1 \in good
    BY <1>6
  <2> HIDE DEF good
  <2>2. good = 0 .. n
    BY <1>5, <2>1, StepInduction
  <2> QED
    BY <2>2
<1>8. First(n) = ids \cup Range(list)
  BY <1>1 DEF Range
<1> QED
  BY <1>1, <1>3, <1>7, <1>8, InsertNodesIsRun

\* Nodes change where they are.
LEMMA ChangedNodeIds ==
  ASSUME NEW nodes \in NodeLists, NEW i, NEW n, n.id = nodes[i].id
  PROVE  SameIds(nodes, [nodes EXCEPT ![i] = n])
<1>1. PICK l \in Nat : l = Len(nodes) /\ DOMAIN nodes = 1 .. l
  BY DEF NodeLists
<1>2. PICK r : r = [nodes EXCEPT ![i] = n]
  OBVIOUS
<1>3. DOMAIN r = 1 .. l /\ \A j \in 1 .. l : r[j].id = nodes[j].id
  BY <1>1, <1>2
<1>4. Len(r) = l
  BY <1>1, <1>2, <1>3
<1> QED
  BY <1>1, <1>2, <1>3, <1>4 DEF SameIds

LEMMA InsertRepliedNearest ==
  ASSUME NEW sr \in SearchStates, NEW id \in Others, NEW ids \in SUBSET Others,
         Nearest(sr.nodes, sr.id, ids)
  PROVE  Nearest(InsertReplied(sr, id).nodes, sr.id, ids \cup {id})
<1>1. PICK longer \in SearchStates : longer = InsertNode(sr, id) /\ longer.id = sr.id
  BY InsertNodeKeeps DEF SameSearch
<1>2. PICK nodes \in NodeLists : nodes = longer.nodes
  BY DEF SearchStates
<1>3. Nearest(nodes, sr.id, ids \cup {id})
  BY <1>1, <1>2, InsertNodeNearest
<1>4. PICK at : at = PlaceOf(longer, id)
  OBVIOUS
<1>5. CASE at = {}
  BY <1>1, <1>2, <1>3, <1>4, <1>5 DEF InsertReplied
<1>6. CASE at # {}
  <2>1. PICK i \in DOMAIN nodes : i = Min(at)
    BY <1>2, <1>4, <1>6, Places
  <2>2. nodes[i] \in NodeStates
    BY DEF NodeLists
  <2>3. PICK n \in NodeStates : n = RepliedNode(nodes[i]) /\ n.id = nodes[i].id
    BY <2>2, NodeChanges
  <2>4. SameIds(nodes, [nodes EXCEPT ![i] = n])
    BY <2>3, ChangedNodeIds
  <2>5. InsertReplied(sr, id) = [longer EXCEPT !.nodes = [nodes EXCEPT ![i] = n]]
    BY <1>1, <1>2, <1>4, <1>6, <2>1, <2>3 DEF InsertReplied
  <2>6. InsertReplied(sr, id).nodes = [nodes EXCEPT ![i] = n]
    BY <2>5 DEF SearchStates
  <2> QED
    BY <1>3, <2>4, <2>6, SameIdsNearest
<1> QED
  BY <1>5, <1>6

\* What is left of a list is in order (flush_search_node).
LEMMA FlushNearest ==
  ASSUME NEW sr \in SearchStates, NEW gone, NEW ids, Nearest(sr.nodes, sr.id, ids)
  PROVE  Nearest(FlushNodes(sr, gone).nodes, sr.id, Members(FlushNodes(sr, gone)))
<1>1. PICK nodes \in NodeLists : nodes = sr.nodes
  BY DEF SearchStates
<1>2. PICK l \in Nat : l = Len(nodes) /\ nodes \in Seq(NodeStates)
  BY DEF NodeLists
<1>3. PICK places : places = {i \in DOMAIN sr.nodes : sr.nodes[i].id \in gone}
  OBVIOUS
<1>4. PICK q : q = Without(nodes, places)
  OBVIOUS
<1>5. PICK m \in Nat : KeptOf(q, m, nodes, places, l, NodeStates)
  BY <1>2, <1>4, WithoutKeeps DEF KeptInv
<1>6. m = Len(q) /\ DOMAIN q = 1 .. m /\ m <= l
  BY <1>5 DEF KeptOf
<1>7. PICK left : left = FlushNodes(sr, gone)
  OBVIOUS
<1>8. left.nodes = q
  <2>1. left = [sr EXCEPT !.nodes = q]
    BY <1>1, <1>3, <1>4, <1>7 DEF FlushNodes
  <2> QED
    BY <2>1 DEF SearchStates
<1>9. Members(left) = {q[i].id : i \in 1 .. m}
  BY <1>6, <1>8 DEF Members
<1>10. l <= SearchNodes /\ \A i, j \in 1 .. l : i < j => Closer(nodes[i].id, nodes[j].id, sr.id)
  BY <1>1, <1>2 DEF Nearest
<1>11. ASSUME NEW i1 \in 1 .. m, NEW i2 \in 1 .. m, i1 < i2 PROVE Closer(q[i1].id, q[i2].id, sr.id)
  <2>1. PICK j1 \in 1 .. l, j2 \in 1 .. l : j1 < j2 /\ q[i1] = nodes[j1] /\ q[i2] = nodes[j2]
    BY <1>5, <1>11 DEF KeptOf
  <2> QED
    BY <1>10, <2>1
<1>12. m <= SearchNodes
  BY <1>6, <1>10, Limits
<1>13. Nearest(q, sr.id, Members(left))
  BY <1>6, <1>9, <1>11, <1>12 DEF Nearest
<1> QED
  BY <1>7, <1>8, <1>13

\* The requests of a search, and its steps, leave the nodes where they are.
LEMMA SameIdsSelf ==
  ASSUME NEW nodes PROVE SameIds(nodes, nodes)
BY DEF SameIds

\* All nodes of a list change, and keep their ids.
LEMMA ChangedNodesIds ==
  ASSUME NEW nodes \in NodeLists, NEW r, DOMAIN r = DOMAIN nodes, r = [i \in DOMAIN r |-> r[i]],
         \A i \in DOMAIN nodes : r[i] \in NodeStates /\ r[i].id = nodes[i].id
  PROVE  SameIds(nodes, r)
<1>1. Len(r) = Len(nodes)
  BY ChangedNodes
<1>2. DOMAIN nodes = 1 .. Len(nodes)
  BY DEF NodeLists
<1> QED
  BY <1>1, <1>2 DEF SameIds

LEMMA AskIds ==
  ASSUME NEW s \in StepStates, NEW i
  PROVE  SameIds(s.sr.nodes, Ask(s, i).sr.nodes)
<1>1. CASE ~(i \in DOMAIN s.sr.nodes /\ Askable(s.sr.nodes[i]))
  BY <1>1, SameIdsSelf DEF Ask
<1>2. CASE i \in DOMAIN s.sr.nodes /\ Askable(s.sr.nodes[i])
  <2>1. PICK sr \in SearchStates, q \in SUBSET Requests, d \in BOOLEAN : s = [sr |-> sr, sent |-> q, done |-> d]
    BY DEF StepStates
  <2>2. PICK nodes \in NodeLists : nodes = sr.nodes
    BY DEF SearchStates
  <2>3. nodes[i] \in NodeStates
    BY <1>2, <2>1, <2>2 DEF NodeLists
  <2>4. PICK n \in NodeStates : n = PingedNode(nodes[i]) /\ n.id = nodes[i].id
    BY <2>3, NodeChanges
  <2>5. PICK r : r = [nodes EXCEPT ![i] = n]
    OBVIOUS
  <2>6. PICK q2 : q2 = q \cup {Request("get_peers", sr, i)}
    OBVIOUS
  <2>7. PICK new : new = [sr EXCEPT !.nodes = r]
    OBVIOUS
  <2>8. Ask(s, i) = [sr |-> new, sent |-> q2, done |-> d]
    BY <1>2, <2>1, <2>2, <2>4, <2>5, <2>6, <2>7 DEF Ask
  <2>9. new.nodes = r
    BY <2>7 DEF SearchStates
  <2>10. SameIds(nodes, r)
    BY <2>4, <2>5, ChangedNodeIds
  <2> QED
    BY <2>1, <2>2, <2>8, <2>9, <2>10
<1> QED
  BY <1>1, <1>2

LEMMA AskAnyIds ==
  ASSUME NEW s \in StepStates
  PROVE  SameIds(s.sr.nodes, AskAny(s).sr.nodes)
BY AskIds, SameIdsSelf DEF AskAny

LEMMA JoinNearest ==
  ASSUME NEW s \in StepStates, NEW id \in Others, NEW ids \in SUBSET Others,
         Nearest(s.sr.nodes, s.sr.id, ids)
  PROVE  Nearest(Join(s, id).sr.nodes, s.sr.id, ids \cup {id})
<1>1. PICK sr \in SearchStates, q \in SUBSET Requests, d \in BOOLEAN : s = [sr |-> sr, sent |-> q, done |-> d]
  BY DEF StepStates
<1>2. PICK new \in SearchStates : new = InsertNode(sr, id)
  BY InsertNodeKeeps DEF SameSearch
<1>3. Nearest(new.nodes, sr.id, ids \cup {id})
  BY <1>1, <1>2, InsertNodeNearest
<1>4. PICK longer : longer = [s EXCEPT !.sr = InsertNode(@, id)]
  OBVIOUS
<1>5. longer = [sr |-> new, sent |-> q, done |-> d]
  BY <1>1, <1>2, <1>4
<1>6. longer \in StepStates /\ longer.sr = new
  BY <1>5 DEF StepStates
<1>7. \A i : SameIds(new.nodes, Ask(longer, i).sr.nodes)
  BY <1>6, AskIds
<1>8. Join(s, id) = longer \/ \E i : Join(s, id) = Ask(longer, i)
  BY <1>4 DEF Join
<1>9. \A i : Nearest(Ask(longer, i).sr.nodes, sr.id, ids \cup {id})
  BY <1>3, <1>7, SameIdsNearest
<1> QED
  BY <1>1, <1>3, <1>6, <1>8, <1>9

LEMMA StepIds ==
  ASSUME NEW s \in StepStates
  PROVE  SameIds(s.sr.nodes, Step(s).sr.nodes)
<1>1. PICK sr \in SearchStates, q \in SUBSET Requests, d \in BOOLEAN : s = [sr |-> sr, sent |-> q, done |-> d]
  BY DEF StepStates
<1>2. PICK nodes \in NodeLists : nodes = sr.nodes
  BY DEF SearchStates
<1>3. \A i \in DOMAIN nodes : nodes[i] \in NodeStates
  BY DEF NodeLists
<1>4. SameIds(nodes, AskFirst(s).sr.nodes)
  <2>1. CASE s.sr.step_age <= Retransmit
    BY <1>1, <1>2, <2>1, SameIdsSelf DEF AskFirst
  <2>2. CASE ~(s.sr.step_age <= Retransmit)
    <3> DEFINE askable == {i \in DOMAIN s.sr.nodes : Askable(s.sr.nodes[i])}
    <3>1. PICK chosen : chosen = {i \in askable : Cardinality({j \in askable : j < i}) < Inflight}
      OBVIOUS
    <3>2. PICK r : r = [i \in DOMAIN nodes |-> IF i \in chosen THEN PingedNode(nodes[i]) ELSE nodes[i]]
      OBVIOUS
    <3>3. PICK new : new = [sr EXCEPT !.nodes = r, !.step_age = 0]
      OBVIOUS
    <3>4. PICK q2 : q2 = q \cup {Request("get_peers", sr, i) : i \in chosen}
      OBVIOUS
    <3>5. AskFirst(s) = [sr |-> new, sent |-> q2, done |-> d]
      BY <1>1, <1>2, <2>2, <3>1, <3>2, <3>3, <3>4 DEF AskFirst
    <3>6. \A i \in DOMAIN nodes : r[i] \in NodeStates /\ r[i].id = nodes[i].id
      BY <1>3, <3>2, NodeChanges
    <3>7. DOMAIN r = DOMAIN nodes /\ r = [i \in DOMAIN r |-> r[i]]
      BY <3>2
    <3>8. SameIds(nodes, r)
      BY <3>6, <3>7, ChangedNodesIds
    <3>9. new.nodes = r
      BY <3>3 DEF SearchStates
    <3> QED
      BY <3>5, <3>8, <3>9
  <2> QED
    BY <2>1, <2>2
<1>5. SameIds(nodes, Announce(s).sr.nodes)
  <2>1. PICK first : first = LiveFirst(sr)
    OBVIOUS
  <2>2. PICK missing : missing = {i \in first : ~Acked(nodes[i])}
    OBVIOUS
  <2>3. PICK r : r = [i \in DOMAIN nodes |->
                        IF i \in missing THEN PingedNode(nodes[i])
                        ELSE IF i \in first THEN [nodes[i] EXCEPT !.acked = TRUE] ELSE nodes[i]]
    OBVIOUS
  <2>4. PICK done : done = (missing = {})
    OBVIOUS
  <2>5. PICK new : new = [sr EXCEPT !.nodes = r, !.done = done, !.step_age = 0]
    OBVIOUS
  <2>6. PICK q2 : q2 = q \cup {Request("announce_peer", sr, i) : i \in missing}
    OBVIOUS
  <2>7. Announce(s) = [sr |-> new, sent |-> q2, done |-> done]
    BY <1>1, <1>2, <2>1, <2>2, <2>3, <2>4, <2>5, <2>6 DEF Announce
  <2>8. ASSUME NEW i \in DOMAIN nodes PROVE r[i] \in NodeStates /\ r[i].id = nodes[i].id
    <3>1. PICK n \in NodeStates : n = nodes[i]
      BY <1>3
    <3>2. [n EXCEPT !.acked = TRUE] \in NodeStates /\ [n EXCEPT !.acked = TRUE].id = n.id
      BY DEF NodeStates
    <3>3. r[i] \in {PingedNode(n), [n EXCEPT !.acked = TRUE], n}
      BY <2>3, <3>1
    <3> QED
      BY <3>1, <3>2, <3>3, NodeChanges
  <2>9. DOMAIN r = DOMAIN nodes /\ r = [i \in DOMAIN r |-> r[i]]
    BY <2>3
  <2>10. SameIds(nodes, r)
    BY <2>8, <2>9, ChangedNodesIds
  <2>11. new.nodes = r
    BY <2>5 DEF SearchStates
  <2> QED
    BY <2>7, <2>10, <2>11
<1>6. CASE ~AllReplied(s.sr)
  BY <1>1, <1>2, <1>4, <1>6 DEF Step
<1>7. CASE AllReplied(s.sr) /\ s.sr.port # 0
  BY <1>1, <1>2, <1>5, <1>7 DEF Step
<1>8. CASE AllReplied(s.sr) /\ s.sr.port = 0
  <2>1. PICK new : new = [sr EXCEPT !.done = TRUE, !.step_age = 0]
    OBVIOUS
  <2>2. Step(s) = [sr |-> new, sent |-> q, done |-> TRUE]
    BY <1>1, <1>8, <2>1 DEF Step
  <2>3. new.nodes = nodes
    BY <1>2, <2>1 DEF SearchStates
  <2> QED
    BY <1>1, <1>2, <2>2, <2>3, SameIdsSelf
<1> QED
  BY <1>6, <1>7, <1>8

\* ... of all searches of a record.
ListedAs(list, h) ==
  \A k \in DOMAIN list : Nearest(list[k].nodes, list[k].id, h[list[k].id])
Listed(a) == ListedAs(a.searches, a.heard)

LEMMA ListedOne ==
  ASSUME NEW list \in SearchLists, NEW h \in [Targets -> SUBSET Others], ListedAs(list, h),
         NEW k \in DOMAIN list, NEW sr, sr.id = list[k].id, NEW ids, Nearest(sr.nodes, sr.id, ids)
  PROVE  ListedAs([list EXCEPT ![k] = sr], [h EXCEPT ![sr.id] = ids])
<1>1. PICK l \in Nat : /\ Len(list) = l /\ DOMAIN list = 1 .. l
                       /\ \A j \in 1 .. l : list[j].id \in Targets
  BY ListType
<1>2. \A i, j \in 1 .. l : list[i].id = list[j].id => i = j
  BY <1>1 DEF SearchLists
<1>3. PICK new : new = [list EXCEPT ![k] = sr]
  OBVIOUS
<1>4. PICK h2 : h2 = [h EXCEPT ![sr.id] = ids]
  OBVIOUS
<1>5. DOMAIN new = 1 .. l /\ new[k] = sr /\ \A j \in 1 .. l : j # k => new[j] = list[j]
  BY <1>1, <1>3
<1>6. h2[sr.id] = ids /\ \A t \in Targets : t # sr.id => h2[t] = h[t]
  BY <1>1, <1>4
<1>7. ASSUME NEW j \in 1 .. l PROVE Nearest(new[j].nodes, new[j].id, h2[new[j].id])
  <2>1. CASE j = k
    BY <1>5, <1>6, <2>1
  <2>2. CASE j # k
    <3>1. new[j] = list[j] /\ list[j].id \in Targets /\ list[j].id # sr.id
      BY <1>1, <1>2, <1>5, <2>2
    <3>2. Nearest(list[j].nodes, list[j].id, h[list[j].id])
      BY <1>1 DEF ListedAs
    <3> QED
      BY <1>6, <3>1, <3>2
  <2> QED
    BY <2>1, <2>2
<1> QED
  BY <1>3, <1>4, <1>5, <1>7 DEF ListedAs

LEMMA PutListed ==
  ASSUME NEW a \in Records, Listed(a), NEW k \in DOMAIN a.searches,
         NEW s, s.sr.id = a.searches[k].id, SameIds(a.searches[k].nodes, s.sr.nodes)
  PROVE  Listed(Put(a, k, s))
<1>1. PICK list \in SearchLists, q \in SUBSET Requests, f \in [Targets -> Nat], h \in [Targets -> SUBSET Others] :
        a = RecordOf(list, q, f, h)
  BY RecordFields
<1>2. a.searches = list /\ a.heard = h /\ a.finished = f
  BY <1>1 DEF RecordOf
<1>3. PICK new : new = [list EXCEPT ![k] = s.sr]
  OBVIOUS
<1>4. Put(a, k, s).searches = new /\ Put(a, k, s).heard = h
  <2>1. PICK f2 : f2 = [f EXCEPT ![s.sr.id] = IF s.done THEN @ + 1 ELSE @]
    OBVIOUS
  <2>2. Put(a, k, s) = [a EXCEPT !.searches = new, !.sent = s.sent, !.finished = f2]
    BY <1>2, <1>3, <2>1 DEF Put
  <2> QED
    BY <1>1, <2>2 DEF RecordOf
<1>5. Nearest(list[k].nodes, list[k].id, h[list[k].id]) /\ list[k].id \in Targets
  BY <1>2, ListType DEF Listed, ListedAs
<1>6. Nearest(s.sr.nodes, s.sr.id, h[list[k].id])
  BY <1>2, <1>5, SameIdsNearest
<1>7. ListedAs(new, [h EXCEPT ![s.sr.id] = h[list[k].id]])
  BY <1>2, <1>3, <1>6, ListedOne DEF Listed
<1>8. [h EXCEPT ![s.sr.id] = h[list[k].id]] = h
  BY <1>2, <1>5
<1> QED
  BY <1>4, <1>7, <1>8 DEF Listed

LEMMA OfferListed ==
  ASSUME NEW a \in Records, Listed(a), NEW k \in DOMAIN a.searches, NEW ids \in Seq(Others)
  PROVE  Listed(Offer(a, k, ids))
<1>1. PICK list \in SearchLists, q \in SUBSET Requests, f \in [Targets -> Nat], h \in [Targets -> SUBSET Others] :
        a = RecordOf(list, q, f, h)
  BY RecordFields
<1>2. a.searches = list /\ a.heard = h /\ list[k] \in SearchStates /\ list[k].id \in Targets
  BY <1>1, ListType DEF RecordOf
<1>3. PICK sr : sr = InsertNodes(list[k], ids) /\ sr.id = list[k].id
  BY <1>2, InsertNodesKeeps DEF SameSearch
<1>4. Nearest(list[k].nodes, list[k].id, h[list[k].id]) /\ h[list[k].id] \in SUBSET Others
  BY <1>2 DEF Listed, ListedAs
<1>5. PICK more : more = h[list[k].id] \cup Range(ids)
  OBVIOUS
<1>6. Nearest(sr.nodes, sr.id, more)
  BY <1>2, <1>3, <1>4, <1>5, InsertNodesNearest
<1>7. ListedAs([list EXCEPT ![k] = sr], [h EXCEPT ![sr.id] = more])
  BY <1>2, <1>3, <1>6, ListedOne DEF Listed
<1>8. PICK list2 : list2 = [list EXCEPT ![k] = sr]
  OBVIOUS
<1>9. PICK h2 : h2 = [h EXCEPT ![sr.id] = more]
  OBVIOUS
<1>10. Offer(a, k, ids) = [a EXCEPT !.searches = list2, !.heard = h2]
  BY <1>2, <1>3, <1>5, <1>8, <1>9 DEF Offer
<1>11. Offer(a, k, ids).searches = list2 /\ Offer(a, k, ids).heard = h2
  BY <1>1, <1>10 DEF RecordOf
<1> QED
  BY <1>7, <1>8, <1>9, <1>11 DEF Listed

LEMMA RepliedListed ==
  ASSUME NEW a \in Records, Listed(a), NEW k \in DOMAIN a.searches, NEW id \in Others
  PROVE  Listed(Replied(a, k, id))
<1>1. PICK list \in SearchLists, q \in SUBSET Requests, f \in [Targets -> Nat], h \in [Targets -> SUBSET Others] :
        a = RecordOf(list, q, f, h)
  BY RecordFields
<1>2. a.searches = list /\ a.heard = h /\ list[k] \in SearchStates /\ list[k].id \in Targets
  BY <1>1, ListType DEF RecordOf
<1>3. PICK sr : sr = InsertReplied(list[k], id) /\ sr.id = list[k].id
  BY <1>2, InsertRepliedKeeps DEF SameSearch
<1>4. Nearest(list[k].nodes, list[k].id, h[list[k].id]) /\ h[list[k].id] \in SUBSET Others
  BY <1>2 DEF Listed, ListedAs
<1>5. PICK more : more = h[list[k].id] \cup {id}
  OBVIOUS
<1>6. Nearest(sr.nodes, sr.id, more)
  BY <1>2, <1>3, <1>4, <1>5, InsertRepliedNearest
<1>7. ListedAs([list EXCEPT ![k] = sr], [h EXCEPT ![sr.id] = more])
  BY <1>2, <1>3, <1>6, ListedOne DEF Listed
<1>8. PICK list2 : list2 = [list EXCEPT ![k] = sr]
  OBVIOUS
<1>9. PICK h2 : h2 = [h EXCEPT ![sr.id] = more]
  OBVIOUS
<1>10. Replied(a, k, id) = [a EXCEPT !.searches = list2, !.heard = h2]
  BY <1>2, <1>3, <1>5, <1>8, <1>9 DEF Replied
<1>11. Replied(a, k, id).searches = list2 /\ Replied(a, k, id).heard = h2
  BY <1>1, <1>10 DEF RecordOf
<1> QED
  BY <1>7, <1>8, <1>9, <1>11 DEF Listed

LEMMA AddSearchNodeListed ==
  ASSUME NEW a \in Records, Listed(a), NEW id \in Others
  PROVE  Listed(AddSearchNode(a, id))
<1>1. PICK list \in SearchLists, q \in SUBSET Requests, f \in [Targets -> Nat], h \in [Targets -> SUBSET Others] :
        a = RecordOf(list, q, f, h)
  BY RecordFields
<1>2. a.searches = list /\ a.sent = q /\ a.heard = h
  BY <1>1 DEF RecordOf
<1>3. PICK l \in Nat : /\ Len(list) = l /\ DOMAIN list = 1 .. l
                       /\ \A j \in 1 .. l : list[j] \in SearchStates /\ list[j].id \in Targets
  BY ListType
<1>4. \A i, j \in 1 .. l : list[i].id = list[j].id => i = j
  BY <1>3 DEF SearchLists
<1>5. PICK open : open = {k \in DOMAIN a.searches : HasRoom(a.searches[k])}
  OBVIOUS
<1>6. open \in SUBSET (1 .. l)
  BY <1>2, <1>3, <1>5
<1>7. PICK joined : joined = [k \in open |-> Join(StepOf(a, k), id)]
  OBVIOUS
<1>8. PICK r : r = [k \in DOMAIN list |-> IF k \in open THEN joined[k].sr ELSE list[k]]
  OBVIOUS
<1>9. PICK more : more = UNION {joined[k].sent : k \in open}
  OBVIOUS
<1>10. PICK h2 : h2 = [t \in Targets |-> IF \E k \in open : a.searches[k].id = t THEN h[t] \cup {id} ELSE h[t]]
  OBVIOUS
<1>11. AddSearchNode(a, id) = [a EXCEPT !.searches = r, !.sent = q \cup more, !.heard = h2]
  BY <1>2, <1>5, <1>7, <1>8, <1>9, <1>10 DEF AddSearchNode
<1>12. AddSearchNode(a, id).searches = r /\ AddSearchNode(a, id).heard = h2
  BY <1>1, <1>11 DEF RecordOf
<1>13. ASSUME NEW k \in 1 .. l PROVE Nearest(r[k].nodes, r[k].id, h2[r[k].id])
  <2>1. PICK t \in Targets : t = list[k].id
    BY <1>3
  <2>2. Nearest(list[k].nodes, t, h[t]) /\ h[t] \in SUBSET Others
    BY <1>2, <1>3, <2>1 DEF Listed, ListedAs
  <2>3. CASE k \in open
    <3>1. PICK s \in StepStates : s = StepOf(a, k) /\ s.sr = list[k]
      BY <1>2, <1>3, StepOfType
    <3>2. Nearest(Join(s, id).sr.nodes, t, h[t] \cup {id})
      BY <2>1, <2>2, <3>1, JoinNearest
    <3>3. Join(s, id).sr.id = t
      BY <2>1, <3>1, JoinKeeps DEF SameStep, SameSearch
    <3>4. r[k] = Join(s, id).sr
      BY <1>3, <1>7, <1>8, <2>3, <3>1
    <3>5. h2[t] = h[t] \cup {id}
      BY <1>2, <1>10, <2>1, <2>3
    <3> QED
      BY <3>2, <3>3, <3>4, <3>5
  <2>4. CASE k \notin open
    <3>1. r[k] = list[k]
      BY <1>3, <1>8, <2>4
    <3>2. ~\E j \in open : a.searches[j].id = t
      BY <1>2, <1>4, <1>6, <2>1, <2>4
    <3>3. h2[t] = h[t]
      BY <1>10, <3>2
    <3> QED
      BY <2>1, <2>2, <3>1, <3>3
  <2> QED
    BY <2>3, <2>4
<1>14. DOMAIN r = 1 .. l
  BY <1>3, <1>8
<1> QED
  BY <1>12, <1>13, <1>14 DEF Listed, ListedAs

LEMMA GetPeersReplyListed ==
  ASSUME NEW a \in Records, Listed(a), NEW k \in DOMAIN a.searches, NEW from \in Others
  PROVE  Listed(GetPeersReply(a, k, from))
<1>1. PICK others \in Seq(Others) :
        others = Without(Knows[from], {i \in DOMAIN Knows[from] : Knows[from][i] = MyId})
  BY OthersListed
<1>2. PICK added : added = AddSearchNode(a, from)
  OBVIOUS
<1>3. added \in Records /\ k \in DOMAIN added.searches /\ Listed(added)
  BY <1>2, AddSearchNodeKeeps, AddSearchNodeListed, KeptDomain
<1>4. PICK listed : listed = Offer(added, k, others)
  OBVIOUS
<1>5. listed \in Records /\ k \in DOMAIN listed.searches /\ Listed(listed)
  BY <1>3, <1>4, OfferKeeps, OfferListed, KeptDomain
<1>6. PICK s : s = AskAny(StepOf(listed, k))
  OBVIOUS
<1>7. StepOf(listed, k) \in StepStates /\ StepOf(listed, k).sr = listed.searches[k]
  BY <1>5, StepOfType
<1>8. SameStep(StepOf(listed, k), s) /\ SameIds(listed.searches[k].nodes, s.sr.nodes)
  BY <1>6, <1>7, AskAnyKeeps, AskAnyIds
<1>9. s.sr.id = listed.searches[k].id
  BY <1>7, <1>8 DEF SameStep, SameSearch
<1>10. PICK asked : asked = Put(listed, k, s)
  OBVIOUS
<1>11. asked \in Records /\ k \in DOMAIN asked.searches /\ Listed(asked)
  BY <1>5, <1>8, <1>9, <1>10, PutKeeps, PutListed, KeptDomain
<1>12. GetPeersReply(a, k, from) = Replied(asked, k, from)
  BY <1>1, <1>2, <1>4, <1>6, <1>10 DEF GetPeersReply
<1> QED
  BY <1>11, <1>12, RepliedListed

LEMMA AnnounceReplyListed ==
  ASSUME NEW a \in Records, Listed(a), NEW k \in DOMAIN a.searches, NEW from \in Others
  PROVE  Listed(AnnounceReply(a, k, from))
<1>1. PICK added : added = AddSearchNode(a, from)
  OBVIOUS
<1>2. added \in Records /\ k \in DOMAIN added.searches /\ Listed(added) /\ Kept(a, added)
  BY <1>1, AddSearchNodeKeeps, AddSearchNodeListed, KeptDomain
<1>3. PICK at : at = PlaceOf(added.searches[k], from)
  OBVIOUS
<1>4. PICK acked : acked = IF at = {} THEN added ELSE [added EXCEPT !.searches[k].nodes[Min(at)] = AckNode(@)]
  OBVIOUS
<1>5. acked \in Records /\ k \in DOMAIN acked.searches /\ Listed(acked)
  <2>1. CASE at = {}
    BY <1>2, <1>4, <2>1
  <2>2. CASE at # {}
    <3>1. PICK list \in SearchLists, q \in SUBSET Requests, f \in [Targets -> Nat], h \in [Targets -> SUBSET Others] :
            added = RecordOf(list, q, f, h)
      BY <1>2, RecordFields
    <3>2. added.searches = list /\ added.heard = h
      BY <3>1 DEF RecordOf
    <3>3. PICK sr \in SearchStates : sr = list[k] /\ sr.id \in Targets
      BY <1>2, <3>2, ListType
    <3>4. PICK nodes \in NodeLists : nodes = sr.nodes
      BY DEF SearchStates
    <3>5. PICK i \in DOMAIN nodes : i = Min(at)
      BY <1>3, <2>2, <3>2, <3>3, <3>4, Places
    <3>6. PICK n \in NodeStates : n = AckNode(nodes[i]) /\ n.id = nodes[i].id
      <4>1. nodes[i] \in NodeStates
        BY DEF NodeLists
      <4> QED
        BY <4>1, NodeChanges
    <3>7. PICK r \in NodeLists : r = [nodes EXCEPT ![i] = n]
      BY <3>6, ChangedNode
    <3>8. PICK new : new = [sr EXCEPT !.nodes = r]
      OBVIOUS
    <3>9. SameSearch(sr, new) /\ new.nodes = r /\ new.id = sr.id
      BY <3>8, NewList DEF SameSearch
    <3>10. new = [sr EXCEPT !.nodes[i] = AckNode(@)]
      BY <3>4, <3>6, <3>7, <3>8
    <3>11. PICK list2 : list2 = [list EXCEPT ![k] = new]
      OBVIOUS
    <3>12. list2 = [list EXCEPT ![k].nodes[i] = AckNode(@)]
      BY <3>3, <3>10, <3>11
    <3>13. acked = [added EXCEPT !.searches[k].nodes[i] = AckNode(@)]
      BY <1>4, <2>2, <3>5
    <3>14. acked = [added EXCEPT !.searches = list2]
      BY <3>2, <3>12, <3>13
    <3>15. acked = RecordOf(list2, q, f, h)
      BY <3>1, <3>14 DEF RecordOf
    <3>16. acked.searches = list2 /\ acked.heard = h
      BY <3>15 DEF RecordOf
    <3>17. Kept(added, acked)
      BY <1>2, <3>1, <3>2, <3>3, <3>9, <3>11, <3>15, KeptOne
    <3>18. SameIds(nodes, r)
      BY <3>6, <3>7, ChangedNodeIds
    <3>19. Nearest(r, sr.id, h[sr.id])
      BY <1>2, <3>2, <3>3, <3>4, <3>18, SameIdsNearest DEF Listed, ListedAs
    <3>20. ListedAs(list2, [h EXCEPT ![new.id] = h[sr.id]])
      BY <1>2, <3>2, <3>3, <3>9, <3>11, <3>19, ListedOne DEF Listed
    <3>21. [h EXCEPT ![new.id] = h[sr.id]] = h
      BY <3>3, <3>9
    <3> QED
      BY <1>2, <3>16, <3>17, <3>20, <3>21, KeptDomain DEF Listed
  <2> QED
    BY <2>1, <2>2
<1>6. PICK s : s = AskAny(StepOf(acked, k))
  OBVIOUS
<1>7. StepOf(acked, k) \in StepStates /\ StepOf(acked, k).sr = acked.searches[k]
  BY <1>5, StepOfType
<1>8. SameStep(StepOf(acked, k), s) /\ SameIds(acked.searches[k].nodes, s.sr.nodes)
  BY <1>6, <1>7, AskAnyKeeps, AskAnyIds
<1>9. s.sr.id = acked.searches[k].id
  BY <1>7, <1>8 DEF SameStep, SameSearch
<1>10. AnnounceReply(a, k, from) = Put(acked, k, s)
  BY <1>1, <1>3, <1>4, <1>6 DEF AnnounceReply
<1> QED
  BY <1>5, <1>8, <1>9, <1>10, PutListed

LEMMA CutListed ==
  ASSUME NEW a \in Records, Listed(a), NEW from
  PROVE  Listed(Cut(a, from))
<1>1. PICK list \in SearchLists, q \in SUBSET Requests, f \in [Targets -> Nat], h \in [Targets -> SUBSET Others] :
        a = RecordOf(list, q, f, h)
  BY RecordFields
<1>2. a.searches = list /\ a.heard = h
  BY <1>1 DEF RecordOf
<1>3. PICK l \in Nat : /\ Len(list) = l /\ DOMAIN list = 1 .. l
                       /\ \A j \in 1 .. l : list[j] \in SearchStates /\ list[j].id \in Targets
  BY ListType
<1>4. \A i, j \in 1 .. l : list[i].id = list[j].id => i = j
  BY <1>3 DEF SearchLists
<1> DEFINE cut == [k \in DOMAIN a.searches |-> FlushNodes(a.searches[k], {from})]
           shorter == {k \in DOMAIN cut : cut[k] # a.searches[k]}
           these(t) == {k \in shorter : cut[k].id = t}
           h2 == [t \in Targets |->
                    IF \E k \in shorter : cut[k].id = t
                    THEN UNION {Members(cut[k]) : k \in {k \in shorter : cut[k].id = t}} ELSE a.heard[t]]
<1>5. Cut(a, from) = [a EXCEPT !.searches = cut, !.heard = h2]
  BY DEF Cut
<1>6. DOMAIN cut = 1 .. l /\ \A k \in 1 .. l : cut[k] = FlushNodes(list[k], {from})
  BY <1>2, <1>3
<1>7. \A k \in 1 .. l : cut[k].id = list[k].id
  <2>1. \A k \in 1 .. l : SameSearch(list[k], FlushNodes(list[k], {from}))
    BY <1>3, FlushKeeps
  <2> QED
    BY <1>6, <2>1 DEF SameSearch
<1>8. \A k \in 1 .. l : k \in shorter <=> cut[k] # list[k]
  BY <1>2, <1>3
<1>9. shorter \in SUBSET (1 .. l)
  BY <1>2, <1>3
<1>10. \A t \in Targets : h2[t] = IF \E k \in shorter : cut[k].id = t
                                  THEN UNION {Members(cut[k]) : k \in these(t)} ELSE h[t]
  BY <1>2
<1>11. \A t : \A k : k \in these(t) <=> k \in shorter /\ cut[k].id = t
  OBVIOUS
<1> HIDE DEF cut, shorter, these, h2
<1>12. ASSUME NEW k \in 1 .. l PROVE Nearest(cut[k].nodes, cut[k].id, h2[cut[k].id])
  <2>1. PICK t \in Targets : t = list[k].id /\ t = cut[k].id
    BY <1>3, <1>7
  <2>2. Nearest(list[k].nodes, t, h[t])
    BY <1>2, <1>3, <2>1 DEF Listed, ListedAs
  <2>3. CASE k \in shorter
    <3>1. these(t) = {k}
      <4>1. k \in these(t)
        BY <1>11, <2>1, <2>3
      <4>2. ASSUME NEW j \in these(t) PROVE j = k
        <5>1. j \in 1 .. l /\ cut[j].id = t
          BY <1>9, <1>11
        <5>2. list[j].id = list[k].id
          BY <1>7, <2>1, <5>1
        <5> QED
          BY <1>4, <5>1, <5>2
      <4> QED
        BY <4>1, <4>2
    <3>2. UNION {Members(cut[j]) : j \in these(t)} = Members(cut[k])
      BY <3>1
    <3>3. h2[t] = Members(cut[k])
      BY <1>10, <2>1, <2>3, <3>2
    <3>4. Nearest(cut[k].nodes, t, Members(cut[k]))
      <4>1. PICK sr \in SearchStates : sr = list[k] /\ sr.id = t
        BY <1>3, <2>1
      <4>2. Nearest(sr.nodes, sr.id, h[t])
        BY <2>2, <4>1
      <4>3. Nearest(FlushNodes(sr, {from}).nodes, sr.id, Members(FlushNodes(sr, {from})))
        BY <4>2, FlushNearest
      <4> QED
        BY <1>6, <4>1, <4>3
    <3> QED
      BY <2>1, <3>3, <3>4
  <2>4. CASE k \notin shorter
    <3>1. cut[k] = list[k]
      BY <1>8, <2>4
    <3>2. ~\E j \in shorter : cut[j].id = t
      BY <1>4, <1>7, <1>9, <2>1, <2>4
    <3>3. h2[t] = h[t]
      BY <1>10, <3>2
    <3> QED
      BY <2>1, <2>2, <3>1, <3>3
  <2> QED
    BY <2>3, <2>4
<1>13. Cut(a, from).searches = cut /\ Cut(a, from).heard = h2
  BY <1>1, <1>5 DEF RecordOf
<1> QED
  BY <1>6, <1>12, <1>13 DEF Listed, ListedAs

LEMMA ExpireListed ==
  ASSUME NEW a \in Records, Listed(a)
  PROVE  Listed(ExpireSearches(a))
<1>1. PICK list \in SearchLists, q \in SUBSET Requests, f \in [Targets -> Nat], h \in [Targets -> SUBSET Others] :
        a = RecordOf(list, q, f, h)
  BY RecordFields
<1>2. a.searches = list /\ a.heard = h
  BY <1>1 DEF RecordOf
<1>3. PICK l \in Nat : Len(list) = l /\ DOMAIN list = 1 .. l /\ list \in Seq(SearchStates)
  BY ListType
<1> DEFINE old == {k \in DOMAIN a.searches : a.searches[k].step_age > ExpireTime}
           lost == {k \in old : Reported(a.searches[k])}
           f2 == [t \in Targets |-> a.finished[t] + Cardinality({k \in lost : a.searches[k].id = t})]
           kept == Without(a.searches, old)
<1>4. ExpireSearches(a) = [a EXCEPT !.searches = kept, !.finished = f2]
  BY DEF ExpireSearches
<1>5. PICK m \in Nat : KeptOf(kept, m, list, old, l, SearchStates)
  BY <1>2, <1>3, WithoutKeeps DEF KeptInv
<1> HIDE DEF old, lost, f2, kept
<1>6. DOMAIN kept = 1 .. m /\ \A i \in 1 .. m : \E j \in 1 .. l : kept[i] = list[j]
  BY <1>5 DEF KeptOf
<1>7. ListedAs(kept, h)
  BY <1>2, <1>3, <1>6 DEF Listed, ListedAs
<1>8. ExpireSearches(a).searches = kept /\ ExpireSearches(a).heard = h
  BY <1>1, <1>4 DEF RecordOf
<1> QED
  BY <1>7, <1>8 DEF Listed

LEMMA StepDueListed ==
  ASSUME NEW a \in Records, Listed(a)
  PROVE  Listed(StepDue(a))
<1>1. PICK list \in SearchLists, q \in SUBSET Requests, f \in [Targets -> Nat], h \in [Targets -> SUBSET Others] :
        a = RecordOf(list, q, f, h)
  BY RecordFields
<1>2. a.searches = list /\ a.heard = h
  BY <1>1 DEF RecordOf
<1> DEFINE due == {k \in DOMAIN a.searches : ~a.searches[k].done /\ a.searches[k].step_age >= StepWait}
           step == [k \in due |-> Step(StepOf(a, k))]
           r == [k \in DOMAIN a.searches |-> IF k \in due THEN step[k].sr ELSE a.searches[k]]
           more == UNION {step[k].sent : k \in due}
           f2 == [t \in Targets |-> a.finished[t] + Cardinality({k \in due : step[k].done /\ a.searches[k].id = t})]
<1>3. StepDue(a) = [a EXCEPT !.searches = r, !.sent = a.sent \cup more, !.finished = f2]
  BY DEF StepDue
<1>4. DOMAIN r = DOMAIN list /\ \A k \in DOMAIN list : r[k] = list[k] \/ r[k] = Step(StepOf(a, k)).sr
  BY <1>2
<1> HIDE DEF due, step, r, more, f2
<1>5. StepDue(a).searches = r /\ StepDue(a).heard = h
  BY <1>1, <1>3 DEF RecordOf
<1>6. ASSUME NEW k \in DOMAIN list PROVE Nearest(r[k].nodes, r[k].id, h[r[k].id])
  <2>1. r[k].id = list[k].id
    BY <1>2, <1>5, StepDueSettles
  <2>2. Nearest(list[k].nodes, list[k].id, h[list[k].id])
    BY <1>2 DEF Listed, ListedAs
  <2>3. SameIds(list[k].nodes, r[k].nodes)
    <3>1. PICK s \in StepStates : s = StepOf(a, k) /\ s.sr = list[k]
      BY <1>2, StepOfType
    <3>2. SameIds(list[k].nodes, Step(StepOf(a, k)).sr.nodes)
      BY <3>1, StepIds
    <3> QED
      BY <1>4, <3>2, SameIdsSelf
  <2>4. Nearest(r[k].nodes, list[k].id, h[list[k].id])
    BY <2>2, <2>3, SameIdsNearest
  <2> QED
    BY <2>1, <2>4
<1> QED
  BY <1>4, <1>5, <1>6 DEF Listed, ListedAs

LEMMA TasksListed ==
  ASSUME NEW a, a \in Records, Listed(a), Tasks(a)
  PROVE  Listed(All')
<1>1. PICK b \in {a, ExpireSearches(a)} : \E c \in {StepDue(b), b} :
        /\ searches' = c.searches /\ sent' = c.sent /\ finished' = c.finished
        /\ heard' = [t \in Targets |-> IF \E k \in DOMAIN c.searches : c.searches[k].id = t
                                       THEN c.heard[t] ELSE {}]
  BY DEF Tasks
<1>2. PICK c \in {StepDue(b), b} :
        /\ searches' = c.searches /\ sent' = c.sent /\ finished' = c.finished
        /\ heard' = [t \in Targets |-> IF \E k \in DOMAIN c.searches : c.searches[k].id = t
                                       THEN c.heard[t] ELSE {}]
  BY <1>1
<1>3. b \in Records /\ Listed(b)
  <2>1. CASE b = a
    BY <2>1
  <2>2. CASE b = ExpireSearches(a)
    BY <2>2, ExpireSettles, ExpireListed DEF Settled
  <2> QED
    BY <2>1, <2>2
<1>4. c \in Records /\ Listed(c)
  <2>1. CASE c = b
    BY <1>3, <2>1
  <2>2. CASE c = StepDue(b)
    BY <1>3, <2>2, StepDueSettles, StepDueListed DEF Settled
  <2> QED
    BY <2>1, <2>2
<1>5. \A k \in DOMAIN c.searches : c.searches[k].id \in Targets
  BY <1>4, ListType DEF Records
<1>6. \A k \in DOMAIN c.searches : heard'[c.searches[k].id] = c.heard[c.searches[k].id]
  BY <1>2, <1>5
<1>7. ListedAs(searches', heard')
  BY <1>2, <1>4, <1>6 DEF Listed, ListedAs
<1> QED
  BY <1>7 DEF Listed, All

LEMMA ReceivedListed ==
  ASSUME All \in Records, Listed(All), NEW r \in sent
  PROVE  Listed(Received(r))
<1>1. Received(r).searches = All.searches /\ Received(r).heard = All.heard
  BY DEF Received, All
<1> QED
  BY <1>1 DEF Listed

LEMMA TickListed ==
  ASSUME SearchIInv, Listed(All), Tick
  PROVE  Listed(All')
<1>1. PICK list \in SearchLists, q \in SUBSET Requests, f \in [Targets -> Nat], h \in [Targets -> SUBSET Others] :
        All = RecordOf(list, q, f, h)
  BY RecordFields DEF SearchIInv
<1>2. searches = list /\ heard = h
  BY <1>1 DEF All, RecordOf
<1>3. PICK r : r = [k \in DOMAIN searches |->
                      [searches[k] EXCEPT !.step_age = Older(@, ExpireTime),
                                          !.nodes = [i \in DOMAIN @ |-> OlderNode(@[i])]]]
  OBVIOUS
<1>4. ASSUME NEW k \in DOMAIN list PROVE Nearest(r[k].nodes, r[k].id, h[r[k].id])
  <2>1. PICK sr \in SearchStates : sr = list[k]
    BY ListType
  <2>2. PICK nodes \in NodeLists : nodes = sr.nodes
    BY DEF SearchStates
  <2>3. PICK older : older = [i \in DOMAIN nodes |-> OlderNode(nodes[i])]
    OBVIOUS
  <2>4. SameIds(nodes, older)
    <3>1. \A i \in DOMAIN nodes : nodes[i] \in NodeStates
      BY DEF NodeLists
    <3>2. \A i \in DOMAIN nodes : older[i] \in NodeStates /\ older[i].id = nodes[i].id
      BY <2>3, <3>1, OlderNodeKeeps
    <3>3. DOMAIN older = DOMAIN nodes /\ older = [i \in DOMAIN older |-> older[i]]
      BY <2>3
    <3> QED
      BY <3>2, <3>3, ChangedNodesIds
  <2>5. PICK age : age = Older(sr.step_age, ExpireTime)
    OBVIOUS
  <2>6. r[k] = [sr EXCEPT !.step_age = age, !.nodes = older]
    BY <1>2, <1>3, <2>1, <2>2, <2>3, <2>5
  <2>7. r[k].nodes = older /\ r[k].id = sr.id
    BY <2>6 DEF SearchStates
  <2>8. Nearest(nodes, sr.id, h[sr.id])
    BY <1>2, <2>1, <2>2 DEF Listed, ListedAs, All
  <2> QED
    BY <2>4, <2>7, <2>8, SameIdsNearest
<1>5. DOMAIN r = DOMAIN list
  BY <1>2, <1>3
<1>6. searches' = r /\ heard' = h
  BY <1>2, <1>3 DEF Tick
<1>7. ListedAs(searches', heard')
  BY <1>4, <1>5, <1>6 DEF ListedAs
<1> QED
  BY <1>7 DEF Listed, All

\* The list with which a search begins (dht_search, new_search).
LEMMA RestartedNearest ==
  ASSUME NEW sr \in SearchStates, NEW ids, Nearest(sr.nodes, sr.id, ids)
  PROVE  Nearest(Restarted(sr).nodes, sr.id, Members(Restarted(sr)))
<1> DEFINE silent == {n \in Range(sr.nodes) : n.pinged >= MaxPings \/ n.reply_age > ReplyTime}
<1>1. PICK gone : gone = {n.id : n \in silent}
  OBVIOUS
<1>2. PICK kept \in SearchStates : kept = FlushNodes(sr, gone)
  BY FlushKeeps DEF SameSearch
<1>3. PICK nodes \in NodeLists : nodes = kept.nodes
  BY DEF SearchStates
<1>4. PICK again : again = [i \in DOMAIN nodes |-> AskAgain(nodes[i])]
  OBVIOUS
<1>5. \A i \in DOMAIN nodes : nodes[i] \in NodeStates
  BY DEF NodeLists
<1>6. \A i \in DOMAIN nodes : again[i] \in NodeStates /\ again[i].id = nodes[i].id
  BY <1>4, <1>5, NodeChanges
<1>7. DOMAIN again = DOMAIN nodes /\ again = [i \in DOMAIN again |-> again[i]]
  BY <1>4
<1>8. SameIds(nodes, again)
  BY <1>6, <1>7, ChangedNodesIds
<1>9. PICK new : new = Restarted(sr)
  OBVIOUS
<1>10. new.nodes = again
  <2>1. new = [kept EXCEPT !.done = FALSE, !.nodes = again]
    BY <1>1, <1>2, <1>3, <1>4, <1>9 DEF Restarted
  <2> QED
    BY <2>1 DEF SearchStates
<1>11. Members(new) = Members(kept)
  BY <1>3, <1>6, <1>7, <1>10 DEF Members
<1>12. Nearest(nodes, sr.id, Members(kept))
  BY <1>2, <1>3, FlushNearest
<1> QED
  BY <1>8, <1>9, <1>10, <1>11, <1>12, SameIdsNearest

\* The search that begins is listed with the nodes it has; the others are as
\* they were.
LEMMA StartListsListed ==
  ASSUME searches \in SearchLists, search_id \in Nat, ListedAs(searches, heard),
         NEW t \in Targets, NEW list \in StartLists(t), NEW j \in DOMAIN list
  PROVE  \/ /\ list[j].id = t
            /\ Nearest(list[j].nodes, t, Members(list[j]))
         \/ \E i \in DOMAIN searches : searches[i].id # t /\ list[j] = searches[i]
<1>1. PICK l \in Nat : /\ Len(searches) = l /\ DOMAIN searches = 1 .. l
                       /\ \A k \in 1 .. l : searches[k] \in SearchStates
  BY ListType
<1>2. \A i, k \in 1 .. l : searches[i].id = searches[k].id => i = k
  BY <1>1 DEF SearchLists
<1>3. PICK old : old = {k \in DOMAIN searches : searches[k].id = t}
  OBVIOUS
<1>4. Fresh(t).id = t /\ Nearest(Fresh(t).nodes, t, Members(Fresh(t)))
  <2>1. PICK fresh : fresh = Fresh(t)
    OBVIOUS
  <2>2. fresh.id = t /\ fresh.nodes = <<>>
    BY <2>1 DEF Fresh
  <2>3. Members(fresh) = {}
    BY <2>2 DEF Members
  <2>4. Nearest(<<>>, t, {})
    BY Limits DEF Nearest
  <2> QED
    BY <2>1, <2>2, <2>3, <2>4
<1>5. CASE old = {} /\ Expirable = {}
  <2>1. list = [k \in 1 .. l + 1 |-> IF k = 1 THEN Fresh(t) ELSE searches[k - 1]]
    BY <1>1, <1>3, <1>5 DEF StartLists, NewSearch
  <2>2. CASE j = 1
    BY <1>4, <2>1, <2>2
  <2>3. CASE j # 1
    <3>1. j - 1 \in 1 .. l /\ list[j] = searches[j - 1]
      BY <1>1, <2>1, <2>3
    <3> QED
      BY <1>1, <1>3, <1>5, <3>1
  <2> QED
    BY <2>2, <2>3
<1>6. CASE old = {} /\ Expirable # {}
  <2>1. PICK k \in Expirable : list = [searches EXCEPT ![k] = Fresh(t)]
    BY <1>3, <1>6 DEF StartLists, NewSearch
  <2>2. j \in DOMAIN searches /\ (j = k => list[j] = Fresh(t)) /\ (j # k => list[j] = searches[j])
    BY <2>1
  <2> QED
    BY <1>3, <1>4, <1>6, <2>2
<1>7. CASE old # {}
  <2>1. PICK k \in 1 .. l : k = Min(old) /\ searches[k].id = t
    <3>1. old \in SUBSET (1 .. l)
      BY <1>1, <1>3
    <3>2. Min(old) \in old
      BY <1>7, <3>1, LeastPlace
    <3> QED
      BY <1>1, <1>3, <3>2
  <2>2. PICK sr \in SearchStates : sr = searches[k]
    BY <1>1
  <2>3. list = [searches EXCEPT ![k] = Restarted(sr)]
    BY <1>3, <1>7, <2>1, <2>2 DEF StartLists
  <2>4. j \in 1 .. l /\ (j = k => list[j] = Restarted(sr)) /\ (j # k => list[j] = searches[j])
    BY <1>1, <2>3
  <2>5. Restarted(sr).id = t
    BY <2>1, <2>2, RestartedSearch
  <2>6. Nearest(Restarted(sr).nodes, t, Members(Restarted(sr)))
    <3>1. Nearest(sr.nodes, sr.id, heard[t]) /\ sr.id = t
      BY <1>1, <2>1, <2>2 DEF ListedAs
    <3> QED
      BY <3>1, RestartedNearest
  <2> QED
    BY <1>1, <1>2, <2>1, <2>4, <2>5, <2>6
<1> QED
  BY <1>5, <1>6, <1>7

LEMMA SearchListed ==
  ASSUME SearchIInv, Listed(All),
         NEW caller, NEW t \in Targets, NEW port \in Ports, NEW nearby \in SUBSET Near,
         Search(caller, t, port, nearby)
  PROVE  Listed(All')
<1>1. /\ searches \in SearchLists /\ sent \in SUBSET Requests /\ finished \in [Targets -> Nat]
      /\ search_id \in Nat /\ ListedAs(searches, heard)
  BY DEF SearchIInv, All, Records, Listed
<1>2. PICK list \in StartLists(t) :
        LET k == Min({j \in DOMAIN list : list[j].id = t})
            filled == InsertNodes([list[k] EXCEPT !.port = port], SetToSeq(nearby))
            s == Step([sr |-> filled, sent |-> sent, done |-> FALSE])
            a == Put([All EXCEPT !.searches = list], k, s)
        IN  /\ searches' = a.searches
            /\ heard' = [u \in Targets |->
                 IF u = t THEN Members(list[k]) \cup nearby
                 ELSE IF \E j \in DOMAIN list : list[j].id = u THEN heard[u] ELSE {}]
  BY DEF Search, StartLists
<1>3. PICK k : Begins(list, searches, k, t)
  BY <1>1, StartListsBegin
<1>4. /\ list \in SearchLists /\ k \in DOMAIN list /\ list[k].id = t
      /\ {j \in DOMAIN list : list[j].id = t} = {k}
  BY <1>3 DEF Begins
<1>5. PICK l \in Nat : DOMAIN list = 1 .. l /\ \A j \in 1 .. l : list[j] \in SearchStates /\ list[j].id \in Targets
  BY <1>4, ListType
<1>6. Min({j \in DOMAIN list : list[j].id = t}) = k
  <2>1. {k} \in SUBSET (1 .. l)
    BY <1>4, <1>5
  <2>2. Min({k}) \in {k}
    BY <2>1, LeastPlace
  <2> QED
    BY <1>4, <2>2
<1>7. PICK begun : begun = [list[k] EXCEPT !.port = port]
  OBVIOUS
<1>8. begun \in SearchStates /\ begun.id = t /\ begun.nodes = list[k].nodes
  BY <1>4, <1>5, <1>7 DEF SearchStates
<1>9. PICK ids \in SUBSET Others : ids = Members(list[k])
  BY <1>4, <1>5, MembersOthers
<1>10. Nearest(begun.nodes, t, ids)
  BY <1>1, <1>4, <1>8, <1>9, StartListsListed
<1>11. PICK filled \in SearchStates : filled = InsertNodes(begun, SetToSeq(nearby)) /\ filled.id = t
  BY <1>8, NearbySequence, InsertNodesKeeps DEF SameSearch
<1>12. Nearest(filled.nodes, t, ids \cup nearby)
  <2>1. PICK near \in Seq(Others) : near = SetToSeq(nearby) /\ Range(near) = nearby
    BY NearbySequence
  <2>2. Nearest(begun.nodes, begun.id, ids)
    BY <1>8, <1>10
  <2>3. Nearest(InsertNodes(begun, near).nodes, begun.id, ids \cup Range(near))
    BY <1>8, <2>2, InsertNodesNearest
  <2> QED
    BY <1>8, <1>11, <2>1, <2>3
<1>13. PICK s0 : s0 = [sr |-> filled, sent |-> sent, done |-> FALSE]
  OBVIOUS
<1>14. s0 \in StepStates /\ s0.sr = filled
  BY <1>1, <1>11, <1>13 DEF StepStates
<1>15. PICK s : s = Step(s0)
  OBVIOUS
<1>16. s.sr.id = t
  <2>1. ~s0.done /\ ~s0.sr.done
    <3>1. ~begun.done
      BY <1>3, <1>4, <1>5, <1>7 DEF Begins, SearchStates
    <3>2. filled.done = begun.done
      BY <1>8, <1>11, NearbySequence, InsertNodesKeeps DEF SameSearch
    <3> QED
      BY <1>13, <1>14, <3>1, <3>2
  <2> QED
    BY <1>11, <1>14, <1>15, <2>1, StepEffect DEF StepOutcome
<1>17. Nearest(s.sr.nodes, t, ids \cup nearby)
  BY <1>12, <1>14, <1>15, StepIds, SameIdsNearest
<1>18. PICK a : a = [All EXCEPT !.searches = list]
  OBVIOUS
<1>19. Put(a, k, s).searches = [list EXCEPT ![k] = s.sr]
  <2>1. PICK h \in [Targets -> SUBSET Others] : h = heard
    BY DEF SearchIInv, All, Records
  <2>2. a = RecordOf(list, sent, finished, h)
    BY <1>18, <2>1 DEF All, RecordOf
  <2>3. PICK f2 : f2 = [finished EXCEPT ![s.sr.id] = IF s.done THEN @ + 1 ELSE @]
    OBVIOUS
  <2>4. PICK new : new = [list EXCEPT ![k] = s.sr]
    OBVIOUS
  <2>5. a.searches = list /\ a.finished = finished
    BY <2>2 DEF RecordOf
  <2>6. Put(a, k, s) = [a EXCEPT !.searches = new, !.sent = s.sent, !.finished = f2]
    BY <2>3, <2>4, <2>5 DEF Put
  <2> QED
    BY <2>2, <2>4, <2>6 DEF RecordOf
<1>20. PICK h2 : h2 = [u \in Targets |->
                 IF u = t THEN Members(list[k]) \cup nearby
                 ELSE IF \E j \in DOMAIN list : list[j].id = u THEN heard[u] ELSE {}]
  OBVIOUS
<1>21. searches' = [list EXCEPT ![k] = s.sr] /\ heard' = h2
  BY <1>2, <1>6, <1>7, <1>11, <1>13, <1>15, <1>18, <1>19, <1>20
<1>22. PICK new : new = [list EXCEPT ![k] = s.sr]
  OBVIOUS
<1>23. ASSUME NEW j \in DOMAIN list PROVE Nearest(new[j].nodes, new[j].id, h2[new[j].id])
  <2>1. CASE j = k
    <3>1. new[j] = s.sr /\ h2[t] = ids \cup nearby
      BY <1>4, <1>9, <1>20, <1>22, <2>1
    <3> QED
      BY <1>16, <1>17, <3>1
  <2>2. CASE j # k
    <3>1. new[j] = list[j] /\ list[j].id # t
      BY <1>4, <1>22, <2>2
    <3>2. PICK i \in DOMAIN searches : list[j] = searches[i]
      BY <1>1, <3>1, StartListsListed
    <3>3. Nearest(list[j].nodes, list[j].id, heard[list[j].id])
      BY <1>1, <3>2 DEF ListedAs
    <3>4. h2[list[j].id] = heard[list[j].id]
      BY <1>5, <1>20, <3>1
    <3> QED
      BY <3>1, <3>3, <3>4
  <2> QED
    BY <2>1, <2>2
<1>24. DOMAIN new = DOMAIN list
  BY <1>22
<1>25. ListedAs(searches', heard')
  BY <1>21, <1>22, <1>23, <1>24 DEF ListedAs
<1> QED
  BY <1>25 DEF Listed, All

\* The lists stay so when an answered request or another message is dealt with.
LEMMA GetPeersRepliedListed ==
  ASSUME SearchIInv, Listed(All), NEW r \in sent, GetPeersReplied(r)
  PROVE  Listed(All')
<1>1. All \in Records
  BY DEF SearchIInv
<1>2. PICK ks : ks = FindSearch(All, r.tid)
  OBVIOUS
<1>3. PICK a : a = IF ks = {} THEN Received(r) ELSE GetPeersReply(Received(r), Min(ks), r.to)
  OBVIOUS
<1>4. Tasks(a)
  BY <1>2, <1>3 DEF GetPeersReplied
<1>5. r.to \in Others /\ Kept(All, Received(r)) /\ Listed(Received(r))
  BY <1>1, ReceivedKeeps, ReceivedListed
<1>6. Received(r) \in Records /\ DOMAIN Received(r).searches = DOMAIN All.searches
  BY <1>1, <1>5, KeptDomain
<1>7. a \in Records /\ Listed(a)
  <2>1. CASE ks = {}
    BY <1>3, <1>5, <1>6, <2>1
  <2>2. CASE ks # {}
    <3>1. Min(ks) \in DOMAIN Received(r).searches
      BY <1>1, <1>2, <1>6, <2>2, SearchFound
    <3>2. Kept(Received(r), a) /\ Listed(a)
      BY <1>3, <1>5, <1>6, <2>2, <3>1, GetPeersReplyKeeps, GetPeersReplyListed
    <3> QED
      BY <3>2 DEF Kept
  <2> QED
    BY <2>1, <2>2
<1> QED
  BY <1>4, <1>7, TasksListed

LEMMA AnnounceRepliedListed ==
  ASSUME SearchIInv, Listed(All), NEW r \in sent, AnnounceReplied(r)
  PROVE  Listed(All')
<1>1. All \in Records
  BY DEF SearchIInv
<1>2. PICK ks : ks = FindSearch(All, r.tid)
  OBVIOUS
<1>3. PICK a : a = IF ks = {} THEN Received(r) ELSE AnnounceReply(Received(r), Min(ks), r.to)
  OBVIOUS
<1>4. Tasks(a)
  BY <1>2, <1>3 DEF AnnounceReplied
<1>5. r.to \in Others /\ Kept(All, Received(r)) /\ Listed(Received(r))
  BY <1>1, ReceivedKeeps, ReceivedListed
<1>6. Received(r) \in Records /\ DOMAIN Received(r).searches = DOMAIN All.searches
  BY <1>1, <1>5, KeptDomain
<1>7. a \in Records /\ Listed(a)
  <2>1. CASE ks = {}
    BY <1>3, <1>5, <1>6, <2>1
  <2>2. CASE ks # {}
    <3>1. Min(ks) \in DOMAIN Received(r).searches
      BY <1>1, <1>2, <1>6, <2>2, SearchFound
    <3>2. Kept(Received(r), a) /\ Listed(a)
      BY <1>3, <1>5, <1>6, <2>2, <3>1, AnnounceReplyKeeps, AnnounceReplyListed
    <3> QED
      BY <3>2 DEF Kept
  <2> QED
    BY <2>1, <2>2
<1> QED
  BY <1>4, <1>7, TasksListed

LEMMA GarbledReplyListed ==
  ASSUME SearchIInv, Listed(All), NEW r \in sent, GarbledReply(r)
  PROVE  Listed(All')
<1>1. All \in Records
  BY DEF SearchIInv
<1>2. PICK ks : ks = FindSearch(All, r.tid)
  OBVIOUS
<1>3. PICK cut : cut = Cut(Received(r), r.to)
  OBVIOUS
<1>4. PICK a : a = IF ks = {} THEN cut ELSE Replied(cut, Min(ks), r.to)
  OBVIOUS
<1>5. Tasks(a)
  BY <1>2, <1>3, <1>4 DEF GarbledReply
<1>6. r.to \in Others /\ Kept(All, Received(r)) /\ Listed(Received(r))
  BY <1>1, ReceivedKeeps, ReceivedListed
<1>7. Received(r) \in Records /\ DOMAIN Received(r).searches = DOMAIN All.searches
  BY <1>1, <1>6, KeptDomain
<1>8. Kept(Received(r), cut) /\ Listed(cut)
  BY <1>3, <1>6, <1>7, CutKeeps, CutListed
<1>9. cut \in Records /\ DOMAIN cut.searches = DOMAIN All.searches
  BY <1>7, <1>8, KeptDomain
<1>10. a \in Records /\ Listed(a)
  <2>1. CASE ks = {}
    BY <1>4, <1>8, <1>9, <2>1
  <2>2. CASE ks # {}
    <3>1. Min(ks) \in DOMAIN cut.searches
      BY <1>1, <1>2, <1>9, <2>2, SearchFound
    <3>2. Kept(cut, a) /\ Listed(a)
      BY <1>4, <1>6, <1>8, <1>9, <2>2, <3>1, RepliedKeeps, RepliedListed
    <3> QED
      BY <3>2 DEF Kept
  <2> QED
    BY <2>1, <2>2
<1> QED
  BY <1>5, <1>10, TasksListed

LEMMA ListedNext ==
  ASSUME SearchIInv, Listed(All), [Next]_vars
  PROVE  Listed(All')
<1>1. All \in Records
  BY DEF SearchIInv
<1>2. CASE \E r \in sent : GetPeersReplied(r)
  BY <1>2, GetPeersRepliedListed
<1>3. CASE \E r \in sent : AnnounceReplied(r)
  BY <1>3, AnnounceRepliedListed
<1>4. CASE \E r \in sent : GarbledReply(r)
  BY <1>4, GarbledReplyListed
<1>5. ASSUME NEW from \in Near, Pong(from) PROVE Listed(All')
  <2>1. from \in Others
    BY DhtSearchAssumption
  <2>2. Kept(All, AddSearchNode(All, from)) /\ Listed(AddSearchNode(All, from))
    BY <1>1, <2>1, AddSearchNodeKeeps, AddSearchNodeListed
  <2>3. Tasks(AddSearchNode(All, from))
    BY <1>5 DEF Pong
  <2> QED
    BY <2>2, <2>3, TasksListed DEF Kept
<1>6. ASSUME NEW from \in Faulty, BrokenReply(from) PROVE Listed(All')
  <2>1. Kept(All, Cut(All, from)) /\ Listed(Cut(All, from))
    BY <1>1, CutKeeps, CutListed
  <2>2. Tasks(Cut(All, from))
    BY <1>6 DEF BrokenReply
  <2> QED
    BY <2>1, <2>2, TasksListed DEF Kept
<1>7. CASE Idle
  <2>1. Tasks(All)
    BY <1>7 DEF Idle
  <2> QED
    BY <1>1, <2>1, TasksListed
<1>8. CASE Tick
  BY <1>8, TickListed
<1>9. CASE \E caller \in {"rest", "signal"}, t \in Targets, port \in Ports, nearby \in SUBSET Near :
             Search(caller, t, port, nearby)
  BY <1>9, SearchListed
<1>10. CASE UNCHANGED vars
  <2>1. All' = All
    BY <1>10 DEF vars, All
  <2> QED
    BY <2>1
<1> QED
  BY <1>2, <1>3, <1>4, <1>5, <1>6, <1>7, <1>8, <1>9, <1>10 DEF Next

\* A list has as many members as places.
LEMMA MembersCount ==
  ASSUME NEW sr \in SearchStates
  PROVE  Len(sr.nodes) \in Nat /\ Cardinality(Members(sr)) = Len(sr.nodes) /\ IsFiniteSet(Members(sr))
<1>1. PICK nodes \in NodeLists : nodes = sr.nodes
  BY DEF SearchStates
<1>2. PICK l \in Nat : l = Len(nodes) /\ DOMAIN nodes = 1 .. l
  BY DEF NodeLists
<1>3. \A i, j \in 1 .. l : nodes[i].id = nodes[j].id => i = j
  BY <1>2 DEF NodeLists
<1>4. PICK P : P = Members(sr)
  OBVIOUS
<1>5. P = {nodes[i].id : i \in 1 .. l}
  BY <1>1, <1>2, <1>4 DEF Members
<1>6. PICK f : f = [i \in 1 .. l |-> nodes[i].id]
  OBVIOUS
<1>7. f \in Bijection(1 .. l, P)
  <2>1. f \in [1 .. l -> P]
    BY <1>5, <1>6
  <2>2. \A i, j \in 1 .. l : f[i] = f[j] => i = j
    BY <1>3, <1>6
  <2>3. \A x \in P : \E i \in 1 .. l : f[i] = x
    BY <1>5, <1>6
  <2> QED
    BY <2>1, <2>2, <2>3 DEF Bijection, Injection, Surjection, IsInjective
<1>8. IsFiniteSet(1 .. l) /\ Cardinality(1 .. l) = l
  BY FS_Interval
<1>9. ExistsBijection(1 .. l, P)
  BY <1>7 DEF ExistsBijection
<1>10. IsFiniteSet(P) /\ Cardinality(P) = l
  BY <1>8, <1>9, FS_Bijection
<1> QED
  BY <1>1, <1>2, <1>4, <1>10

LEMMA LessOfTwo ==
  ASSUME NEW a \in Nat, NEW b \in Nat, a <= b
  PROVE  Min({a, b}) = a /\ Min({b, a}) = a
<1>1. \A x \in {a, b} : (\A y \in {a, b} : x <= y) <=> x = a
  OBVIOUS
<1>2. {b, a} = {a, b}
  OBVIOUS
<1> QED
  BY <1>1, <1>2 DEF Min

\* The list is what TypeOK says of it.
LEMMA NearestCount ==
  ASSUME NEW sr \in SearchStates, NEW ids \in SUBSET Others, Nearest(sr.nodes, sr.id, ids)
  PROVE  Len(sr.nodes) = Min({SearchNodes, Cardinality(ids)})
<1>1. PICK l \in Nat : l = Len(sr.nodes) /\ Cardinality(Members(sr)) = l /\ IsFiniteSet(Members(sr))
  BY MembersCount
<1>2. DOMAIN sr.nodes = 1 .. l
  BY <1>1 DEF SearchStates, NodeLists
<1>3. IsFiniteSet(ids)
  BY DhtSearchAssumption, FS_Subset
<1>4. PICK n \in Nat : n = Cardinality(ids)
  BY <1>3, FS_CardinalityType
<1>5. Members(sr) \in SUBSET ids
  BY <1>1, <1>2 DEF Nearest, Members
<1>6. l <= n
  BY <1>1, <1>3, <1>4, <1>5, FS_Subset
<1>7. l <= SearchNodes
  BY <1>1 DEF Nearest
<1>8. CASE Members(sr) = ids
  <2>1. l = n
    BY <1>1, <1>4, <1>8
  <2> QED
    BY <1>1, <1>4, <1>7, <2>1, Limits, LessOfTwo
<1>9. CASE Members(sr) # ids
  <2>1. PICK id \in ids : id \notin Members(sr)
    BY <1>5, <1>9
  <2>2. ~\E i \in 1 .. l : sr.nodes[i].id = id
    BY <1>2, <2>1 DEF Members
  <2>3. l = SearchNodes
    BY <1>1, <2>2 DEF Nearest
  <2> QED
    BY <1>1, <1>4, <1>6, <2>3, Limits, LessOfTwo
<1> QED
  BY <1>8, <1>9

LEMMA ListedTyped ==
  ASSUME All \in Records, Listed(All)
  PROVE  TypeOK
<1> SUFFICES ASSUME NEW k \in DOMAIN searches, NEW sr, sr = searches[k]
             PROVE  /\ MyId \notin Members(sr) /\ Members(sr) \subseteq heard[sr.id]
                    /\ Len(sr.nodes) = Min({SearchNodes, Cardinality(heard[sr.id])})
                    /\ \A i \in 2 .. Len(sr.nodes) : Closer(sr.nodes[i - 1].id, sr.nodes[i].id, sr.id)
                    /\ \A id \in heard[sr.id] \ Members(sr) : Closer(Last(sr.nodes).id, id, sr.id)
  BY DEF TypeOK
<1>1. searches \in SearchLists /\ heard \in [Targets -> SUBSET Others] /\ ListedAs(searches, heard)
  BY DEF All, Records, Listed
<1>2. sr \in SearchStates /\ sr.id \in Targets
  BY <1>1, ListType
<1>3. PICK ids \in SUBSET Others : ids = heard[sr.id]
  BY <1>1, <1>2
<1>4. Nearest(sr.nodes, sr.id, ids)
  BY <1>1, <1>3 DEF ListedAs
<1>5. PICK l \in Nat : l = Len(sr.nodes) /\ DOMAIN sr.nodes = 1 .. l
  BY <1>2 DEF SearchStates, NodeLists
<1>6. MyId \notin Members(sr)
  BY <1>2, MembersOthers, DhtSearchAssumption
<1>7. Members(sr) \subseteq ids
  BY <1>4, <1>5 DEF Nearest, Members
<1>8. Len(sr.nodes) = Min({SearchNodes, Cardinality(ids)})
  BY <1>2, <1>4, NearestCount
<1>9. \A i \in 2 .. l : Closer(sr.nodes[i - 1].id, sr.nodes[i].id, sr.id)
  <2> SUFFICES ASSUME NEW i \in 2 .. l PROVE Closer(sr.nodes[i - 1].id, sr.nodes[i].id, sr.id)
    OBVIOUS
  <2>1. i - 1 \in 1 .. l /\ i \in 1 .. l /\ i - 1 < i
    OBVIOUS
  <2> QED
    BY <1>4, <1>5, <2>1 DEF Nearest
<1>10. ASSUME NEW id \in ids \ Members(sr) PROVE Closer(Last(sr.nodes).id, id, sr.id)
  <2>1. ~\E i \in 1 .. l : sr.nodes[i].id = id
    BY <1>5, <1>10 DEF Members
  <2>2. l = SearchNodes /\ \A i \in 1 .. l : Closer(sr.nodes[i].id, id, sr.id)
    BY <1>4, <1>5, <1>10, <2>1 DEF Nearest
  <2>3. l \in 1 .. l
    BY <1>5, <2>2, Limits
  <2>4. Last(sr.nodes) = sr.nodes[l]
    BY <1>5 DEF Last
  <2> QED
    BY <2>2, <2>3, <2>4
<1> QED
  BY <1>3, <1>5, <1>6, <1>7, <1>8, <1>9, <1>10

-----------------------------------------------------------------------------
(* The theorems.                                                           *)

LEMMA SearchInit ==
  ASSUME Init PROVE SearchIInv
<1>1. <<>> \in SearchLists
  BY DEF SearchLists
<1>2. PICK f \in [Targets -> Nat] : f = [t \in Targets |-> 0]
  OBVIOUS
<1>3. PICK h \in [Targets -> SUBSET Others] : h = [t \in Targets |-> {}]
  OBVIOUS
<1>4. All = RecordOf(<<>>, {}, f, h)
  BY <1>2, <1>3 DEF Init, All, RecordOf
<1>5. All \in Records
  BY <1>1, <1>4, RecordType
<1>6. OneDoneEach
  <2> SUFFICES ASSUME NEW t \in Targets
               PROVE  started[t] = finished[t] + Cardinality(Open(searches, t))
    BY DEF OneDoneEach, Open
  <2>1. Open(searches, t) = {}
    BY DEF Init, Open
  <2>2. Cardinality(Open(searches, t)) = 0
    BY <2>1, FS_EmptySet
  <2> QED
    BY <2>2 DEF Init
<1> QED
  BY <1>2, <1>5, <1>6 DEF Init, SearchIInv, DiesOnlyAlone

LEMMA SearchNext ==
  ASSUME SearchIInv, [Next]_vars
  PROVE  /\ SearchIInv'
         /\ UNCHANGED vars \/ \A k \in DOMAIN searches' :
              LET sr == searches'[k]
              IN  sr.done /\ finished'[sr.id] > finished[sr.id] => Complete(sr, heard'[sr.id])
<1>1. CASE \E r \in sent : GetPeersReplied(r)
  BY <1>1, GetPeersReplied_Step
<1>2. CASE \E r \in sent : AnnounceReplied(r)
  BY <1>2, AnnounceReplied_Step
<1>3. CASE \E r \in sent : GarbledReply(r)
  BY <1>3, GarbledReply_Step
<1>4. CASE \E from \in Near : Pong(from)
  BY <1>4, Pong_Step
<1>5. CASE \E from \in Faulty : BrokenReply(from)
  BY <1>5, BrokenReply_Step
<1>6. CASE Idle
  BY <1>6, Idle_Step
<1>7. CASE Tick
  BY <1>7, Tick_Step
<1>8. CASE \E caller \in {"rest", "signal"}, t \in Targets, port \in Ports, nearby \in SUBSET Near :
             Search(caller, t, port, nearby)
  BY <1>8, Search_Step
<1>9. CASE UNCHANGED vars
  BY <1>9 DEF vars, SearchIInv, All, OneDoneEach, DiesOnlyAlone
<1> QED
  BY <1>1, <1>2, <1>3, <1>4, <1>5, <1>6, <1>7, <1>8, <1>9 DEF Next

LEMMA SearchInvariant == Spec => []SearchIInv
<1>1. Init => SearchIInv
  BY SearchInit
<1>2. SearchIInv /\ [Next]_vars => SearchIInv'
  BY SearchNext
<1> QED
  BY <1>1, <1>2, PTL DEF Spec

\* Every call of dht_search that returned 1 leads to one search-done callback,
\* and nothing else does, whatever replies are lost, late, doubled or broken
\* (dht_search, search_step, expire_searches).
THEOREM SearchesReportOnce == Spec => []OneDoneEach
<1>1. SearchIInv => OneDoneEach
  BY DEF SearchIInv
<1> QED
  BY <1>1, SearchInvariant, PTL

\* The callback of a server's thread meets the NULL it is given only when the
\* search had no node to ask (dht_search, get_data_callback of dht_list.c).
THEOREM SearchesDieAlone == Spec => []DiesOnlyAlone
<1>1. SearchIInv => DiesOnlyAlone
  BY DEF SearchIInv
<1> QED
  BY <1>1, SearchInvariant, PTL

\* A search is reported as done only when each node it heard of and kept has
\* replied, was given up, or comes after Closest nodes that have replied
\* (search_step).
THEOREM SearchesComplete == Spec => SearchComplete
<1>1. SearchIInv /\ [Next]_vars =>
        [\A k \in DOMAIN searches' :
           LET sr == searches'[k]
           IN  sr.done /\ finished'[sr.id] > finished[sr.id] => Complete(sr, heard'[sr.id])]_vars
  BY SearchNext
<1> QED
  BY <1>1, SearchInvariant, PTL DEF Spec, SearchComplete

\* Before the first search there is no list.
LEMMA ListedInit ==
  ASSUME Init PROVE Listed(All)
BY DEF Init, Listed, ListedAs, All

LEMMA ListedInvariant == Spec => [](SearchIInv /\ Listed(All))
<1>1. Init => SearchIInv /\ Listed(All)
  BY SearchInit, ListedInit
<1>2. SearchIInv /\ Listed(All) /\ [Next]_vars => SearchIInv' /\ Listed(All')
  BY SearchNext, ListedNext
<1>3. (SearchIInv /\ Listed(All))' <=> SearchIInv' /\ Listed(All')
  BY DEF Listed, ListedAs, Nearest
<1> QED
  BY <1>1, <1>2, <1>3, PTL DEF Spec

\* A search's list is, in order of distance, the closest of all nodes offered to
\* it since it was last cut, SearchNodes of them or as many as there are, and
\* never this node itself (insert_search_node, add_search_node, flush_search_node).
THEOREM SearchesTyped == Spec => []TypeOK
<1>1. SearchIInv /\ Listed(All) => TypeOK
  BY ListedTyped DEF SearchIInv
<1> QED
  BY <1>1, ListedInvariant, PTL
=============================================================================
