--------------------------- MODULE PlacementProofs ---------------------------
(***************************************************************************)
(* For every set of objects, every width and every choice the kernel has:  *)
(* the loader's masks leave an object's own calls alone and keep its       *)
(* masked calls out of the code of all others.                             *)
(***************************************************************************)
EXTENDS Placement, MasksProofs, FiniteSetTheorems, WellFoundedInduction, TLAPS

-----------------------------------------------------------------------------
(* Powers of two, division and bits.                                       *)

\* Every set of numbers has a least element.
LEMMA LeastNumber ==
    ASSUME NEW S \in SUBSET Nat, S # {}
    PROVE  \E n \in S : \A m \in S : n <= m
<1>1. IsWellFoundedOn(OpToRel(<, Nat), Nat)
  BY NatLessThanWellFounded
<1>2. PICK n \in S : \A m \in S : ~(<<m, n>> \in OpToRel(<, Nat))
  BY <1>1, WFMin
<1>3. ASSUME NEW m \in S PROVE n <= m
  <2>1. <<m, n>> \in Nat \X Nat
    OBVIOUS
  <2>2. ~(m < n)
    BY <1>2, <2>1 DEF OpToRel
  <2> QED BY <2>2
<1> QED BY <1>3

\* A set that has k, and with every number up to k the one before it, has all
\* numbers up to k.
LEMMA Descent ==
    ASSUME NEW S, NEW k \in Nat, k \in S, \A j \in 0 .. k - 1 : j + 1 \in S => j \in S
    PROVE  0 .. k \subseteq S
<1> DEFINE T == {m \in Nat : m <= k /\ k - m \notin S}
<1>1. CASE T = {}
  <2> SUFFICES ASSUME NEW j \in 0 .. k PROVE j \in S
    OBVIOUS
  <2>1. k - j \in Nat /\ k - j <= k /\ k - (k - j) = j
    OBVIOUS
  <2>2. k - j \notin T
    BY <1>1
  <2>3. k - (k - j) \in S
    BY <2>1, <2>2
  <2> QED BY <2>1, <2>3
<1>2. CASE T # {}
  <2>1. PICK n \in T : \A m \in T : n <= m
    BY <1>2, LeastNumber
  <2>2. n # 0
    BY <2>1
  <2>3. n - 1 \in Nat /\ n - 1 <= k /\ n - 1 \notin T
    BY <2>1, <2>2
  <2>4. k - (n - 1) \in S
    BY <2>3
  <2>5. k - n \in 0 .. k - 1 /\ (k - n) + 1 = k - (n - 1)
    BY <2>1, <2>2
  <2> QED BY <2>1, <2>4, <2>5
<1> QED BY <1>1, <1>2

\* 2 ^ n counts the sets of n things.
LEMMA PowerIsCount ==
    ASSUME NEW n \in Nat
    PROVE  /\ IsFiniteSet(SUBSET (1 .. n))
           /\ Cardinality(SUBSET (1 .. n)) = 2 ^ n
<1>1. IsFiniteSet(1 .. n) /\ Cardinality(1 .. n) = n
  <2>1. IsFiniteSet(1 .. n) /\ Cardinality(1 .. n) = IF 1 > n THEN 0 ELSE n - 1 + 1
    BY FS_Interval
  <2> QED BY <2>1
<1> QED BY <1>1, FS_SUBSET

\* A power of two is twice the one before: the sets of n + 1 things are those
\* without and those with the last one.
LEMMA PowerStep ==
    ASSUME NEW n \in Nat
    PROVE  2 ^ (n + 1) = 2 * 2 ^ n
<1> DEFINE A == SUBSET (1 .. n)
           B == {x \cup {n + 1} : x \in A}
           f == [x \in A |-> x \cup {n + 1}]
<1>1. SUBSET (1 .. n + 1) = A \cup B
  <2>1. ASSUME NEW x \in SUBSET (1 .. n + 1), n + 1 \in x PROVE x \in B
    <3>1. x \ {n + 1} \in A
      OBVIOUS
    <3>2. x = (x \ {n + 1}) \cup {n + 1}
      BY <2>1
    <3> QED BY <3>1, <3>2
  <2>2. ASSUME NEW x \in SUBSET (1 .. n + 1), n + 1 \notin x PROVE x \in A
    BY <2>2
  <2>3. A \subseteq SUBSET (1 .. n + 1)
    OBVIOUS
  <2>4. ASSUME NEW x \in A PROVE x \cup {n + 1} \in SUBSET (1 .. n + 1)
    OBVIOUS
  <2>5. B \subseteq SUBSET (1 .. n + 1)
    <3> SUFFICES ASSUME NEW y \in B PROVE y \in SUBSET (1 .. n + 1)
      OBVIOUS
    <3>1. PICK x \in A : y = x \cup {n + 1}
      OBVIOUS
    <3> QED BY <2>4, <3>1
  <2>6. SUBSET (1 .. n + 1) \subseteq A \cup B
    BY <2>1, <2>2
  <2> QED BY <2>3, <2>5, <2>6
<1>2. A \cap B = {}
  <2>1. n + 1 \notin 1 .. n
    OBVIOUS
  <2> QED BY <2>1
<1>3. f \in Bijection(A, B)
  <2>1. \A x, y \in A : f[x] = f[y] => x = y
    <3> SUFFICES ASSUME NEW x \in A, NEW y \in A, x \cup {n + 1} = y \cup {n + 1}
                 PROVE  x = y
      OBVIOUS
    <3>1. n + 1 \notin x /\ n + 1 \notin y
      OBVIOUS
    <3> QED BY <3>1
  <2>2. f \in [A -> B] /\ \A b \in B : \E a \in A : f[a] = b
    OBVIOUS
  <2> QED BY <2>1, <2>2 DEF Bijection, Injection, Surjection, IsInjective
<1>4. IsFiniteSet(B) /\ Cardinality(B) = Cardinality(A)
  BY <1>3, PowerIsCount, FS_Bijection DEF ExistsBijection
<1>5. IsFiniteSet(A)
  BY PowerIsCount
<1>6. Cardinality(A \cup B) = Cardinality(A) + Cardinality(B) - Cardinality(A \cap B)
  BY <1>4, <1>5, FS_Union
<1>7. Cardinality(A \cap B) = 0
  BY <1>2, FS_EmptySet
<1>8. Cardinality(A) = 2 ^ n
  BY PowerIsCount
<1>9. Cardinality(SUBSET (1 .. n + 1)) = 2 ^ (n + 1)
  <2>1. n + 1 \in Nat
    OBVIOUS
  <2> QED BY <2>1, PowerIsCount
<1>10. Cardinality(A) \in Nat
  BY <1>5, FS_CardinalityType
<1> HIDE DEF A, B
<1>11. Cardinality(A \cup B) = 2 * Cardinality(A)
  BY <1>4, <1>6, <1>7, <1>10
<1> QED BY <1>1, <1>8, <1>9, <1>11

\* The powers of two are positive numbers, from 1 on and in order.
LEMMA PowerNat == \A n \in Nat : 2 ^ n \in Nat /\ 2 ^ n > 0
<1> SUFFICES ASSUME NEW n \in Nat PROVE 2 ^ n \in Nat /\ 2 ^ n > 0
  OBVIOUS
<1>1. 2 ^ n \in Nat
  BY PowerIsCount, FS_CardinalityType
<1>2. SUBSET (1 .. n) # {}
  OBVIOUS
<1>3. 2 ^ n # 0
  BY <1>2, PowerIsCount, FS_EmptySet
<1> QED BY <1>1, <1>3

\* The first one.
LEMMA PowerZero == 2 ^ 0 = 1
<1>1. Cardinality(SUBSET (1 .. 0)) = 2 ^ 0
  BY PowerIsCount
<1>2. SUBSET (1 .. 0) = {{}}
  OBVIOUS
<1>3. Cardinality({{}}) = 1
  BY FS_Singleton
<1> QED BY <1>1, <1>2, <1>3

\* Larger exponents do not give smaller powers.
LEMMA PowerMonotone ==
    ASSUME NEW a \in Nat, NEW b \in Nat, a <= b
    PROVE  2 ^ a <= 2 ^ b
<1>1. SUBSET (1 .. a) \subseteq SUBSET (1 .. b)
  OBVIOUS
<1>2. /\ IsFiniteSet(SUBSET (1 .. a)) /\ Cardinality(SUBSET (1 .. a)) = 2 ^ a
      /\ IsFiniteSet(SUBSET (1 .. b)) /\ Cardinality(SUBSET (1 .. b)) = 2 ^ b
  BY PowerIsCount
<1>3. Cardinality(SUBSET (1 .. a)) <= Cardinality(SUBSET (1 .. b))
  BY <1>1, <1>2, FS_Subset
<1> QED BY <1>2, <1>3

\* Division with remainder.
LEMMA DivMod ==
    ASSUME NEW a \in Int, NEW p \in Nat, p > 0
    PROVE  a = p * (a \div p) + (a % p) /\ a % p \in 0 .. p - 1 /\ a \div p \in Int
OBVIOUS

\* Quotient and remainder are the only numbers of this kind.
LEMMA DivUnique ==
    ASSUME NEW a \in Int, NEW p \in Nat, p > 0, NEW q \in Int, NEW r \in 0 .. p - 1, a = p * q + r
    PROVE  a \div p = q /\ a % p = r
OBVIOUS

\* The quotient by a power of two is twice that by the next, and a bit.
LEMMA DivStep ==
    ASSUME NEW a \in Nat, NEW i \in Nat
    PROVE  /\ a \div 2 ^ i \in Nat
           /\ a \div 2 ^ i = 2 * (a \div 2 ^ (i + 1)) + ((a \div 2 ^ i) % 2)
           /\ (a \div 2 ^ i) % 2 \in {0, 1}
<1>1. PICK p \in Nat : p = 2 ^ i /\ p > 0
  BY PowerNat
<1>2. 2 ^ (i + 1) = 2 * p
  BY <1>1, PowerStep
<1>3. (a \div p) \div 2 = a \div (2 * p)
  BY <1>1
<1>4. a \div p \in Nat
  BY <1>1
<1> QED BY <1>1, <1>2, <1>3, <1>4

\* Numbers that have the same bits from i on have the same quotient.
LEMMA SameAbove ==
    ASSUME NEW a \in Nat, NEW b \in Nat, a < 2 ^ Width, b < 2 ^ Width, NEW i \in 0 .. Width,
           \A j \in Bit : j >= i => (j \in Bits(a) <=> j \in Bits(b))
    PROVE  a \div 2 ^ i = b \div 2 ^ i
<1> DEFINE S == {j \in Nat : j >= i => a \div 2 ^ j = b \div 2 ^ j}
<1>1. Width \in S
  <2>1. PICK p \in Nat : p = 2 ^ Width /\ p > 0
    BY WidthAssumption, PowerNat
  <2>2. a \div p = 0 /\ b \div p = 0
    BY <2>1
  <2> QED BY <2>1, <2>2, WidthAssumption
<1>2. ASSUME NEW j \in 0 .. Width - 1, j + 1 \in S PROVE j \in S
  <2> SUFFICES ASSUME j >= i PROVE a \div 2 ^ j = b \div 2 ^ j
    BY WidthAssumption
  <2>1. j \in Nat /\ j \in Bit
    BY WidthAssumption DEF Bit
  <2>2. a \div 2 ^ (j + 1) = b \div 2 ^ (j + 1)
    BY <1>2, WidthAssumption
  <2>3. (a \div 2 ^ j) % 2 = 1 <=> (b \div 2 ^ j) % 2 = 1
    BY <2>1 DEF Bits
  <2>4. /\ a \div 2 ^ j = 2 * (a \div 2 ^ (j + 1)) + ((a \div 2 ^ j) % 2)
        /\ (a \div 2 ^ j) % 2 \in {0, 1}
    BY <2>1, DivStep
  <2>5. /\ b \div 2 ^ j = 2 * (b \div 2 ^ (j + 1)) + ((b \div 2 ^ j) % 2)
        /\ (b \div 2 ^ j) % 2 \in {0, 1}
    BY <2>1, DivStep
  <2>6. (a \div 2 ^ j) % 2 = (b \div 2 ^ j) % 2
    BY <2>3, <2>4, <2>5
  <2> QED BY <2>2, <2>4, <2>5, <2>6
<1> HIDE DEF S
<1>3. 0 .. Width \subseteq S
  BY <1>1, <1>2, WidthAssumption, Descent
<1>4. i \in S
  BY <1>3
<1> QED BY <1>4, WidthAssumption DEF S

\* Numbers with the same quotient have the same bits from there on.
LEMMA SameFrom ==
    ASSUME NEW a \in Nat, NEW b \in Nat, NEW k \in Nat, a \div 2 ^ k = b \div 2 ^ k,
           NEW i \in Nat, i >= k
    PROVE  a \div 2 ^ i = b \div 2 ^ i
<1> DEFINE S == {j \in Nat : j >= k /\ a \div 2 ^ j # b \div 2 ^ j}
<1> SUFFICES ASSUME S # {} PROVE FALSE
  OBVIOUS
<1>1. PICK n \in S : \A m \in S : n <= m
  BY LeastNumber
<1>2. n > k
  BY <1>1
<1>3. PICK m \in Nat : m + 1 = n /\ m >= k
  <2>1. n - 1 \in Nat /\ (n - 1) + 1 = n /\ n - 1 >= k
    BY <1>1, <1>2
  <2> QED BY <2>1
<1>4. a \div 2 ^ m = b \div 2 ^ m
  BY <1>1, <1>3
<1>5. /\ a \div 2 ^ m = 2 * (a \div 2 ^ (m + 1)) + ((a \div 2 ^ m) % 2)
      /\ b \div 2 ^ m = 2 * (b \div 2 ^ (m + 1)) + ((b \div 2 ^ m) % 2)
  BY <1>3, DivStep
<1>6. m + 1 \in Nat /\ a \div 2 ^ (m + 1) \in Nat /\ b \div 2 ^ (m + 1) \in Nat
  <2>1. m + 1 \in Nat
    BY <1>3
  <2> QED BY <2>1, DivStep
<1>7. a \div 2 ^ (m + 1) = b \div 2 ^ (m + 1)
  BY <1>4, <1>5, <1>6
<1> QED BY <1>1, <1>3, <1>7

\* The last number of a block of 2 ^ k ends in k ones.
LEMMA EndOfBlock ==
    ASSUME NEW l \in Nat, NEW k \in Nat, l % 2 ^ k = 2 ^ k - 1
    PROVE  /\ \A j \in 0 .. k : l % 2 ^ j = 2 ^ j - 1
           /\ \A j \in 0 .. k - 1 : (l \div 2 ^ j) % 2 = 1
<1>1. ASSUME NEW j \in Nat, l % 2 ^ (j + 1) = 2 ^ (j + 1) - 1
      PROVE  l % 2 ^ j = 2 ^ j - 1 /\ (l \div 2 ^ j) % 2 = 1
  <2>1. PICK p \in Nat : p = 2 ^ j /\ p > 0
    BY PowerNat
  <2>2. 2 ^ (j + 1) = 2 * p
    BY <2>1, PowerStep
  <2>3. PICK q \in Nat : l = (2 * p) * q + (2 * p - 1)
    <3>1. 2 * p \in Nat /\ 2 * p > 0
      BY <2>1
    <3>2. l = (2 * p) * (l \div (2 * p)) + (l % (2 * p))
      BY <3>1, DivMod
    <3>3. l \div (2 * p) \in Nat
      BY <3>1
    <3> QED BY <1>1, <2>2, <3>2, <3>3
  <2>4. l = p * (2 * q + 1) + (p - 1)
    BY <2>1, <2>3
  <2>5. 2 * q + 1 \in Int /\ p - 1 \in 0 .. p - 1
    BY <2>1
  <2>6. l \div p = 2 * q + 1 /\ l % p = p - 1
    BY <2>1, <2>4, <2>5, DivUnique
  <2>7. (2 * q + 1) % 2 = 1
    OBVIOUS
  <2> QED BY <2>1, <2>6, <2>7
<1> DEFINE S == {j \in Nat : l % 2 ^ j = 2 ^ j - 1}
<1>2. 0 .. k \subseteq S
  <2>1. k \in S
    OBVIOUS
  <2>2. \A j \in 0 .. k - 1 : j + 1 \in S => j \in S
    BY <1>1
  <2> HIDE DEF S
  <2> QED BY <2>1, <2>2, Descent
<1>3. \A j \in 0 .. k : l % 2 ^ j = 2 ^ j - 1
  BY <1>2
<1>4. ASSUME NEW j \in 0 .. k - 1 PROVE (l \div 2 ^ j) % 2 = 1
  <2>1. j \in Nat /\ j + 1 \in 0 .. k
    OBVIOUS
  <2>2. l % 2 ^ (j + 1) = 2 ^ (j + 1) - 1
    BY <1>3, <2>1
  <2> QED BY <1>1, <2>1, <2>2
<1> QED BY <1>3, <1>4

\* Numbers in order have quotients in order.
LEMMA DivMonotone ==
    ASSUME NEW a \in Nat, NEW b \in Nat, a <= b, NEW p \in Nat, p > 0
    PROVE  a \div p <= b \div p
<1>1. /\ a = p * (a \div p) + (a % p) /\ a % p \in 0 .. p - 1
      /\ b = p * (b \div p) + (b % p) /\ b % p \in 0 .. p - 1
  BY DivMod
<1>2. PICK x \in Int, y \in Int : x = a \div p /\ y = b \div p
  BY DivMod
<1>3. ASSUME x > y PROVE FALSE
  <2>1. p * x >= p * (y + 1)
    BY <1>2, <1>3
  <2>2. p * (y + 1) = p * y + p
    BY <1>2
  <2> QED BY <1>1, <1>2, <2>1, <2>2
<1> QED BY <1>2, <1>3

\* The bits of a number are a word.
LEMMA BitsWord == \A n : Bits(n) \in Word
BY DEF Bits, Word

\* Code from s to l that ends with a block of 2 ^ k pages and is not longer than
\* the block: first and last page are in the block.
LEMMA InBlock ==
    ASSUME NEW s \in Nat, NEW l \in Nat, NEW k \in Nat, s <= l,
           l % 2 ^ k = 2 ^ k - 1, l - s + 1 <= 2 ^ k, NEW p \in s .. l
    PROVE  p \div 2 ^ k = l \div 2 ^ k
<1>1. PICK b \in Nat : b = 2 ^ k /\ b > 0
  BY PowerNat
<1>2. PICK x \in Int : x = l \div b /\ l = b * x + (b - 1)
  BY <1>1, DivMod
<1>3. p - b * x \in 0 .. b - 1 /\ p = b * x + (p - b * x)
  <2>1. b * x \in Int
    BY <1>1, <1>2
  <2> QED BY <1>1, <1>2, <2>1
<1>4. p \div b = x
  BY <1>1, <1>2, <1>3, DivUnique
<1> QED BY <1>1, <1>2, <1>4

\* Calls inside such code are not changed by its masks.
LEMMA BlockKept ==
    ASSUME NEW s \in Nat, NEW l \in Nat, NEW k \in Nat, s <= l, l < 2 ^ Width,
           l % 2 ^ k = 2 ^ k - 1, l - s + 1 <= 2 ^ k, NEW p \in s .. l
    PROVE  Masked(Bits(p), CommonPrefix(Bits(s), Bits(l)), Bits(l)) = Bits(p)
<1>0. p \in Nat
  OBVIOUS
<1>1. ASSUME NEW i \in Bits(p) PROVE i \in Bits(l)
  <2>1. i \in Bit /\ i \in Nat /\ (p \div 2 ^ i) % 2 = 1
    BY WidthAssumption DEF Bits, Bit
  <2>2. CASE i < k
    <3>1. (l \div 2 ^ i) % 2 = 1
      BY <2>1, <2>2, EndOfBlock
    <3> QED BY <2>1, <3>1 DEF Bits
  <2>3. CASE i >= k
    <3>1. p \div 2 ^ k = l \div 2 ^ k
      BY InBlock
    <3>2. p \div 2 ^ i = l \div 2 ^ i
      BY <1>0, <2>1, <2>3, <3>1, SameFrom
    <3> QED BY <2>1, <3>2 DEF Bits
  <2> QED BY <2>1, <2>2, <2>3
<1>2. ASSUME NEW i \in CommonPrefix(Bits(s), Bits(l)) PROVE i \in Bits(p)
  <2>1. /\ i \in Bit /\ i \in Nat /\ i \in 0 .. Width /\ (s \div 2 ^ i) % 2 = 1
        /\ \A j \in Bit : j >= i => (j \in Bits(s) <=> j \in Bits(l))
    BY WidthAssumption DEF CommonPrefix, Bits, Bit
  <2>2. s < 2 ^ Width
    BY WidthAssumption, PowerNat
  <2>3. s \div 2 ^ i = l \div 2 ^ i
    BY <2>1, <2>2, SameAbove
  <2>4. PICK b \in Nat : b = 2 ^ i /\ b > 0
    BY <2>1, PowerNat
  <2>5. s \div b <= p \div b /\ p \div b <= l \div b
    BY <1>0, <2>4, DivMonotone
  <2>6. s \div b \in Nat /\ p \div b \in Nat
    BY <1>0, <2>4
  <2>7. p \div b = s \div b
    BY <2>3, <2>4, <2>5, <2>6
  <2> QED BY <2>1, <2>4, <2>7 DEF Bits
<1> QED BY <1>1, <1>2, PrefixIn, BitsWord DEF Masked

\* Masked calls of such code end above the pages that are as far below its
\* first page as it is long, and not behind its last page.
LEMMA BlockWindow ==
    ASSUME NEW s \in Nat, NEW l \in Nat, NEW k \in Nat, s <= l, l < 2 ^ Width,
           l % 2 ^ k = 2 ^ k - 1, l - s + 1 <= 2 ^ k,
           NEW q \in Nat, q < 2 ^ Width,
           Bits(q) \in Window(CommonPrefix(Bits(s), Bits(l)), Bits(l))
    PROVE  q <= l /\ q > s - (l - s + 1)
<1> DEFINE S == {i \in Nat : s \div 2 ^ i = l \div 2 ^ i}
<1>1. k \in S
  <2>1. s \in s .. l
    OBVIOUS
  <2> QED BY <2>1, InBlock
<1>2. Width \in S
  <2>1. PICK b \in Nat : b = 2 ^ Width /\ b > 0
    BY WidthAssumption, PowerNat
  <2>2. s \div b = 0 /\ l \div b = 0
    BY <2>1
  <2> QED BY <2>1, <2>2, WidthAssumption
<1>3. PICK i \in S : \A m \in S : i <= m
  BY <1>1, LeastNumber
<1>4. i \in Nat /\ i <= k /\ i <= Width /\ s \div 2 ^ i = l \div 2 ^ i
  BY <1>1, <1>2, <1>3
<1>5. ASSUME NEW j \in Bit, j >= i PROVE j \in Bits(q) <=> j \in Bits(l)
  <2>1. \A m \in Bit : m >= j => (m \in Bits(s) <=> m \in Bits(l))
    <3> SUFFICES ASSUME NEW m \in Bit, m >= j PROVE m \in Bits(s) <=> m \in Bits(l)
      OBVIOUS
    <3>1. m \in Nat /\ m >= i
      BY <1>4, <1>5, WidthAssumption DEF Bit
    <3>2. s \div 2 ^ m = l \div 2 ^ m
      BY <1>4, <3>1, SameFrom
    <3> QED BY <3>2 DEF Bits
  <2>2. j >= j
    BY WidthAssumption DEF Bit
  <2>3. j \in Bits(l) => j \in CommonPrefix(Bits(s), Bits(l))
    BY <2>1, <2>2 DEF CommonPrefix
  <2> QED BY <2>3 DEF Window
<1>6. q \div 2 ^ i = l \div 2 ^ i
  BY <1>4, <1>5, SameAbove
<1>7. PICK b \in Nat : b = 2 ^ i /\ b > 0
  BY <1>4, PowerNat
<1>8. l % b = b - 1
  BY <1>4, <1>7, EndOfBlock
<1>9. /\ l = b * (l \div b) + (b - 1)
      /\ q = b * (q \div b) + (q % b) /\ q % b \in 0 .. b - 1
  BY <1>7, <1>8, DivMod
<1>10. q <= l /\ q >= l + 1 - b
  <2>1. PICK x \in Int : x = l \div b
    BY <1>7, DivMod
  <2>2. PICK y \in Int : y = b * x
    BY <1>7, <2>1
  <2>3. l = y + (b - 1) /\ q = y + (q % b)
    BY <1>6, <1>7, <1>9, <2>1, <2>2
  <2> QED BY <1>7, <1>9, <2>2, <2>3
<1>11. CASE i = 0
  <2>1. b = 1
    BY <1>7, <1>11, PowerZero
  <2> QED BY <1>10, <2>1
<1>12. CASE i # 0
  <2>1. PICK d \in Nat : d + 1 = i
    <3>1. i - 1 \in Nat /\ (i - 1) + 1 = i
      BY <1>4, <1>12
    <3> QED BY <3>1
  <2>2. PICK c \in Nat : c = 2 ^ d /\ c > 0 /\ b = 2 * c
    BY <1>7, <2>1, PowerNat, PowerStep
  <2>3. s \div c # l \div c
    BY <1>3, <2>1, <2>2
  <2>4. s \div c <= l \div c
    BY <2>2, DivMonotone
  <2>5. l % c = c - 1
    BY <1>4, <2>1, <2>2, EndOfBlock
  <2>6. PICK x \in Int, y \in Int : x = s \div c /\ y = l \div c
    BY <2>2, DivMod
  <2>7. s = c * x + (s % c) /\ s % c \in 0 .. c - 1 /\ l = c * y + (c - 1)
    BY <2>2, <2>5, <2>6, DivMod
  <2>8. x + 1 <= y
    BY <2>3, <2>4, <2>6
  <2>9. c * (x + 1) <= c * y /\ c * (x + 1) = c * x + c
    BY <2>2, <2>6, <2>8
  <2>10. s + c <= l
    BY <2>2, <2>6, <2>7, <2>9
  <2> QED BY <1>10, <2>2, <2>10
<1> QED BY <1>11, <1>12

-----------------------------------------------------------------------------
(* find_addr.                                                              *)

\* num_bits_required finds a number of bits for every size below 2 ^ Width.
LEMMA NumBitsExists ==
    ASSUME NEW size \in Nat, size < 2 ^ Width
    PROVE  \E k \in 0 .. Width + 3 : IsNumBits(k, size)
<1> DEFINE S == {j \in Nat : size < 2 ^ (4 * j)}
<1>1. PICK w \in Nat : w = (Width + 3) \div 4 /\ 4 * w >= Width /\ 4 * w <= Width + 3
  BY WidthAssumption
<1>2. w \in S
  <2>1. 2 ^ Width <= 2 ^ (4 * w)
    BY <1>1, WidthAssumption, PowerMonotone
  <2>2. 2 ^ Width \in Nat /\ 2 ^ (4 * w) \in Nat
    BY <1>1, WidthAssumption, PowerNat
  <2> QED BY <2>1, <2>2
<1>3. PICK j \in S : \A m \in S : j <= m
  BY <1>2, LeastNumber
<1>4. 4 * j \in 0 .. Width + 3 /\ (4 * j) % 4 = 0 /\ size < 2 ^ (4 * j)
  BY <1>1, <1>2, <1>3, WidthAssumption
<1>5. CASE j = 0
  <2>1. 4 * j = 0
    BY <1>5
  <2> QED BY <1>4, <2>1 DEF IsNumBits
<1>6. CASE j # 0
  <2>1. j - 1 \in Nat /\ j - 1 \notin S /\ 4 * (j - 1) = 4 * j - 4
    BY <1>3, <1>6
  <2>2. 2 ^ (4 * (j - 1)) \in Nat
    BY <2>1, PowerNat
  <2>3. size >= 2 ^ (4 * j - 4)
    BY <2>1, <2>2
  <2> QED BY <1>4, <2>3 DEF IsNumBits
<1> QED BY <1>5, <1>6

\* The code ends with a block of 2 ^ k pages that is longer than it, below t and
\* not too far below.
LEMMA FindAddrFacts ==
    ASSUME NEW t \in Int, NEW size \in Nat, size > 0, size < 2 ^ Width
    PROVE  /\ FindAddr(t, size) \in Int
           /\ FindAddr(t, size) + size <= t
           /\ FindAddr(t, size) >= t - 17 * size
           /\ \E k \in 0 .. Width + 3 :
                 /\ size <= 2 ^ k
                 /\ (FindAddr(t, size) + size - 1) % 2 ^ k = 2 ^ k - 1
<1> DEFINE c == CHOOSE n \in 0 .. Width + 3 : IsNumBits(n, size)
<1>1. PICK k \in 0 .. Width + 3 : k = c /\ IsNumBits(k, size) /\ k \in Nat
  BY NumBitsExists, WidthAssumption
<1>2. PICK p \in Nat : p = 2 ^ k /\ p > 0
  BY PowerNat
<1>3. size < p
  BY <1>1, <1>2 DEF IsNumBits
<1>4. p <= 16 * size
  <2>1. CASE k = 0
    BY <1>2, <2>1, PowerZero
  <2>2. CASE k # 0
    <3>1. k % 4 = 0 /\ size >= 2 ^ (k - 4)
      BY <1>1, <2>2 DEF IsNumBits
    <3>2. PICK n \in Nat : n = k - 4 /\ n + 1 + 1 + 1 + 1 = k
      BY <2>2, <3>1
    <3>3. PICK q \in Nat : q = 2 ^ n
      BY PowerNat
    <3>4. 2 ^ (n + 1) = 2 * q
      BY <3>3, PowerStep
    <3>5. 2 ^ (n + 1 + 1) = 4 * q
      <4>1. n + 1 \in Nat
        OBVIOUS
      <4> QED BY <3>3, <3>4, <4>1, PowerStep
    <3>6. 2 ^ (n + 1 + 1 + 1) = 8 * q
      <4>1. n + 1 + 1 \in Nat
        OBVIOUS
      <4> QED BY <3>3, <3>5, <4>1, PowerStep
    <3>7. 2 ^ (n + 1 + 1 + 1 + 1) = 16 * q
      <4>1. n + 1 + 1 + 1 \in Nat
        OBVIOUS
      <4> QED BY <3>3, <3>6, <4>1, PowerStep
    <3>8. p = 16 * q /\ size >= q
      BY <1>2, <3>1, <3>2, <3>3, <3>7
    <3> QED BY <3>3, <3>8
  <2> QED BY <2>1, <2>2
<1>5. PICK x \in Int : x = (t - p) \div p
  BY <1>2, DivMod
<1>6. t - p = p * x + ((t - p) % p) /\ (t - p) % p \in 0 .. p - 1
  BY <1>2, <1>5, DivMod
<1>7. PICK y \in Int : y = p * x
  BY <1>2, <1>5
<1>8. FindAddr(t, size) = x * p + p - 1 - size + 1
  BY <1>1, <1>2, <1>5 DEF FindAddr
<1>9. x * p = y
  BY <1>2, <1>5, <1>7
<1>10. FindAddr(t, size) = y + p - size
  BY <1>2, <1>7, <1>8, <1>9
<1>11. /\ FindAddr(t, size) \in Int
       /\ FindAddr(t, size) + size <= t
       /\ FindAddr(t, size) >= t - 17 * size
  BY <1>2, <1>4, <1>6, <1>7, <1>10
<1>12. (FindAddr(t, size) + size - 1) % p = p - 1
  <2>1. FindAddr(t, size) + size - 1 = p * x + (p - 1)
    BY <1>2, <1>7, <1>10
  <2>2. p - 1 \in 0 .. p - 1 /\ FindAddr(t, size) + size - 1 \in Int
    BY <1>2, <1>11
  <2> QED BY <1>2, <1>5, <2>1, <2>2, DivUnique
<1> QED BY <1>2, <1>3, <1>11, <1>12

-----------------------------------------------------------------------------
(* The inductive invariant.                                                *)

LinkMaps ==
    [obj : Objects \cup Mains, l_map_start : 0 .. Top, live : BOOLEAN,
     l_exec_start : Word, l_exec_end : Word]

\* The first page of code.
Start(l) == l.l_map_start + l.obj.mapstart

\* A shared object with code.
Shared(l) == l.obj \in Objects /\ l.obj.exec > 0

CodeMaps == {i \in 1 .. Len(maps) : maps[i].obj \in Objects /\ maps[i].obj.exec > 0}

\* The extent is in the address space, and the masks are those of size pages of
\* code, which end with a block that is no shorter.
Fitted(l, size) ==
    /\ l.l_map_start > 0 /\ l.l_map_start + l.obj.len <= Top
    /\ Start(l) + size - 1 < 2 ^ Width
    /\ l.l_exec_start = CommonPrefix(Bits(Start(l)), Bits(Start(l) + size - 1))
    /\ l.l_exec_end = Bits(Start(l) + size - 1)
    /\ \E k \in 0 .. Width + 3 :
          /\ size <= 2 ^ k
          /\ (Start(l) + size - 1) % 2 ^ k = 2 ^ k - 1

BaseInv ==
    /\ started \in BOOLEAN /\ program \in Mains /\ to_mitigate \in BOOLEAN
    /\ mapped \subseteq 0 .. Top - 1
    /\ addr \in Int /\ loads \in 0 .. MaxLoads
    /\ maps \in Seq(LinkMaps)
    /\ to_load = 1 + Cardinality(CodeMaps)

\* Before the main program is moved nothing is loaded; it comes first.
MainFirst ==
    /\ ~started => /\ maps = <<>>
                   /\ \E busy \in Busy : mapped = busy \cup Extent(program.init, program.len)
    /\ \A i \in 1 .. Len(maps) : maps[i].obj \in Mains => i = 1 /\ maps[i].obj = program

\* Shared objects are fitted, each below the one before it.
CodeInv ==
    \A i \in 1 .. Len(maps) : Shared(maps[i]) =>
        /\ Fitted(maps[i], maps[i].obj.exec)
        /\ addr <= maps[i].l_map_start
        /\ \A j \in 1 .. Len(maps) : i < j /\ Shared(maps[j]) =>
              Start(maps[j]) + maps[j].obj.exec <= maps[i].l_map_start - Gap

EmptyInv ==
    \A i \in 1 .. Len(maps) : maps[i].obj \in Objects /\ maps[i].obj.exec = 0 =>
        maps[i].l_map_start = 0 /\ maps[i].l_exec_start = {} /\ maps[i].l_exec_end = {}

\* The main program is where it was to go, if that place was free.
MainInv ==
    MainRoom => \A i \in 1 .. Len(maps) : maps[i].obj \in Mains =>
        /\ maps[i].l_map_start = MainStart(program) - program.mapstart
        /\ Fitted(maps[i], MainSize(program))

ApartBy(drop) ==
    /\ \A o \in Objects : Gap + 17 * o.exec + o.mapstart <= drop
    /\ \A m \in Mains, p \in Picks \cup {Nowhere} :
          p >= MaxLoads * drop + Gap + m.init + m.len

\* Loads stay above the main program.
ApartInv ==
    \A drop \in 0 .. Top : ApartBy(drop) =>
        /\ to_load > 1 =>
              addr + loads * drop >= MaxLoads * drop + Gap + program.init + program.len
        /\ \A i \in 1 .. Len(maps) : Shared(maps[i]) =>
              maps[i].l_map_start >= Gap + program.init + program.len

MappedInv == MainRoom /\ Apart => CodeIsMapped

PInv ==
    BaseInv /\ MainFirst /\ CodeInv /\ EmptyInv /\ MainInv /\ ApartInv /\ MappedInv

-----------------------------------------------------------------------------
(* Facts about the constants and the kernel.                               *)

\* What the assumptions say of an object.
LEMMA ObjectFacts ==
    ASSUME NEW o \in Objects
    PROVE  /\ o.exec \in Nat /\ o.mapstart \in Nat
           /\ o.len \in Nat /\ o.len > 0 /\ o.align \in Nat /\ o.align > 0
           /\ o.exec > 0 => o.mapstart + o.exec <= o.len
           /\ o.exec <= Gap + o.mapstart /\ o.exec < 2 ^ Width
           /\ o \notin Mains
<1>1. o \in Object
  BY ObjectAssumption
<1>2. "align" \in DOMAIN o
  BY <1>1 DEF Object
<1>3. \A m \in Mains : DOMAIN m = {"exec", "mapstart", "len", "aligned", "init"}
  BY MainAssumption
<1>4. o \notin Mains
  BY <1>2, <1>3
<1> QED BY <1>1, <1>4, ObjectAssumption DEF Object, Fits

\* And of a main program.
LEMMA ProgramFacts ==
    ASSUME NEW m \in Mains
    PROVE  /\ m.exec \in Nat /\ m.exec > 0 /\ m.mapstart \in Nat
           /\ m.len \in Nat /\ m.len > 0 /\ m.aligned \in BOOLEAN
           /\ m.init \in Nat /\ m.init + m.len <= Top
           /\ m.mapstart + m.exec <= m.len
           /\ MainSize(m) \in Nat /\ m.exec <= MainSize(m) /\ MainSize(m) < 2 ^ Width
           /\ m \notin Objects
<1>1. /\ m.exec \in Nat /\ m.exec > 0 /\ m.mapstart \in Nat
      /\ m.len \in Nat /\ m.len > 0 /\ m.aligned \in BOOLEAN /\ m.init \in 0 .. Top - 1
  BY MainAssumption
<1>2. Fits(m) /\ m.init + m.len <= Top /\ m.exec + 1 < 2 ^ Width
  BY MainAssumption
<1>3. m \notin Objects
  BY ObjectFacts
<1>4. 2 ^ Width \in Nat
  BY WidthAssumption, PowerNat
<1>5. MainSize(m) \in Nat /\ m.exec <= MainSize(m) /\ MainSize(m) <= m.exec + 1
  BY <1>1 DEF MainSize
<1>6. MainSize(m) < 2 ^ Width
  BY <1>1, <1>2, <1>4, <1>5
<1>7. m.init \in Nat /\ m.mapstart + m.exec <= m.len
  BY <1>1, <1>2 DEF Fits
<1> QED BY <1>1, <1>2, <1>3, <1>5, <1>6, <1>7

\* The address space.
LEMMA SpaceFacts ==
    /\ Gap \in Nat /\ MaxLoads \in Nat /\ Top \in Nat /\ Top > 0
    /\ 2 ^ Width \in Nat /\ Top <= 2 ^ Width
    /\ Picks \subseteq 0 .. Top - 1 /\ \A busy \in Busy : busy \subseteq 0 .. Top - 1
<1>1. 2 ^ Width \in Nat
  BY WidthAssumption, PowerNat
<1> QED BY <1>1, SpaceAssumption

\* Rounding up moves an address by less than the alignment.
LEMMA AlignUpFacts ==
    ASSUME NEW a \in Nat, NEW n \in Nat, n > 0
    PROVE  AlignUp(a, n) \in Nat /\ AlignUp(a, n) >= a /\ AlignUp(a, n) <= a + n - 1
<1>1. PICK x \in Int : x = (a + n - 1) \div n
  BY DivMod
<1>2. a + n - 1 \in Int
  OBVIOUS
<1>3. a + n - 1 = n * x + ((a + n - 1) % n) /\ (a + n - 1) % n \in 0 .. n - 1
  BY <1>1, <1>2, DivMod
<1>4. AlignUp(a, n) = n * x
  BY <1>1 DEF AlignUp
<1>5. PICK y \in Int : y = n * x
  BY <1>1
<1> QED BY <1>3, <1>4, <1>5

\* A mapping that succeeds is in the address space and takes free pages only.
\* The kernel's own choice is not below the lowest address it picks.
LEMMA MapSegmentFacts ==
    ASSUME NEW used \in SUBSET (0 .. Top - 1), NEW o \in Objects, NEW pref \in Int,
           NEW got \in MapSegment(used, o, pref)
    PROVE  /\ got.start \in Nat /\ got.start <= Top
           /\ used \subseteq got.pages /\ got.pages \subseteq 0 .. Top - 1
           /\ got.start # Nowhere =>
                 /\ got.start > 0 /\ got.start + o.len <= Top
                 /\ Extent(got.start, o.len) \cap used = {}
                 /\ Extent(got.start, o.len) \subseteq got.pages
           /\ pref <= 0 => \E p \in Picks \cup {Nowhere} : got.start >= p
<1>1. PICK r \in Mmap(used, pref, Reserved(o)) :
           got = IF r = Nowhere
                 THEN [start |-> Nowhere, pages |-> used]
                 ELSE [start |-> AlignUp(r, o.align),
                       pages |-> used \cup Extent(AlignUp(r, o.align), o.len)]
  BY DEF MapSegment
<1>2. CASE r = Nowhere
  <2>1. got.start = Nowhere /\ got.pages = used
    BY <1>1, <1>2
  <2> QED BY <2>1, SpaceFacts DEF Nowhere
<1>3. CASE r # Nowhere
  <2>1. got.start = AlignUp(r, o.align) /\ got.pages = used \cup Extent(got.start, o.len)
    BY <1>1, <1>3
  <2>2. IsFree(used, r, Reserved(o)) /\ (pref <= 0 => r \in Picks) /\ r \in Int
    BY <1>1, <1>3, SpaceFacts DEF Mmap, IsFree, Nowhere
  <2>3. /\ o.len \in Nat /\ o.len > 0 /\ o.align \in Nat /\ o.align > 0
    BY ObjectFacts
  <2>4. r \in Nat /\ r > 0
    BY <2>2 DEF IsFree
  <2>5. PICK a \in Nat : a = got.start /\ a >= r /\ a <= r + o.align - 1
    BY <2>1, <2>3, <2>4, AlignUpFacts
  <2>6. o.align = 1 => a = r
    BY <2>4, <2>5
  <2>7. PICK n \in Nat : n = Reserved(o) /\ a + o.len <= r + n
    <3>1. CASE o.align = 1
      BY <2>3, <2>4, <2>5, <2>6, <3>1 DEF Reserved
    <3>2. CASE o.align # 1 /\ o.len >= o.align
      BY <2>3, <2>4, <2>5, <3>2 DEF Reserved
    <3>3. CASE o.align # 1 /\ ~(o.len >= o.align)
      BY <2>3, <2>4, <2>5, <3>3 DEF Reserved
    <3> QED BY <3>1, <3>2, <3>3
  <2>8. r + n <= Top /\ Extent(r, n) \cap used = {}
    BY <2>2, <2>7 DEF IsFree
  <2>9. Extent(a, o.len) \subseteq Extent(r, n) /\ Extent(a, o.len) \subseteq 0 .. Top - 1
    BY <2>3, <2>4, <2>5, <2>7, <2>8, SpaceFacts DEF Extent
  <2>10. a > 0 /\ a + o.len <= Top /\ Extent(a, o.len) \cap used = {}
    BY <2>3, <2>4, <2>5, <2>7, <2>8, <2>9, SpaceFacts
  <2>11. a <= Top
    BY <2>3, <2>10, SpaceFacts
  <2>12. pref <= 0 => \E p \in Picks \cup {Nowhere} : a >= p
    BY <2>2, <2>5
  <2>13. used \subseteq got.pages /\ got.pages \subseteq 0 .. Top - 1
         /\ Extent(a, o.len) \subseteq got.pages
    BY <2>1, <2>5, <2>9
  <2> QED BY <2>5, <2>10, <2>11, <2>12, <2>13
<1> QED BY <1>2, <1>3

-----------------------------------------------------------------------------
(* Steps and the list of link maps.                                        *)

\* A new link map comes last.
LEMMA AppendFacts ==
    ASSUME maps \in Seq(LinkMaps), NEW e \in LinkMaps, maps' = Append(maps, e)
    PROVE  /\ maps' \in Seq(LinkMaps) /\ Len(maps) \in Nat /\ Len(maps') = Len(maps) + 1
           /\ \A i \in 1 .. Len(maps) : maps'[i] = maps[i]
           /\ maps'[Len(maps) + 1] = e
OBVIOUS

\* A link map has its fields.
LEMMA LinkMapFacts ==
    ASSUME maps \in Seq(LinkMaps), NEW i \in 1 .. Len(maps)
    PROVE  /\ maps[i] \in LinkMaps
           /\ maps[i].obj \in Objects \cup Mains /\ maps[i].l_map_start \in 0 .. Top
           /\ maps[i].live \in BOOLEAN
           /\ maps[i].l_exec_start \in Word /\ maps[i].l_exec_end \in Word
<1>1. maps[i] \in LinkMaps
  OBVIOUS
<1>2. \A l \in LinkMaps :
         /\ l.obj \in Objects \cup Mains /\ l.l_map_start \in 0 .. Top
         /\ l.live \in BOOLEAN
         /\ l.l_exec_start \in Word /\ l.l_exec_end \in Word
  BY DEF LinkMaps
<1> QED BY <1>1, <1>2

\* The sizes and addresses of what is loaded are numbers.
LEMMA MapNumbers ==
    ASSUME BaseInv, NEW i \in 1 .. Len(maps)
    PROVE  /\ maps[i].l_map_start \in Nat
           /\ maps[i].obj.exec \in Nat /\ maps[i].obj.mapstart \in Nat
<1>1. maps[i].obj \in Objects \cup Mains /\ maps[i].l_map_start \in 0 .. Top
  BY LinkMapFacts DEF BaseInv
<1>2. maps[i].l_map_start \in Nat
  <2>1. Top \in Nat
    BY SpaceFacts
  <2> QED BY <1>1, <2>1
<1>3. CASE maps[i].obj \in Objects
  BY <1>2, <1>3, ObjectFacts
<1>4. CASE maps[i].obj \in Mains
  BY <1>2, <1>4, ProgramFacts
<1> QED BY <1>1, <1>3, <1>4

\* Only a shared object is without code.
LEMMA WithoutCode ==
    ASSUME BaseInv, NEW i \in 1 .. Len(maps), ~(maps[i].obj.exec > 0)
    PROVE  maps[i].obj \in Objects /\ maps[i].obj.exec = 0
<1>1. maps[i].obj \in Objects \cup Mains
  BY LinkMapFacts DEF BaseInv
<1>2. maps[i].obj \notin Mains
  BY ProgramFacts
<1>3. PICK n \in Nat : n = maps[i].obj.exec
  BY MapNumbers
<1>4. n = 0
  BY <1>3
<1> QED BY <1>1, <1>2, <1>3, <1>4

\* The pages of an object.
Whole(l) == Extent(l.l_map_start, l.obj.len)

\* A step that neither adds a link map nor moves one.
SameLayout ==
    /\ Len(maps') = Len(maps) /\ maps' \in Seq(LinkMaps)
    /\ \A i \in 1 .. Len(maps) :
          /\ maps'[i].obj = maps[i].obj /\ maps'[i].l_map_start = maps[i].l_map_start
          /\ maps'[i].l_exec_start = maps[i].l_exec_start
          /\ maps'[i].l_exec_end = maps[i].l_exec_end
          /\ maps'[i].live => maps[i].live

\* Such a step keeps what is said of the link maps alone.
LEMMA SameLayoutKeeps ==
    ASSUME BaseInv, CodeInv, EmptyInv, MainInv, SameLayout, program' = program,
           \A i \in 1 .. Len(maps) : Shared(maps[i]) => addr' <= maps[i].l_map_start
    PROVE  /\ CodeMaps' = CodeMaps /\ CodeInv' /\ EmptyInv' /\ MainInv'
<1>1. CodeMaps' = CodeMaps
  BY DEF SameLayout, CodeMaps
<1>2. \A i \in 1 .. Len(maps) :
         /\ Shared(maps'[i]) <=> Shared(maps[i])
         /\ Start(maps'[i]) = Start(maps[i])
         /\ \A size : Fitted(maps[i], size) => Fitted(maps'[i], size)
  BY DEF SameLayout, Shared, Start, Fitted
<1>3. CodeInv'
  <2> SUFFICES ASSUME NEW i \in 1 .. Len(maps), Shared(maps'[i])
               PROVE  /\ Fitted(maps'[i], maps'[i].obj.exec)
                      /\ addr' <= maps'[i].l_map_start
                      /\ \A j \in 1 .. Len(maps) : i < j /\ Shared(maps'[j]) =>
                            Start(maps'[j]) + maps'[j].obj.exec <= maps'[i].l_map_start - Gap
    BY DEF SameLayout, CodeInv
  <2>1. Shared(maps[i]) /\ maps'[i].obj = maps[i].obj /\ maps'[i].l_map_start = maps[i].l_map_start
    BY <1>2 DEF SameLayout
  <2>2. Fitted(maps'[i], maps'[i].obj.exec)
    BY <1>2, <2>1 DEF CodeInv
  <2>3. ASSUME NEW j \in 1 .. Len(maps), i < j, Shared(maps'[j])
        PROVE  Start(maps'[j]) + maps'[j].obj.exec <= maps'[i].l_map_start - Gap
    <3>1. Shared(maps[j]) /\ Start(maps'[j]) = Start(maps[j]) /\ maps'[j].obj = maps[j].obj
      BY <1>2, <2>3 DEF SameLayout
    <3> QED BY <2>1, <2>3, <3>1 DEF CodeInv
  <2> QED BY <2>1, <2>2, <2>3
<1>4. EmptyInv'
  BY DEF SameLayout, EmptyInv
<1>5. MainInv'
  BY <1>2 DEF SameLayout, MainInv
<1> QED BY <1>1, <1>3, <1>4, <1>5

\* What placing code does.
LEMMA PlaceFacts ==
    ASSUME NEW used \in SUBSET (0 .. Top - 1), NEW o \in Objects, NEW start \in Int,
           start < Top, Place(used, o, start)
    PROVE  /\ addr' = start - o.mapstart /\ addr' \in Int
           /\ used \subseteq mapped' /\ mapped' \subseteq 0 .. Top - 1
           /\ \/ maps' = maps /\ to_load' = to_load
              \/ /\ maps' = Append(maps, LinkMap(o, addr', start, o.exec))
                 /\ to_load' = to_load + 1
                 /\ addr' > 0 /\ addr' + o.len <= Top
                 /\ Extent(addr', o.len) \cap used = {}
                 /\ Extent(addr', o.len) \subseteq mapped'
<1>1. PICK pref \in Int : pref = start - o.mapstart
  BY ObjectFacts
<1>2. PICK got \in MapSegment(used, o, pref) :
        /\ addr' = pref
        /\ mapped' = got.pages
        /\ \/ /\ got.start = addr'
              /\ maps' = Append(maps, LinkMap(o, got.start, start, o.exec))
              /\ to_load' = to_load + 1
           \/ got.start # addr' /\ UNCHANGED <<maps, to_load>>
  BY <1>1 DEF Place
<1>3. /\ used \subseteq got.pages /\ got.pages \subseteq 0 .. Top - 1
      /\ got.start # Nowhere =>
            /\ got.start > 0 /\ got.start + o.len <= Top
            /\ Extent(got.start, o.len) \cap used = {}
            /\ Extent(got.start, o.len) \subseteq got.pages
  BY MapSegmentFacts
<1>4. CASE UNCHANGED <<maps, to_load>>
  BY <1>1, <1>2, <1>3, <1>4
<1>5. CASE /\ got.start = addr'
           /\ maps' = Append(maps, LinkMap(o, got.start, start, o.exec))
           /\ to_load' = to_load + 1
  <2>1. maps' = Append(maps, LinkMap(o, addr', start, o.exec))
    BY <1>5
  <2>2. got.start # Nowhere
    BY <1>1, <1>2, <1>5, ObjectFacts, SpaceFacts DEF Nowhere
  <2> QED BY <1>1, <1>2, <1>3, <1>5, <2>1, <2>2
<1> QED BY <1>2, <1>4, <1>5

\* The link map of code that got its place is fitted.
LEMMA PlacedFits ==
    ASSUME NEW o \in Objects, o.exec > 0, NEW t \in Int, t <= Top,
           NEW b \in Int, b = FindAddr(t, o.exec) - o.mapstart, b > 0, b + o.len <= Top,
           NEW e, e = LinkMap(o, b, FindAddr(t, o.exec), o.exec)
    PROVE  /\ e \in LinkMaps /\ e.obj = o /\ e.l_map_start = b /\ e.live
           /\ Shared(e) /\ Start(e) + o.exec <= t /\ Fitted(e, o.exec)
<1>1. /\ o.exec \in Nat /\ o.exec > 0 /\ o.exec < 2 ^ Width
      /\ o.mapstart \in Nat /\ o.len \in Nat
  BY ObjectFacts
<1>2. PICK start \in Int : start = FindAddr(t, o.exec)
  BY <1>1, FindAddrFacts
<1>3. /\ start + o.exec <= t
      /\ \E k \in 0 .. Width + 3 :
            /\ o.exec <= 2 ^ k
            /\ (start + o.exec - 1) % 2 ^ k = 2 ^ k - 1
  BY <1>1, <1>2, FindAddrFacts
<1>4. start + o.exec - 1 < 2 ^ Width
  BY <1>1, <1>3, SpaceFacts
<1>5. /\ e.obj = o /\ e.l_map_start = b /\ e.live = TRUE
      /\ e.l_exec_start = CommonPrefix(Bits(start), Bits(start + o.exec - 1))
      /\ e.l_exec_end = Bits(start + o.exec - 1)
  BY <1>2 DEF LinkMap
<1>6. Bits(start) \in Word /\ Bits(start + o.exec - 1) \in Word
  BY BitsWord
<1>7. CommonPrefix(Bits(start), Bits(start + o.exec - 1)) \in Word
  BY <1>6, PrefixIn
<1>8. b \in 0 .. Top
  BY <1>1, SpaceFacts
<1>9. e \in LinkMaps
  BY <1>2, <1>6, <1>7, <1>8 DEF LinkMap, LinkMaps
<1>10. Start(e) = start
  BY <1>1, <1>2, <1>5 DEF Start
<1>11. Fitted(e, o.exec)
  BY <1>3, <1>4, <1>5, <1>10 DEF Fitted
<1>12. Shared(e)
  BY <1>5 DEF Shared
<1> QED BY <1>3, <1>5, <1>9, <1>10, <1>11, <1>12

\* An object without code ends below all others, if the main program is apart.
LEMMA EmptyBelow ==
    ASSUME Apart, NEW o \in Objects, o.exec = 0, NEW m \in Mains
    PROVE  /\ o.len <= MainStart(m) - m.mapstart
           /\ MainStart(m) \in Int /\ MainStart(m) - m.mapstart <= m.init
           /\ MainStart(m) + MainSize(m) <= m.init + m.mapstart - Gap
<1>1. /\ m.mapstart \in Nat /\ m.init \in Nat /\ m.exec \in Nat /\ m.exec > 0
      /\ MainSize(m) \in Nat /\ m.exec <= MainSize(m) /\ MainSize(m) < 2 ^ Width
  BY ProgramFacts
<1>2. m.init + m.mapstart - Gap \in Int /\ MainSize(m) > 0
  BY <1>1, SpaceFacts
<1>3. MainStart(m) \in Int /\ MainStart(m) + MainSize(m) <= m.init + m.mapstart - Gap
  BY <1>1, <1>2, FindAddrFacts DEF MainStart
<1>4. MainStart(m) - m.mapstart <= m.init
  BY <1>1, <1>3, SpaceFacts
<1> QED BY <1>3, <1>4 DEF Apart

\* The target t of a load is a gap below all shared objects.
BelowShared(t) ==
    \A i \in 1 .. Len(maps) : Shared(maps[i]) => t <= maps[i].l_map_start - Gap

\* The target t of a load leaves room above the main program for the loads to come.
AboveMain(t) ==
    \A drop \in 0 .. Top : ApartBy(drop) =>
        t + Gap + loads * drop >= MaxLoads * drop + Gap + program.init + program.len

\* Loading code keeps the invariant, whether it succeeds or not, if its target t
\* is a gap below all shared objects and far enough above the main program.
LEMMA PlaceKeeps ==
    ASSUME PInv, started, NEW o \in Objects, o.exec > 0, loads < MaxLoads, loads' = loads + 1,
           UNCHANGED <<started, program, to_mitigate>>,
           NEW used \in SUBSET (0 .. Top - 1), mapped \subseteq used,
           NEW t \in Int, t <= Top, Place(used, o, FindAddr(t, o.exec)),
           BelowShared(t), AboveMain(t)
    PROVE  PInv'
<1>0. BaseInv /\ MainFirst /\ CodeInv /\ EmptyInv /\ MainInv /\ ApartInv /\ MappedInv
  BY DEF PInv
<1>1. /\ o.exec \in Nat /\ o.exec > 0 /\ o.exec < 2 ^ Width
      /\ o.mapstart \in Nat /\ o.len \in Nat
  BY ObjectFacts
<1>2. PICK start \in Int : /\ start = FindAddr(t, o.exec) /\ start + o.exec <= t
                           /\ start >= t - 17 * o.exec
  BY <1>1, FindAddrFacts
<1>3. PICK b \in Int : b = addr' /\ b = start - o.mapstart
  <2>1. start < Top
    BY <1>1, <1>2, SpaceFacts
  <2>2. addr' = start - o.mapstart /\ addr' \in Int
    BY <1>2, <2>1, PlaceFacts
  <2> QED BY <2>2
<1>4. /\ used \subseteq mapped' /\ mapped' \subseteq 0 .. Top - 1
      /\ \/ maps' = maps /\ to_load' = to_load
         \/ /\ maps' = Append(maps, LinkMap(o, b, start, o.exec))
            /\ to_load' = to_load + 1
            /\ b > 0 /\ b + o.len <= Top
            /\ Extent(b, o.len) \cap used = {}
            /\ Extent(b, o.len) \subseteq mapped'
  <2>1. start < Top
    BY <1>1, <1>2, SpaceFacts
  <2> QED BY <1>2, <1>3, <2>1, PlaceFacts
<1>5. b + o.mapstart + o.exec <= t /\ b <= t
  BY <1>1, <1>2, <1>3
<1>6. \A i \in 1 .. Len(maps) : maps[i].l_map_start \in Nat
  BY <1>0, MapNumbers
<1>7. \A i \in 1 .. Len(maps) : Shared(maps[i]) =>
         b <= maps[i].l_map_start /\ t <= maps[i].l_map_start - Gap
  <2> SUFFICES ASSUME NEW i \in 1 .. Len(maps), Shared(maps[i])
               PROVE  b <= maps[i].l_map_start /\ t <= maps[i].l_map_start - Gap
    OBVIOUS
  <2>1. PICK u \in Nat : u = maps[i].l_map_start
    BY <1>6
  <2>2. t <= u - Gap
    BY <2>1 DEF BelowShared
  <2>3. Gap \in Nat
    BY SpaceFacts
  <2>4. b <= u
    BY <1>5, <2>2, <2>3
  <2> QED BY <2>1, <2>2, <2>4
<1>8. loads' \in 0 .. MaxLoads /\ program \in Mains /\ program' = program
  BY <1>0, SpaceFacts DEF BaseInv
<1>9. ASSUME NEW drop \in 0 .. Top, ApartBy(drop)
      PROVE  /\ b + loads' * drop >= MaxLoads * drop + Gap + program.init + program.len
             /\ b >= Gap + program.init + program.len
  <2>1. /\ loads \in Nat /\ loads' \in Nat /\ loads' <= MaxLoads /\ drop \in Nat
        /\ Gap \in Nat /\ MaxLoads \in Nat
    BY <1>0, SpaceFacts DEF BaseInv
  <2>2. PICK c \in Nat : c = program.init + program.len
    BY <1>8, ProgramFacts
  <2>3. t + Gap + loads * drop >= MaxLoads * drop + Gap + c
    <3>1. t + Gap + loads * drop >= MaxLoads * drop + Gap + program.init + program.len
      BY <1>9 DEF AboveMain
    <3>2. program.init \in Nat /\ program.len \in Nat
      BY <1>8, ProgramFacts
    <3>3. PICK y \in Int : y = MaxLoads * drop
      BY <2>1
    <3>4. y + Gap + program.init + program.len = y + Gap + c
      BY <2>1, <2>2, <3>2
    <3> QED BY <3>1, <3>3, <3>4
  <2>4. Gap + 17 * o.exec + o.mapstart <= drop
    BY <1>9 DEF ApartBy
  <2>5. PICK x \in Int, y \in Int, z \in Int :
             /\ x = loads * drop /\ y = MaxLoads * drop /\ z = loads' * drop
             /\ z = x + drop /\ z <= y
    <3>1. (loads + 1) * drop = loads * drop + drop
      BY <2>1
    <3>2. loads' * drop <= MaxLoads * drop
      BY <2>1
    <3> QED BY <2>1, <3>1, <3>2
  <2>6. b >= t - drop + Gap
    <3>1. PICK m \in Nat, w \in Nat : m = o.mapstart /\ w = o.exec
      BY <1>1
    <3>2. b = start - m /\ start >= t - 17 * w
      BY <1>2, <1>3, <3>1
    <3>3. Gap + 17 * w + m <= drop
      BY <2>4, <3>1
    <3> QED BY <2>1, <3>2, <3>3
  <2>7. b + z >= y + Gap + c
    <3>1. t + Gap + x >= y + Gap + c
      BY <2>3, <2>5
    <3>2. z = x + drop /\ Gap \in Nat /\ drop \in Nat
      BY <2>1, <2>5
    <3> QED BY <2>6, <3>1, <3>2
  <2>8. b >= Gap + c
    <3>1. z <= y /\ Gap \in Nat
      BY <2>1, <2>5
    <3> QED BY <2>7, <3>1
  <2>9. program.init \in Nat /\ program.len \in Nat
    BY <1>8, ProgramFacts
  <2>10. y + Gap + program.init + program.len = y + Gap + c
         /\ Gap + program.init + program.len = Gap + c
    BY <2>1, <2>2, <2>5, <2>9
  <2> QED BY <2>5, <2>7, <2>8, <2>10
<1>10. CASE maps' = maps /\ to_load' = to_load
  <2>1. SameLayout
    BY <1>0, <1>10 DEF SameLayout, BaseInv
  <2>2. CodeMaps' = CodeMaps /\ CodeInv' /\ EmptyInv' /\ MainInv'
    BY <1>0, <1>3, <1>7, <1>8, <2>1, SameLayoutKeeps
  <2>3. BaseInv'
    BY <1>0, <1>3, <1>4, <1>8, <1>10, <2>2 DEF BaseInv
  <2>4. MainFirst'
    BY <1>0, <1>10 DEF MainFirst
  <2>5. ApartInv'
    BY <1>0, <1>3, <1>8, <1>9, <1>10 DEF ApartInv, ApartBy
  <2>6. MappedInv'
    BY <1>0, <1>4, <1>10 DEF MappedInv, CodeIsMapped, Pages, Live
  <2> QED BY <2>2, <2>3, <2>4, <2>5, <2>6 DEF PInv
<1>11. CASE /\ maps' = Append(maps, LinkMap(o, b, start, o.exec))
            /\ to_load' = to_load + 1
            /\ b > 0 /\ b + o.len <= Top
            /\ Extent(b, o.len) \cap used = {}
            /\ Extent(b, o.len) \subseteq mapped'
  <2>1. PICK e : e = LinkMap(o, b, start, o.exec)
    OBVIOUS
  <2>2. /\ e \in LinkMaps /\ e.obj = o /\ e.l_map_start = b /\ e.live
        /\ Shared(e) /\ Start(e) + o.exec <= t /\ Fitted(e, o.exec)
    BY <1>2, <1>3, <1>11, <2>1, PlacedFits
  <2>3. PICK n \in Nat : n = Len(maps)
    BY <1>0 DEF BaseInv
  <2>4. /\ maps' \in Seq(LinkMaps) /\ Len(maps') = n + 1
        /\ \A i \in 1 .. n : maps'[i] = maps[i]
        /\ maps'[n + 1] = e
    BY <1>0, <1>11, <2>1, <2>2, <2>3, AppendFacts DEF BaseInv
  <2>5. \A i \in 1 .. n + 1 : i \in 1 .. n \/ i = n + 1
    BY <2>3
  <2>6. BaseInv'
    <3>1. CodeMaps' = CodeMaps \cup {n + 1}
      <4>1. n + 1 \in CodeMaps'
        BY <2>2, <2>3, <2>4 DEF CodeMaps, Shared
      <4>2. ASSUME NEW i \in 1 .. n PROVE i \in CodeMaps' <=> i \in CodeMaps
        BY <2>3, <2>4 DEF CodeMaps
      <4>3. CodeMaps \subseteq 1 .. n /\ CodeMaps' \subseteq 1 .. n + 1
        BY <2>3, <2>4 DEF CodeMaps
      <4> QED BY <2>5, <4>1, <4>2, <4>3
    <3>2. IsFiniteSet(CodeMaps) /\ n + 1 \notin CodeMaps
      <4>1. CodeMaps \subseteq 1 .. n
        BY <2>3 DEF CodeMaps
      <4>2. IsFiniteSet(1 .. n)
        BY <2>3, FS_Interval
      <4>3. IsFiniteSet(CodeMaps)
        BY <4>1, <4>2, FS_Subset
      <4>4. n + 1 \notin 1 .. n
        BY <2>3
      <4> QED BY <4>1, <4>3, <4>4
    <3>3. Cardinality(CodeMaps') = Cardinality(CodeMaps) + 1 /\ Cardinality(CodeMaps) \in Nat
      BY <3>1, <3>2, FS_AddElement, FS_CardinalityType
    <3>4. to_load' = 1 + Cardinality(CodeMaps')
      BY <1>0, <1>11, <3>3 DEF BaseInv
    <3> QED BY <1>0, <1>3, <1>4, <1>8, <2>4, <3>4 DEF BaseInv
  <2>7. MainFirst'
    <3>1. e.obj \notin Mains
      BY <2>2, ObjectFacts
    <3> QED BY <1>0, <1>8, <2>3, <2>4, <2>5, <3>1 DEF MainFirst
  <2>8. CodeInv'
    <3> SUFFICES ASSUME NEW i \in 1 .. n + 1, Shared(maps'[i])
                 PROVE  /\ Fitted(maps'[i], maps'[i].obj.exec)
                        /\ b <= maps'[i].l_map_start
                        /\ \A j \in 1 .. n + 1 : i < j /\ Shared(maps'[j]) =>
                              Start(maps'[j]) + maps'[j].obj.exec <= maps'[i].l_map_start - Gap
      BY <1>3, <2>4 DEF CodeInv
    <3>1. CASE i = n + 1
      <4>1. \A j \in 1 .. n + 1 : ~(i < j)
        BY <2>3, <3>1
      <4>2. maps'[i] = e /\ b <= b
        BY <2>4, <3>1
      <4> QED BY <2>2, <4>1, <4>2
    <3>2. CASE i \in 1 .. n
      <4>1. maps'[i] = maps[i] /\ Shared(maps[i])
        BY <2>4, <3>2
      <4>2. Fitted(maps[i], maps[i].obj.exec)
        BY <1>0, <2>3, <3>2, <4>1 DEF CodeInv
      <4>3. b <= maps[i].l_map_start /\ t <= maps[i].l_map_start - Gap
        BY <1>7, <2>3, <3>2, <4>1
      <4>4. ASSUME NEW j \in 1 .. n + 1, i < j, Shared(maps'[j])
            PROVE  Start(maps'[j]) + maps'[j].obj.exec <= maps[i].l_map_start - Gap
        <5>1. CASE j = n + 1
          <6>1. maps[i].l_map_start \in Nat
            BY <1>6, <2>3, <3>2
          <6>2. PICK u \in Int : u = Start(e) + o.exec
            BY <1>1, <1>3, <2>2 DEF Start
          <6>3. u <= maps[i].l_map_start - Gap
            <7>1. PICK v \in Int : v = maps[i].l_map_start - Gap
              BY <6>1, SpaceFacts
            <7>2. u <= t /\ t <= v
              BY <2>2, <4>3, <6>2, <7>1
            <7>3. u <= v
              BY <7>2
            <7> QED BY <7>1, <7>3
          <6> QED BY <2>2, <2>4, <5>1, <6>2, <6>3
        <5>2. CASE j \in 1 .. n
          <6>1. maps'[j] = maps[j]
            BY <2>4, <5>2
          <6> QED BY <1>0, <2>3, <3>2, <4>1, <4>4, <5>2, <6>1 DEF CodeInv
        <5> QED BY <2>5, <5>1, <5>2
      <4> QED BY <4>1, <4>2, <4>3, <4>4
    <3> QED BY <2>5, <3>1, <3>2
  <2>9. EmptyInv'
    <3>1. ~(e.obj.exec = 0)
      <4>1. o.exec # 0
        BY <1>1
      <4> QED BY <2>2, <4>1
    <3> QED BY <1>0, <2>3, <2>4, <2>5, <3>1 DEF EmptyInv
  <2>10. MainInv'
    <3>1. e.obj \notin Mains
      BY <2>2, ObjectFacts
    <3> QED BY <1>0, <1>8, <2>3, <2>4, <2>5, <3>1 DEF MainInv
  <2>11. ApartInv'
    <3> SUFFICES ASSUME NEW drop \in 0 .. Top, ApartBy(drop)
                 PROVE  /\ b + loads' * drop >= MaxLoads * drop + Gap + program.init + program.len
                        /\ \A i \in 1 .. n + 1 : Shared(maps'[i]) =>
                              maps'[i].l_map_start >= Gap + program.init + program.len
      BY <1>3, <1>8, <2>4 DEF ApartInv, ApartBy
    <3>1. /\ b + loads' * drop >= MaxLoads * drop + Gap + program.init + program.len
          /\ b >= Gap + program.init + program.len
      BY <1>9
    <3>2. ASSUME NEW i \in 1 .. n + 1, Shared(maps'[i])
          PROVE  maps'[i].l_map_start >= Gap + program.init + program.len
      <4>1. CASE i = n + 1
        BY <2>2, <2>4, <3>1, <4>1
      <4>2. CASE i \in 1 .. n
        BY <1>0, <2>3, <2>4, <3>2, <4>2 DEF ApartInv
      <4> QED BY <2>5, <4>1, <4>2
    <3> QED BY <3>1, <3>2
  <2>12. MappedInv'
    <3> SUFFICES ASSUME MainRoom, Apart PROVE CodeIsMapped'
      BY DEF MappedInv
    <3>1. \A i \in 1 .. n : maps[i].live /\ maps[i].obj.exec > 0 =>
             /\ Whole(maps[i]) \subseteq mapped
             /\ \A j \in 1 .. n : maps[j].live /\ i # j => Whole(maps[i]) \cap Whole(maps[j]) = {}
      BY <1>0, <2>3 DEF MappedInv, CodeIsMapped, Pages, Live, Whole
    <3>2. Whole(e) = Extent(b, o.len)
      BY <2>2 DEF Whole
    <3>3. ASSUME NEW j \in 1 .. n, maps[j].live PROVE Whole(e) \cap Whole(maps[j]) = {}
      <4>1. CASE maps[j].obj.exec > 0
        BY <1>11, <3>1, <3>2, <3>3, <4>1
      <4>2. CASE ~(maps[j].obj.exec > 0)
        <5>1. maps[j].obj \in Objects /\ maps[j].obj.exec = 0
          BY <1>0, <2>3, <4>2, WithoutCode
        <5>2. maps[j].l_map_start = 0
          BY <1>0, <2>3, <5>1 DEF EmptyInv
        <5>3. PICK d \in Nat : d = maps[j].obj.len
          BY <5>1, ObjectFacts
        <5>4. d <= MainStart(program) - program.mapstart /\ MainStart(program) \in Int
              /\ MainStart(program) - program.mapstart <= program.init
          BY <1>8, <5>1, <5>3, EmptyBelow
        <5>5. b >= Gap + program.init + program.len
          BY <1>9 DEF Apart, ApartBy
        <5>6. /\ program.init \in Nat /\ program.len \in Nat /\ program.mapstart \in Nat
          BY <1>8, ProgramFacts
        <5>7. d <= b
          <6>1. PICK x \in Int : x = MainStart(program) - program.mapstart
            BY <5>4, <5>6
          <6>2. PICK y \in Nat, z \in Nat : y = program.init /\ z = program.len
            BY <5>6
          <6>3. d <= x /\ x <= y
            BY <5>4, <6>1, <6>2
          <6>4. b >= Gap + y + z
            BY <5>5, <6>2
          <6>5. Gap \in Nat
            BY SpaceFacts
          <6>6. Gap + y + z >= y
            BY <6>5
          <6>7. y <= b
            BY <6>4, <6>5, <6>6
          <6> QED BY <6>3, <6>7
        <5>8. Whole(maps[j]) = 0 .. d - 1 /\ Whole(e) = b .. b + o.len - 1
          BY <3>2, <5>2, <5>3 DEF Whole, Extent
        <5>9. PICK f \in Int : f = b + o.len - 1
          BY <1>1
        <5>10. (b .. f) \cap (0 .. d - 1) = {}
          BY <5>7
        <5> QED BY <5>8, <5>9, <5>10
      <4> QED BY <4>1, <4>2
    <3>4. ASSUME NEW i \in 1 .. n + 1, maps'[i].live, maps'[i].obj.exec > 0
          PROVE  /\ Whole(maps'[i]) \subseteq mapped'
                 /\ \A j \in 1 .. n + 1 : maps'[j].live /\ i # j =>
                       Whole(maps'[i]) \cap Whole(maps'[j]) = {}
      <4>1. CASE i = n + 1
        <5>1. maps'[i] = e
          BY <2>4, <4>1
        <5>2. \A j \in 1 .. n + 1 : i # j => j \in 1 .. n /\ maps'[j] = maps[j]
          BY <2>4, <2>5, <4>1
        <5> QED BY <1>11, <3>2, <3>3, <5>1, <5>2
      <4>2. CASE i \in 1 .. n
        <5>1. maps'[i] = maps[i]
          BY <2>4, <4>2
        <5>2. Whole(maps[i]) \subseteq mapped'
          BY <1>4, <3>1, <3>4, <4>2, <5>1
        <5>3. ASSUME NEW j \in 1 .. n + 1, maps'[j].live, i # j
              PROVE  Whole(maps[i]) \cap Whole(maps'[j]) = {}
          <6>1. CASE j = n + 1
            BY <2>4, <3>3, <3>4, <4>2, <5>1, <6>1
          <6>2. CASE j \in 1 .. n
            <7>1. maps'[j] = maps[j]
              BY <2>4, <6>2
            <7> QED BY <3>1, <3>4, <4>2, <5>1, <5>3, <6>2, <7>1
          <6> QED BY <2>5, <6>1, <6>2
        <5> QED BY <5>1, <5>2, <5>3
      <4> QED BY <2>5, <4>1, <4>2
    <3> QED BY <2>4, <3>4 DEF CodeIsMapped, Pages, Live, Whole
  <2> QED BY <2>6, <2>7, <2>8, <2>9, <2>10, <2>11, <2>12 DEF PInv
<1> QED BY <1>4, <1>10, <1>11

\* If the main program is apart, code lies above every object without code.
LEMMA CodeAboveEmpty ==
    ASSUME PInv, MainRoom, Apart, NEW i \in 1 .. Len(maps), maps[i].obj.exec > 0,
           NEW o \in Objects, o.exec = 0
    PROVE  maps[i].l_map_start \in Nat /\ o.len <= maps[i].l_map_start
<1>0. BaseInv /\ MainFirst /\ MainInv /\ ApartInv
  BY DEF PInv
<1>1. maps[i].obj \in Objects \cup Mains /\ maps[i].l_map_start \in Nat
  BY <1>0, LinkMapFacts, SpaceFacts DEF BaseInv
<1>2. PICK d \in Nat : d = o.len
  BY ObjectFacts
<1>3. PICK y \in Nat, z \in Nat, w \in Nat :
         y = program.init /\ z = program.len /\ w = program.mapstart /\ program \in Mains
  BY <1>0, ProgramFacts DEF BaseInv
<1>4. PICK x \in Int : x = MainStart(program) - program.mapstart /\ d <= x /\ x <= y
  <2>1. /\ o.len <= MainStart(program) - program.mapstart
        /\ MainStart(program) \in Int /\ MainStart(program) - program.mapstart <= program.init
    BY <1>3, EmptyBelow
  <2>2. PICK s \in Int : s = MainStart(program)
    BY <2>1
  <2>3. s - w \in Int /\ d <= s - w /\ s - w <= y /\ s - w = MainStart(program) - program.mapstart
    BY <1>2, <1>3, <2>1, <2>2
  <2> QED BY <2>3
<1>5. CASE maps[i].obj \in Mains
  <2>1. maps[i].l_map_start = x
    BY <1>0, <1>4, <1>5 DEF MainInv
  <2> QED BY <1>1, <1>2, <1>4, <2>1
<1>6. CASE maps[i].obj \in Objects
  <2>1. PICK drop \in 0 .. Top : ApartBy(drop)
    BY DEF Apart, ApartBy
  <2>2. maps[i].l_map_start >= Gap + y + z
    BY <1>0, <1>3, <1>6, <2>1 DEF ApartInv, Shared
  <2>3. Gap \in Nat
    BY SpaceFacts
  <2>4. PICK u \in Nat : u = maps[i].l_map_start
    BY <1>1
  <2>5. u >= Gap + y + z
    BY <2>2, <2>4
  <2>6. d <= u
    BY <1>4, <2>3, <2>5
  <2> QED BY <1>2, <2>4, <2>6
<1> QED BY <1>1, <1>5, <1>6

-----------------------------------------------------------------------------
(* The actions.                                                            *)

\* The first shared object.
LEMMA LoadFirstKeeps ==
    ASSUME PInv, NEW o \in Objects, LoadFirst(o) PROVE PInv'
<1>0. BaseInv
  BY DEF PInv
<1>1. /\ started /\ to_load = 1 /\ o.exec > 0 /\ loads < MaxLoads
      /\ loads' = loads + 1 /\ UNCHANGED <<started, program, to_mitigate>>
  BY DEF LoadFirst
<1>2. PICK used \in SUBSET (0 .. Top - 1) : used = mapped
  BY <1>0 DEF BaseInv
<1>3. PICK tmp \in MapSegment(used, o, 0) :
         Place(tmp.pages, o, FindAddr(tmp.start - Gap, o.exec))
  BY <1>2 DEF LoadFirst
<1>4. /\ tmp.start \in Nat /\ tmp.start <= Top
      /\ used \subseteq tmp.pages /\ tmp.pages \subseteq 0 .. Top - 1
      /\ \E p \in Picks \cup {Nowhere} : tmp.start >= p
  <2>1. PICK z \in Int : z = 0
    OBVIOUS
  <2>2. tmp \in MapSegment(used, o, z) /\ z <= 0
    BY <2>1
  <2> QED BY <2>2, MapSegmentFacts
<1>5. PICK t \in Int : t = tmp.start - Gap /\ t <= Top
  BY <1>4, SpaceFacts
<1>6. \A i \in 1 .. Len(maps) : ~Shared(maps[i])
  <2>1. CodeMaps \subseteq 1 .. Len(maps) /\ IsFiniteSet(1 .. Len(maps))
    BY <1>0, FS_Interval DEF CodeMaps, BaseInv
  <2>2. IsFiniteSet(CodeMaps)
    BY <2>1, FS_Subset
  <2>3. Cardinality(CodeMaps) = 0
    BY <1>0, <1>1, <2>2, FS_CardinalityType DEF BaseInv
  <2>4. CodeMaps = {}
    BY <2>2, <2>3, FS_EmptySet
  <2> QED BY <2>4 DEF CodeMaps, Shared
<1>7. ASSUME NEW drop \in 0 .. Top, ApartBy(drop)
      PROVE  t + Gap + loads * drop >= MaxLoads * drop + Gap + program.init + program.len
  <2>1. PICK p \in Picks \cup {Nowhere} : tmp.start >= p
    BY <1>4
  <2>2. p \in Nat
    BY SpaceFacts DEF Nowhere
  <2>3. PICK x \in Nat, y \in Nat : x = loads * drop /\ y = MaxLoads * drop
    <3>1. loads \in Nat /\ drop \in Nat /\ MaxLoads \in Nat
      BY <1>0, SpaceFacts DEF BaseInv
    <3>2. loads * drop \in Nat /\ MaxLoads * drop \in Nat
      BY <3>1
    <3> QED BY <3>2
  <2>4. program \in Mains /\ program.init \in Nat /\ program.len \in Nat
    BY <1>0, ProgramFacts DEF BaseInv
  <2>5. p >= y + Gap + program.init + program.len
    BY <1>7, <2>3, <2>4 DEF ApartBy
  <2>6. PICK c \in Int : c = y + Gap + program.init + program.len
    BY <2>4, SpaceFacts
  <2>7. p >= c
    BY <2>5, <2>6
  <2>8. t + Gap >= p
    BY <1>4, <1>5, <2>1, <2>2, SpaceFacts
  <2>9. PICK d \in Int : d = t + Gap
    BY <1>5, SpaceFacts
  <2>10. d + x >= c
    BY <2>2, <2>7, <2>8, <2>9
  <2> QED BY <2>3, <2>6, <2>9, <2>10
<1>8. BelowShared(t) /\ AboveMain(t)
  BY <1>6, <1>7 DEF BelowShared, AboveMain
<1> QED BY <1>1, <1>2, <1>3, <1>4, <1>5, <1>8, PlaceKeeps

\* The others.
LEMMA LoadNextKeeps ==
    ASSUME PInv, NEW o \in Objects, LoadNext(o) PROVE PInv'
<1>0. BaseInv /\ CodeInv /\ ApartInv
  BY DEF PInv
<1>1. /\ started /\ to_load > 1 /\ o.exec > 0 /\ loads < MaxLoads
      /\ loads' = loads + 1 /\ UNCHANGED <<started, program, to_mitigate>>
  BY DEF LoadNext
<1>2. PICK used \in SUBSET (0 .. Top - 1) : used = mapped
  BY <1>0 DEF BaseInv
<1>3. PICK t \in Int : t = addr - Gap
  BY <1>0, SpaceFacts DEF BaseInv
<1>4. Place(used, o, FindAddr(t, o.exec))
  BY <1>2, <1>3 DEF LoadNext, NextTarget
<1>5. \A i \in 1 .. Len(maps) : Shared(maps[i]) =>
         t <= maps[i].l_map_start - Gap /\ t <= Top
  <2> SUFFICES ASSUME NEW i \in 1 .. Len(maps), Shared(maps[i])
               PROVE  t <= maps[i].l_map_start - Gap /\ t <= Top
    OBVIOUS
  <2>1. PICK s \in 0 .. Top : s = maps[i].l_map_start
    BY <1>0, LinkMapFacts DEF BaseInv
  <2>2. addr \in Int /\ addr <= s
    BY <1>0, <2>1 DEF CodeInv, BaseInv
  <2> QED BY <1>3, <2>1, <2>2, SpaceFacts
<1>6. \E i \in 1 .. Len(maps) : Shared(maps[i])
  <2>1. to_load = 1 + Cardinality(CodeMaps)
    BY <1>0 DEF BaseInv
  <2>2. ASSUME CodeMaps = {} PROVE FALSE
    <3>1. Cardinality(CodeMaps) = 0
      BY <2>2, FS_EmptySet
    <3> QED BY <1>1, <2>1, <3>1
  <2> QED BY <2>2 DEF CodeMaps, Shared
<1>7. t <= Top
  BY <1>5, <1>6
<1>8. ASSUME NEW drop \in 0 .. Top, ApartBy(drop)
      PROVE  t + Gap + loads * drop >= MaxLoads * drop + Gap + program.init + program.len
  <2>1. addr + loads * drop >= MaxLoads * drop + Gap + program.init + program.len
    BY <1>0, <1>1, <1>8 DEF ApartInv
  <2>2. t + Gap = addr
    BY <1>0, <1>3, SpaceFacts DEF BaseInv
  <2> QED BY <2>1, <2>2
<1>9. BelowShared(t) /\ AboveMain(t)
  BY <1>5, <1>8 DEF BelowShared, AboveMain
<1> QED BY <1>1, <1>2, <1>4, <1>7, <1>9, PlaceKeeps

\* Products grow with a factor.
LEMMA ProductGrows ==
    ASSUME NEW a \in Nat, NEW b \in Nat, NEW d \in Nat, a <= b
    PROVE  a * d \in Nat /\ b * d \in Nat /\ a * d <= b * d
<1>1. PICK c \in Nat : b = a + c
  <2>1. b - a \in Nat /\ b = a + (b - a)
    OBVIOUS
  <2> QED BY <2>1
<1>2. (a + c) * d = a * d + c * d
  OBVIOUS
<1>3. a * d \in Nat /\ c * d \in Nat
  OBVIOUS
<1> QED BY <1>1, <1>2, <1>3

\* A load that does not use addr leaves what is said of it true.
LEMMA ApartStays ==
    ASSUME BaseInv, ApartInv, loads' \in Nat, loads' >= loads, NEW drop \in 0 .. Top,
           ApartBy(drop), to_load > 1
    PROVE  addr + loads' * drop >= MaxLoads * drop + Gap + program.init + program.len
<1>1. addr + loads * drop >= MaxLoads * drop + Gap + program.init + program.len
  BY DEF ApartInv
<1>2. loads \in Nat /\ drop \in Nat /\ MaxLoads \in Nat /\ addr \in Int
  BY SpaceFacts DEF BaseInv
<1>3. loads * drop \in Nat /\ loads' * drop \in Nat /\ loads * drop <= loads' * drop
  <2>1. PICK a \in Nat, b \in Nat : a = loads /\ b = loads' /\ a <= b
    BY <1>2
  <2>2. a * drop \in Nat /\ b * drop \in Nat /\ a * drop <= b * drop
    BY <1>2, <2>1, ProductGrows
  <2> QED BY <2>1, <2>2
<1>4. PICK x \in Nat, y \in Nat : x = loads * drop /\ y = loads' * drop
  BY <1>3
<1>5. PICK r \in Int : r = MaxLoads * drop + Gap + program.init + program.len
  <2>1. MaxLoads * drop \in Nat
    BY <1>2
  <2>2. program.init \in Nat /\ program.len \in Nat /\ Gap \in Nat
    BY ProgramFacts, SpaceFacts DEF BaseInv
  <2>3. MaxLoads * drop + Gap + program.init + program.len \in Int
    BY <2>1, <2>2
  <2> QED BY <2>3
<1>6. addr + x >= r /\ x <= y
  BY <1>1, <1>3, <1>4, <1>5
<1>7. addr + y >= r
  BY <1>2, <1>6
<1> QED BY <1>4, <1>5, <1>7

\* A step that neither adds nor moves a link map, and keeps code mapped.
LEMMA SameLayoutStep ==
    ASSUME PInv, started, SameLayout, loads' \in 0 .. MaxLoads, loads' >= loads,
           UNCHANGED <<started, program, to_mitigate, addr, to_load>>,
           mapped' \subseteq 0 .. Top - 1,
           MainRoom /\ Apart =>
              \A i \in 1 .. Len(maps) : maps'[i].live /\ maps[i].obj.exec > 0 =>
                 Whole(maps[i]) \subseteq mapped'
    PROVE  PInv'
<1>0. BaseInv /\ MainFirst /\ CodeInv /\ EmptyInv /\ MainInv /\ ApartInv /\ MappedInv
  BY DEF PInv
<1>1. \A i \in 1 .. Len(maps) : Shared(maps[i]) => addr' <= maps[i].l_map_start
  BY <1>0 DEF CodeInv
<1>2. CodeMaps' = CodeMaps /\ CodeInv' /\ EmptyInv' /\ MainInv'
  BY <1>0, <1>1, SameLayoutKeeps
<1>3. BaseInv'
  BY <1>0, <1>2 DEF BaseInv, SameLayout
<1>4. MainFirst'
  BY <1>0 DEF MainFirst, SameLayout
<1>5. ApartInv'
  <2> SUFFICES ASSUME NEW drop \in 0 .. Top, ApartBy(drop)
               PROVE  /\ to_load > 1 =>
                            addr + loads' * drop >= MaxLoads * drop + Gap + program.init + program.len
                      /\ \A i \in 1 .. Len(maps) : Shared(maps'[i]) =>
                            maps'[i].l_map_start >= Gap + program.init + program.len
    BY DEF ApartInv, ApartBy, SameLayout
  <2>1. \A i \in 1 .. Len(maps) : Shared(maps'[i]) => Shared(maps[i])
    BY DEF SameLayout, Shared
  <2>2. \A i \in 1 .. Len(maps) : Shared(maps'[i]) =>
           maps'[i].l_map_start >= Gap + program.init + program.len
    BY <1>0, <2>1 DEF ApartInv, SameLayout
  <2>3. loads' \in Nat
    BY SpaceFacts
  <2> QED BY <1>0, <2>2, <2>3, ApartStays
<1>6. MappedInv'
  <2> SUFFICES ASSUME MainRoom, Apart PROVE CodeIsMapped'
    BY DEF MappedInv
  <2>1. \A i \in 1 .. Len(maps) :
           /\ Whole(maps'[i]) = Whole(maps[i])
           /\ maps'[i].obj = maps[i].obj
           /\ maps'[i].live => maps[i].live
    BY DEF SameLayout, Whole
  <2>2. \A i, j \in 1 .. Len(maps) :
           maps[i].live /\ maps[i].obj.exec > 0 /\ maps[j].live /\ i # j =>
              Whole(maps[i]) \cap Whole(maps[j]) = {}
    BY <1>0 DEF MappedInv, CodeIsMapped, Pages, Live, Whole
  <2>3. \A i \in 1 .. Len(maps) : maps'[i].live /\ maps'[i].obj.exec > 0 =>
           /\ Whole(maps'[i]) \subseteq mapped'
           /\ \A j \in 1 .. Len(maps) : maps'[j].live /\ i # j =>
                 Whole(maps'[i]) \cap Whole(maps'[j]) = {}
    <3> SUFFICES ASSUME NEW i \in 1 .. Len(maps), maps'[i].live, maps'[i].obj.exec > 0
                 PROVE  /\ Whole(maps'[i]) \subseteq mapped'
                        /\ \A j \in 1 .. Len(maps) : maps'[j].live /\ i # j =>
                              Whole(maps'[i]) \cap Whole(maps'[j]) = {}
      OBVIOUS
    <3>1. maps[i].live /\ maps[i].obj.exec > 0 /\ Whole(maps'[i]) = Whole(maps[i])
      BY <2>1
    <3>2. Whole(maps'[i]) \subseteq mapped'
      BY <3>1
    <3>3. ASSUME NEW j \in 1 .. Len(maps), maps'[j].live, i # j
          PROVE  Whole(maps'[i]) \cap Whole(maps'[j]) = {}
      <4>1. maps[j].live /\ Whole(maps'[j]) = Whole(maps[j])
        BY <2>1, <3>3
      <4> QED BY <2>2, <3>1, <3>3, <4>1
    <3> QED BY <3>2, <3>3
  <2>4. Len(maps') = Len(maps)
    BY DEF SameLayout
  <2> QED BY <2>3, <2>4 DEF CodeIsMapped, Pages, Live, Whole
<1> QED BY <1>2, <1>3, <1>4, <1>5, <1>6 DEF PInv

\* The program's own mappings.
LEMMA MmapOtherKeeps ==
    ASSUME PInv, NEW p \in Picks, MmapOther(p) PROVE PInv'
<1>0. BaseInv /\ MappedInv
  BY DEF PInv
<1>1. /\ started /\ maps' = maps /\ mapped' = mapped \cup {p} /\ loads' = loads
      /\ UNCHANGED <<started, program, to_mitigate, addr, to_load>>
  BY DEF MmapOther
<1>2. SameLayout
  BY <1>0, <1>1 DEF BaseInv, SameLayout
<1>3. loads' \in 0 .. MaxLoads /\ loads' >= loads /\ mapped' \subseteq 0 .. Top - 1
  BY <1>0, <1>1, SpaceFacts DEF BaseInv
<1>4. MainRoom /\ Apart =>
        \A i \in 1 .. Len(maps) : maps[i].live /\ maps[i].obj.exec > 0 =>
           Whole(maps[i]) \subseteq mapped
  BY <1>0 DEF MappedInv, CodeIsMapped, Pages, Live, Whole
<1> QED BY <1>1, <1>2, <1>3, <1>4, SameLayoutStep

\* dlclose unmaps no page of an object that stays.
LEMMA UnloadKeeps ==
    ASSUME PInv, NEW i \in 1 .. Len(maps), Unload(i) PROVE PInv'
<1>0. BaseInv /\ MainFirst /\ EmptyInv /\ MappedInv
  BY DEF PInv
<1>1. /\ maps[i].live /\ maps' = [maps EXCEPT ![i].live = FALSE]
      /\ mapped' = Munmap(mapped, maps[i].l_map_start, maps[i].obj.len)
      /\ UNCHANGED <<started, program, to_mitigate, addr, to_load, loads>>
  BY DEF Unload
<1>2. started
  <2>1. ASSUME maps = <<>> PROVE FALSE
    BY <2>1
  <2> QED BY <1>0, <2>1 DEF MainFirst
<1>3. maps \in Seq(LinkMaps)
  BY <1>0 DEF BaseInv
<1>4. maps[i] \in LinkMaps
  BY <1>3
<1>5. PICK l \in LinkMaps : l = [maps[i] EXCEPT !.live = FALSE]
  BY <1>4 DEF LinkMaps
<1>6. /\ maps' = [maps EXCEPT ![i] = l]
      /\ l.obj = maps[i].obj /\ l.l_map_start = maps[i].l_map_start
      /\ l.l_exec_start = maps[i].l_exec_start /\ l.l_exec_end = maps[i].l_exec_end
      /\ ~l.live
  <2>1. maps' = [maps EXCEPT ![i] = l]
    BY <1>1, <1>5
  <2> QED BY <1>4, <1>5, <2>1 DEF LinkMaps
<1>7. /\ Len(maps') = Len(maps) /\ maps' \in Seq(LinkMaps)
      /\ maps'[i] = l /\ \A j \in 1 .. Len(maps) : j # i => maps'[j] = maps[j]
  <2>1. maps' = [maps EXCEPT ![i] = l]
    BY <1>6
  <2>2. Len(maps') = Len(maps)
    BY <1>3, <2>1
  <2>3. maps'[i] = l /\ \A j \in 1 .. Len(maps) : j # i => maps'[j] = maps[j]
    BY <1>3, <2>1
  <2>4. maps' \in Seq(LinkMaps)
    BY <1>3, <1>5, <2>1
  <2> QED BY <2>2, <2>3, <2>4
<1>8. SameLayout
  BY <1>6, <1>7 DEF SameLayout
<1>9. loads' \in 0 .. MaxLoads /\ loads' >= loads /\ mapped' \subseteq 0 .. Top - 1
  BY <1>0, <1>1, SpaceFacts DEF BaseInv, Munmap
<1>10. ASSUME MainRoom, Apart, NEW j \in 1 .. Len(maps), maps'[j].live, maps[j].obj.exec > 0
       PROVE  Whole(maps[j]) \subseteq mapped'
  <2>1. j # i /\ maps[j].live
    BY <1>6, <1>7, <1>10
  <2>2. Whole(maps[j]) \subseteq mapped
    BY <1>0, <1>10, <2>1 DEF MappedInv, CodeIsMapped, Pages, Live, Whole
  <2>3. Whole(maps[j]) \cap Whole(maps[i]) = {}
    BY <1>0, <1>1, <1>10, <2>1 DEF MappedInv, CodeIsMapped, Pages, Live, Whole
  <2> QED BY <1>1, <2>2, <2>3 DEF Munmap, Whole
<1> QED BY <1>1, <1>2, <1>8, <1>9, <1>10, SameLayoutStep

\* An object without code.
LEMMA LoadWithoutCodeKeeps ==
    ASSUME PInv, NEW o \in Objects, LoadWithoutCode(o) PROVE PInv'
<1>0. BaseInv /\ MainFirst /\ CodeInv /\ EmptyInv /\ MainInv /\ ApartInv /\ MappedInv
  BY DEF PInv
<1>1. /\ started /\ o.exec = 0 /\ loads < MaxLoads /\ loads' = loads + 1
      /\ UNCHANGED <<started, program, to_mitigate, addr, to_load>>
  BY DEF LoadWithoutCode
<1>2. PICK used \in SUBSET (0 .. Top - 1) : used = mapped
  BY <1>0 DEF BaseInv
<1>3. mapped \subseteq mapped' /\ mapped' \subseteq 0 .. Top - 1
  <2>1. PICK z \in Int : z = 0
    OBVIOUS
  <2>2. mapped' = mapped \/ \E got \in MapSegment(used, o, z) : mapped' = got.pages
    BY <1>2, <2>1 DEF LoadWithoutCode
  <2>3. \A got \in MapSegment(used, o, z) :
           used \subseteq got.pages /\ got.pages \subseteq 0 .. Top - 1
    BY MapSegmentFacts
  <2> QED BY <1>2, <2>2, <2>3
<1>4. loads' \in 0 .. MaxLoads /\ loads' \in Nat /\ loads' >= loads
  BY <1>0, <1>1, SpaceFacts DEF BaseInv
<1>5. MainRoom /\ Apart =>
        \A i \in 1 .. Len(maps) : maps[i].live /\ maps[i].obj.exec > 0 =>
           /\ Whole(maps[i]) \subseteq mapped
           /\ \A j \in 1 .. Len(maps) : maps[j].live /\ i # j =>
                 Whole(maps[i]) \cap Whole(maps[j]) = {}
  BY <1>0 DEF MappedInv, CodeIsMapped, Pages, Live, Whole
<1>6. CASE maps' = maps
  <2>1. SameLayout
    BY <1>0, <1>6 DEF BaseInv, SameLayout
  <2> QED BY <1>1, <1>3, <1>4, <1>5, <1>6, <2>1, SameLayoutStep
<1>7. CASE maps' = Append(maps, [obj |-> o, l_map_start |-> 0, live |-> TRUE,
                                 l_exec_start |-> {}, l_exec_end |-> {}])
  <2>1. PICK e \in LinkMaps : e = [obj |-> o, l_map_start |-> 0, live |-> TRUE,
                                  l_exec_start |-> {}, l_exec_end |-> {}]
    <3>1. 0 \in 0 .. Top /\ {} \in Word
      BY SpaceFacts DEF Word
    <3> QED BY <3>1 DEF LinkMaps
  <2>2. /\ e.obj = o /\ e.l_map_start = 0 /\ e.l_exec_start = {} /\ e.l_exec_end = {}
        /\ ~Shared(e) /\ e.obj \notin Mains
    BY <1>1, <2>1, ObjectFacts DEF Shared
  <2>3. PICK n \in Nat : n = Len(maps)
    BY <1>0 DEF BaseInv
  <2>4. /\ maps' \in Seq(LinkMaps) /\ Len(maps') = n + 1
        /\ \A i \in 1 .. n : maps'[i] = maps[i]
        /\ maps'[n + 1] = e
    BY <1>0, <1>7, <2>1, <2>3, AppendFacts DEF BaseInv
  <2>5. \A i \in 1 .. n + 1 : i \in 1 .. n \/ i = n + 1
    BY <2>3
  <2>6. BaseInv'
    <3>1. n + 1 \notin CodeMaps'
      BY <2>2, <2>4 DEF CodeMaps, Shared
    <3>2. ASSUME NEW i \in 1 .. n PROVE i \in CodeMaps' <=> i \in CodeMaps
      BY <2>3, <2>4 DEF CodeMaps
    <3>3. CodeMaps \subseteq 1 .. n /\ CodeMaps' \subseteq 1 .. n + 1
      BY <2>3, <2>4 DEF CodeMaps
    <3>4. CodeMaps' = CodeMaps
      BY <2>5, <3>1, <3>2, <3>3
    <3> QED BY <1>0, <1>1, <1>3, <1>4, <2>4, <3>4 DEF BaseInv
  <2>7. MainFirst'
    BY <1>0, <1>1, <2>2, <2>3, <2>4, <2>5 DEF MainFirst
  <2>8. CodeInv'
    <3> SUFFICES ASSUME NEW i \in 1 .. n + 1, Shared(maps'[i])
                 PROVE  /\ Fitted(maps'[i], maps'[i].obj.exec)
                        /\ addr <= maps'[i].l_map_start
                        /\ \A j \in 1 .. n + 1 : i < j /\ Shared(maps'[j]) =>
                              Start(maps'[j]) + maps'[j].obj.exec <= maps'[i].l_map_start - Gap
      BY <1>1, <2>4 DEF CodeInv
    <3>1. i \in 1 .. n /\ maps'[i] = maps[i]
      BY <2>2, <2>4, <2>5
    <3>2. \A j \in 1 .. n + 1 : Shared(maps'[j]) => j \in 1 .. n /\ maps'[j] = maps[j]
      BY <2>2, <2>4, <2>5
    <3> QED BY <1>0, <2>3, <3>1, <3>2 DEF CodeInv
  <2>9. EmptyInv'
    BY <1>0, <2>2, <2>3, <2>4, <2>5 DEF EmptyInv
  <2>10. MainInv'
    BY <1>0, <1>1, <2>2, <2>3, <2>4, <2>5 DEF MainInv
  <2>11. ApartInv'
    <3> SUFFICES ASSUME NEW drop \in 0 .. Top, ApartBy(drop)
                 PROVE  /\ to_load > 1 =>
                              addr + loads' * drop >= MaxLoads * drop + Gap + program.init + program.len
                        /\ \A i \in 1 .. n + 1 : Shared(maps'[i]) =>
                              maps'[i].l_map_start >= Gap + program.init + program.len
      BY <1>1, <2>4 DEF ApartInv, ApartBy
    <3>1. \A i \in 1 .. n + 1 : Shared(maps'[i]) =>
             maps'[i].l_map_start >= Gap + program.init + program.len
      BY <1>0, <2>2, <2>3, <2>4, <2>5 DEF ApartInv
    <3> QED BY <1>0, <1>4, <3>1, ApartStays
  <2>12. MappedInv'
    <3> SUFFICES ASSUME MainRoom, Apart PROVE CodeIsMapped'
      BY DEF MappedInv
    <3>1. ASSUME NEW i \in 1 .. n, maps[i].obj.exec > 0
          PROVE  Whole(maps[i]) \cap Whole(e) = {}
      <4>1. PICK s \in Nat : s = maps[i].l_map_start /\ o.len <= s
        BY <1>1, <2>3, <3>1, CodeAboveEmpty
      <4>2. PICK d \in Nat : d = o.len
        BY ObjectFacts
      <4>3. Whole(e) = 0 .. d - 1
        BY <2>2, <4>2 DEF Whole, Extent
      <4>4. Whole(maps[i]) = s .. s + maps[i].obj.len - 1
        BY <4>1 DEF Whole, Extent
      <4>5. \A q \in 0 .. d - 1 : ~(s <= q)
        BY <4>1, <4>2
      <4>6. \A q \in s .. s + maps[i].obj.len - 1 : s <= q
        OBVIOUS
      <4> QED BY <4>3, <4>4, <4>5, <4>6
    <3>2. ASSUME NEW i \in 1 .. n + 1, maps'[i].live, maps'[i].obj.exec > 0
          PROVE  /\ Whole(maps'[i]) \subseteq mapped'
                 /\ \A j \in 1 .. n + 1 : maps'[j].live /\ i # j =>
                       Whole(maps'[i]) \cap Whole(maps'[j]) = {}
      <4>1. i \in 1 .. n /\ maps'[i] = maps[i]
        <5>1. ~(e.obj.exec > 0)
          BY <1>1, <2>2
        <5> QED BY <2>4, <2>5, <3>2, <5>1
      <4>2. Whole(maps[i]) \subseteq mapped
        BY <1>5, <2>3, <3>2, <4>1
      <4>3. ASSUME NEW j \in 1 .. n + 1, maps'[j].live, i # j
            PROVE  Whole(maps[i]) \cap Whole(maps'[j]) = {}
        <5>1. CASE j = n + 1
          BY <2>4, <3>1, <3>2, <4>1, <5>1
        <5>2. CASE j \in 1 .. n
          <6>1. maps'[j] = maps[j]
            BY <2>4, <5>2
          <6> QED BY <1>5, <2>3, <3>2, <4>1, <4>3, <5>2, <6>1
        <5> QED BY <2>5, <5>1, <5>2
      <4> QED BY <1>3, <4>1, <4>2, <4>3
    <3> QED BY <2>4, <3>2 DEF CodeIsMapped, Pages, Live, Whole
  <2> QED BY <2>6, <2>7, <2>8, <2>9, <2>10, <2>11, <2>12 DEF PInv
<1>8. \/ maps' = maps
      \/ maps' = Append(maps, [obj |-> o, l_map_start |-> 0, live |-> TRUE,
                               l_exec_start |-> {}, l_exec_end |-> {}])
  BY DEF LoadWithoutCode
<1> QED BY <1>6, <1>7, <1>8

\* Where the main program is to go.
LEMMA MainStartFacts ==
    ASSUME NEW m \in Mains
    PROVE  /\ MainStart(m) \in Int
           /\ MainStart(m) + MainSize(m) <= m.init + m.mapstart - Gap
           /\ MainStart(m) - m.mapstart \in Int /\ MainStart(m) - m.mapstart <= m.init
           /\ MainStart(m) + MainSize(m) - 1 < 2 ^ Width
           /\ \E k \in 0 .. Width + 3 :
                 /\ MainSize(m) <= 2 ^ k
                 /\ (MainStart(m) + MainSize(m) - 1) % 2 ^ k = 2 ^ k - 1
<1>1. PICK y \in Nat, z \in Nat, w \in Nat, size \in Nat :
         /\ y = m.init /\ z = m.len /\ w = m.mapstart /\ size = MainSize(m)
         /\ size > 0 /\ size < 2 ^ Width /\ w <= z /\ y + z <= Top
  BY ProgramFacts
<1>2. PICK t \in Int : t = m.init + m.mapstart - Gap /\ t = y + w - Gap
  BY <1>1, SpaceFacts
<1>3. PICK x \in Int : x = MainStart(m) /\ x = FindAddr(t, size)
  BY <1>1, <1>2, FindAddrFacts DEF MainStart
<1>4. /\ x + size <= t
      /\ \E k \in 0 .. Width + 3 : size <= 2 ^ k /\ (x + size - 1) % 2 ^ k = 2 ^ k - 1
  <2>1. size > 0 /\ size < 2 ^ Width
    BY <1>1
  <2>2. /\ FindAddr(t, size) + size <= t
        /\ \E k \in 0 .. Width + 3 :
              size <= 2 ^ k /\ (FindAddr(t, size) + size - 1) % 2 ^ k = 2 ^ k - 1
    BY <2>1, FindAddrFacts
  <2>3. FindAddr(t, size) = x
    BY <1>3
  <2> QED BY <2>2, <2>3
<1>5. Gap \in Nat /\ Top \in Nat /\ 2 ^ Width \in Nat /\ Top <= 2 ^ Width
  BY SpaceFacts
<1>6. x - w \in Int /\ x - w <= y /\ x + size - 1 < 2 ^ Width
  BY <1>1, <1>2, <1>4, <1>5
<1> QED BY <1>1, <1>2, <1>3, <1>4, <1>6

\* The main program is copied to its place, if that is free, and unmapping the
\* old image leaves the copy alone.
LEMMA MoveMainKeeps ==
    ASSUME PInv, MoveMain PROVE PInv'
<1>0. BaseInv /\ MainFirst
  BY DEF PInv
<1>1. ~started /\ started' /\ to_mitigate' /\ UNCHANGED <<program, addr, to_load, loads>>
  BY DEF MoveMain
<1>2. PICK m \in Mains : m = program
  BY <1>0 DEF BaseInv
<1>3. PICK hint \in Int : hint = MainStart(m) - m.mapstart
  BY MainStartFacts
<1>4. PICK new \in Mmap(mapped, hint, m.len) \ {Nowhere} :
         /\ mapped' = Munmap(mapped \cup Extent(new, m.len), m.init, m.init + m.len)
         /\ maps' = <<LinkMap(m, new, MainStart(m), MainSize(m))>>
  BY <1>2, <1>3 DEF MoveMain
<1>5. /\ m.len \in Nat /\ m.len > 0 /\ m.init \in Nat /\ m.mapstart \in Nat
      /\ m \notin Objects /\ MainSize(m) \in Nat
  BY ProgramFacts
<1>6. /\ new \in Int /\ new > 0 /\ new + m.len <= Top
      /\ Extent(new, m.len) \cap mapped = {}
  <2>1. Picks \subseteq Nat
    BY SpaceFacts
  <2>2. new \in Int /\ IsFree(mapped, new, m.len)
    BY <1>4, <2>1 DEF Mmap
  <2> QED BY <2>2 DEF IsFree
<1>7. PICK e : e = LinkMap(m, new, MainStart(m), MainSize(m))
  OBVIOUS
<1>8. /\ e \in LinkMaps /\ e.obj = m /\ e.l_map_start = new
      /\ e.l_exec_start = CommonPrefix(Bits(MainStart(m)), Bits(MainStart(m) + MainSize(m) - 1))
      /\ e.l_exec_end = Bits(MainStart(m) + MainSize(m) - 1)
  <2>1. new \in 0 .. Top
    BY <1>5, <1>6, SpaceFacts
  <2>2. Bits(MainStart(m)) \in Word /\ Bits(MainStart(m) + MainSize(m) - 1) \in Word
    BY BitsWord
  <2>3. CommonPrefix(Bits(MainStart(m)), Bits(MainStart(m) + MainSize(m) - 1)) \in Word
    BY <2>2, PrefixIn
  <2> QED BY <1>7, <2>1, <2>2, <2>3 DEF LinkMap, LinkMaps
<1>9. /\ maps' = <<e>> /\ maps' \in Seq(LinkMaps) /\ Len(maps') = 1 /\ maps'[1] = e
      /\ \A i \in 1 .. Len(maps') : i = 1
  <2>1. maps' = <<e>>
    BY <1>4, <1>7
  <2>2. e \in LinkMaps
    BY <1>8
  <2>3. <<e>> \in Seq(LinkMaps) /\ Len(<<e>>) = 1 /\ <<e>>[1] = e
    BY <2>2
  <2>4. \A i \in 1 .. 1 : i = 1
    OBVIOUS
  <2> QED BY <2>1, <2>3, <2>4
<1>10. ~Shared(e)
  BY <1>5, <1>8 DEF Shared
<1>11. BaseInv'
  <2>1. CodeMaps' = {}
    BY <1>9, <1>10 DEF CodeMaps, Shared
  <2>2. CodeMaps = {}
    <3>1. Len(maps) = 0
      BY <1>0, <1>1 DEF MainFirst
    <3> QED BY <3>1 DEF CodeMaps
  <2>3. Extent(new, m.len) \subseteq 0 .. Top - 1
    BY <1>5, <1>6, SpaceFacts DEF Extent
  <2>4. mapped' \subseteq 0 .. Top - 1
    BY <1>0, <1>4, <2>3 DEF BaseInv, Munmap
  <2> QED BY <1>0, <1>1, <1>9, <2>1, <2>2, <2>4 DEF BaseInv
<1>12. MainFirst'
  BY <1>1, <1>2, <1>8, <1>9 DEF MainFirst
<1>13. CodeInv'
  BY <1>9, <1>10 DEF CodeInv
<1>14. EmptyInv'
  BY <1>5, <1>8, <1>9 DEF EmptyInv
<1>15. ApartInv'
  <2>1. ~(to_load' > 1)
    <3>1. CodeMaps = {}
      <4>1. Len(maps) = 0
        BY <1>0, <1>1 DEF MainFirst
      <4> QED BY <4>1 DEF CodeMaps
    <3>2. Cardinality(CodeMaps) = 0
      BY <3>1, FS_EmptySet
    <3> QED BY <1>0, <1>1, <3>2 DEF BaseInv
  <2> QED BY <1>9, <1>10, <2>1 DEF ApartInv
<1>16. ASSUME MainRoom
       PROVE  new = hint /\ Extent(new, m.len) \cap Extent(m.init, m.len) = {}
  <2>1. PICK busy \in Busy : mapped = busy \cup Extent(m.init, m.len)
    BY <1>0, <1>1, <1>2 DEF MainFirst
  <2>2. IsFree(mapped, hint, m.len)
    BY <1>3, <1>16, <2>1 DEF MainRoom
  <2>3. new = hint
    BY <1>4, <2>2 DEF Mmap
  <2> QED BY <1>6, <2>1, <2>3
<1>17. MainInv'
  <2> SUFFICES ASSUME MainRoom
               PROVE  /\ e.l_map_start = MainStart(m) - m.mapstart
                      /\ Fitted(e, MainSize(m))
    BY <1>1, <1>2, <1>8, <1>9 DEF MainInv
  <2>1. PICK x \in Int : x = MainStart(m) /\ new = x - m.mapstart
    BY <1>3, <1>16, MainStartFacts
  <2>2. Start(e) = x
    <3>1. PICK w \in Nat : w = m.mapstart
      BY <1>5
    <3>2. Start(e) = (x - w) + w
      BY <1>8, <2>1, <3>1 DEF Start
    <3> QED BY <3>2
  <2>3. /\ x + MainSize(m) - 1 < 2 ^ Width
        /\ \E k \in 0 .. Width + 3 : /\ MainSize(m) <= 2 ^ k
                                     /\ (x + MainSize(m) - 1) % 2 ^ k = 2 ^ k - 1
    BY <2>1, MainStartFacts
  <2> QED BY <1>6, <1>8, <2>1, <2>2, <2>3 DEF Fitted
<1>18. MappedInv'
  <2> SUFFICES ASSUME MainRoom PROVE CodeIsMapped'
    BY DEF MappedInv
  <2>1. new <= m.init
    BY <1>3, <1>16, MainStartFacts
  <2>2. new + m.len <= m.init
    <3>1. m.init \in Extent(m.init, m.len)
      BY <1>5 DEF Extent
    <3>2. m.init \notin Extent(new, m.len)
      BY <1>16, <3>1
    <3> QED BY <1>5, <1>6, <2>1, <3>2 DEF Extent
  <2>3. Extent(new, m.len) \cap Extent(m.init, m.init + m.len) = {}
    BY <1>5, <1>6, <2>2 DEF Extent
  <2>4. Extent(new, m.len) \subseteq mapped'
    BY <1>4, <2>3 DEF Munmap
  <2>5. Extent(maps'[1].l_map_start, maps'[1].obj.len) \subseteq mapped'
    BY <1>8, <1>9, <2>4
  <2> QED BY <1>9, <2>5 DEF CodeIsMapped, Pages, Live
<1> QED BY <1>11, <1>12, <1>13, <1>14, <1>15, <1>17, <1>18 DEF PInv

-----------------------------------------------------------------------------
(* The theorems.                                                           *)

\* PInv holds when the process starts.
LEMMA InitPlaced == Init => PInv
<1> SUFFICES ASSUME Init PROVE PInv
  OBVIOUS
<1>1. /\ maps = <<>> /\ addr = 0 /\ to_load = 1 /\ loads = 0 /\ to_mitigate = FALSE
      /\ started \in BOOLEAN /\ program \in Mains
  BY DEF Init
<1>2. /\ mapped \subseteq 0 .. Top - 1
      /\ ~started => \E busy \in Busy : mapped = busy \cup Extent(program.init, program.len)
  <2>1. PICK busy \in Busy :
           \/ /\ started = FALSE /\ program \in Mains
              /\ mapped = busy \cup Extent(program.init, program.len)
           \/ started = TRUE /\ program \in Mains /\ mapped = busy
    BY DEF Init
  <2>2. busy \subseteq 0 .. Top - 1
    BY SpaceFacts
  <2>3. Extent(program.init, program.len) \subseteq 0 .. Top - 1
    BY <1>1, ProgramFacts, SpaceFacts DEF Extent
  <2> QED BY <2>1, <2>2, <2>3
<1>3. Len(maps) = 0 /\ 1 .. Len(maps) = {} /\ maps \in Seq(LinkMaps)
  BY <1>1
<1>4. Cardinality(CodeMaps) = 0
  <2>1. CodeMaps = {}
    BY <1>3 DEF CodeMaps
  <2> QED BY <2>1, FS_EmptySet
<1>5. BaseInv
  <2>1. loads \in 0 .. MaxLoads /\ addr \in Int /\ to_load = 1 + Cardinality(CodeMaps)
    BY <1>1, <1>4, SpaceFacts
  <2>2. to_mitigate \in BOOLEAN
    BY <1>1
  <2> QED BY <1>1, <1>2, <1>3, <2>1, <2>2 DEF BaseInv
<1>6. MainFirst
  BY <1>1, <1>2, <1>3 DEF MainFirst
<1>7. CodeInv /\ EmptyInv /\ MainInv
  BY <1>3 DEF CodeInv, EmptyInv, MainInv
<1>8. ApartInv
  BY <1>1, <1>3 DEF ApartInv
<1>9. MappedInv
  BY <1>3 DEF MappedInv, CodeIsMapped, Live
<1> QED BY <1>5, <1>6, <1>7, <1>8, <1>9 DEF PInv

\* The layout invariant of the loader holds in every reachable state.
THEOREM LayoutInvariant == Spec => []PInv
<1>1. PInv /\ [Next]_vars => PInv'
  <2> SUFFICES ASSUME PInv, [Next]_vars PROVE PInv'
    OBVIOUS
  <2>1. CASE MoveMain
    BY <2>1, MoveMainKeeps
  <2>2. CASE \E o \in Objects : LoadFirst(o) \/ LoadNext(o) \/ LoadWithoutCode(o)
    BY <2>2, LoadFirstKeeps, LoadNextKeeps, LoadWithoutCodeKeeps
  <2>3. CASE \E i \in 1 .. Len(maps) : Unload(i)
    BY <2>3, UnloadKeeps
  <2>4. CASE \E p \in Picks : MmapOther(p)
    BY <2>4, MmapOtherKeeps
  <2>5. CASE UNCHANGED vars
    <3>1. BaseInv' /\ MainFirst'
      BY <2>5 DEF vars, PInv, BaseInv, CodeMaps, MainFirst
    <3>2. CodeInv' /\ EmptyInv' /\ MainInv'
      BY <2>5 DEF vars, PInv, CodeInv, EmptyInv, MainInv
    <3>3. ApartInv'
      BY <2>5 DEF vars, PInv, ApartInv
    <3>4. MappedInv'
      BY <2>5 DEF vars, PInv, MappedInv, CodeIsMapped, Pages, Live
    <3> QED BY <3>1, <3>2, <3>3, <3>4 DEF PInv
  <2> QED BY <2>1, <2>2, <2>3, <2>4, <2>5 DEF Next
<1> QED BY <1>1, InitPlaced, PTL DEF Spec

\* What is fitted works: its own code is left alone by its masks, and its window
\* begins less than its size below it.
LEMMA FittedFacts ==
    ASSUME NEW l \in LinkMaps, NEW size \in Nat, size > 0, Fitted(l, size)
    PROVE  /\ Start(l) \in Nat /\ Start(l) > 0 /\ Start(l) + size - 1 < 2 ^ Width
           /\ \A p \in Start(l) .. Start(l) + size - 1 :
                 Masked(Bits(p), l.l_exec_start, l.l_exec_end) = Bits(p)
           /\ \A q \in Nat : q < 2 ^ Width /\ Bits(q) \in Window(l.l_exec_start, l.l_exec_end) =>
                 q < Start(l) + size /\ q > Start(l) - size
<1>1. l.obj \in Objects \cup Mains /\ l.l_map_start \in Nat
  BY SpaceFacts DEF LinkMaps
<1>2. l.obj.mapstart \in Nat
  BY <1>1, ObjectFacts, ProgramFacts
<1>3. PICK s \in Nat : s = Start(l) /\ s > 0
  <2>1. PICK a \in Nat, w \in Nat : a = l.l_map_start /\ w = l.obj.mapstart
    BY <1>1, <1>2
  <2>2. a > 0
    BY <2>1 DEF Fitted
  <2>3. Start(l) = a + w
    BY <2>1 DEF Start
  <2>4. a + w \in Nat /\ a + w > 0
    BY <2>2
  <2> QED BY <2>3, <2>4
<1>4. PICK e \in Nat : e = s + size - 1 /\ e = Start(l) + size - 1
  BY <1>3
<1>5. PICK k \in Nat : size <= 2 ^ k /\ e % 2 ^ k = 2 ^ k - 1
  <2>1. PICK k \in 0 .. Width + 3 : size <= 2 ^ k /\ (Start(l) + size - 1) % 2 ^ k = 2 ^ k - 1
    BY DEF Fitted
  <2>2. k \in Nat
    BY WidthAssumption
  <2> QED BY <1>4, <2>1, <2>2
<1>6. s <= e /\ e - s + 1 = size /\ e < 2 ^ Width
  BY <1>3, <1>4 DEF Fitted
<1>7. l.l_exec_start = CommonPrefix(Bits(s), Bits(e)) /\ l.l_exec_end = Bits(e)
  BY <1>3, <1>4 DEF Fitted
<1>8. e - s + 1 <= 2 ^ k
  <2>1. e - s + 1 = size /\ size <= 2 ^ k
    BY <1>5, <1>6
  <2> QED BY <2>1
<1>9. \A p \in s .. e : Masked(Bits(p), l.l_exec_start, l.l_exec_end) = Bits(p)
  BY <1>5, <1>6, <1>7, <1>8, BlockKept
<1>10. ASSUME NEW q \in Nat, q < 2 ^ Width, Bits(q) \in Window(l.l_exec_start, l.l_exec_end)
       PROVE  q < s + size /\ q > s - size
  <2>1. q <= e /\ q > s - (e - s + 1)
    BY <1>5, <1>6, <1>7, <1>8, <1>10, BlockWindow
  <2> QED BY <1>4, <1>6, <2>1
<1> QED BY <1>3, <1>4, <1>6, <1>9, <1>10

\* The size the masks of an object with code are made for.
CodeSize(l) == IF l.obj \in Mains THEN MainSize(l.obj) ELSE l.obj.exec

\* Every object with code is fitted.
LEMMA AllFitted ==
    ASSUME PInv, MainRoom, NEW i \in 1 .. Len(maps), maps[i].obj.exec > 0
    PROVE  /\ maps[i] \in LinkMaps /\ Fitted(maps[i], CodeSize(maps[i]))
           /\ CodeSize(maps[i]) \in Nat /\ CodeSize(maps[i]) > 0
           /\ maps[i].obj.exec \in Nat /\ maps[i].obj.exec <= CodeSize(maps[i])
<1>0. BaseInv /\ MainFirst /\ CodeInv /\ MainInv
  BY DEF PInv
<1>1. maps[i] \in LinkMaps /\ maps[i].obj \in Objects \cup Mains
  BY <1>0, LinkMapFacts DEF BaseInv
<1>2. CASE maps[i].obj \in Mains
  <2>1. maps[i].obj = program /\ program \in Mains /\ CodeSize(maps[i]) = MainSize(program)
    BY <1>0, <1>2 DEF MainFirst, BaseInv, CodeSize
  <2>2. Fitted(maps[i], MainSize(program))
    BY <1>0, <1>2 DEF MainInv
  <2>3. /\ MainSize(program) \in Nat /\ program.exec \in Nat /\ program.exec > 0
        /\ program.exec <= MainSize(program)
    BY <2>1, ProgramFacts
  <2>4. MainSize(program) > 0
    BY <2>3
  <2> QED BY <1>1, <2>1, <2>2, <2>3, <2>4
<1>3. CASE maps[i].obj \in Objects
  <2>1. CodeSize(maps[i]) = maps[i].obj.exec /\ maps[i].obj.exec \in Nat
    BY <1>3, ObjectFacts DEF CodeSize
  <2>2. Fitted(maps[i], maps[i].obj.exec)
    BY <1>0, <1>3 DEF CodeInv, Shared
  <2>3. maps[i].obj.exec <= CodeSize(maps[i])
    BY <2>1
  <2> QED BY <1>1, <2>1, <2>2, <2>3
<1> QED BY <1>1, <1>2, <1>3

\* The pages of code of an object that has code.
LEMMA CodePages ==
    ASSUME PInv, MainRoom, NEW i \in 1 .. Len(maps), NEW q \in Code(i)
    PROVE  /\ maps[i].obj.exec > 0 /\ Start(maps[i]) \in Nat /\ Start(maps[i]) > 0
           /\ q \in Nat /\ q >= Start(maps[i]) /\ q < Start(maps[i]) + maps[i].obj.exec
           /\ q < 2 ^ Width
<1>0. BaseInv
  BY DEF PInv
<1>1. PICK s : s = Start(maps[i])
  OBVIOUS
<1>2. PICK n : n = maps[i].obj.exec
  OBVIOUS
<1>3. q \in s .. s + n - 1
  BY <1>1, <1>2 DEF Code, Extent, Start
<1>4. n \in Nat /\ s \in Nat
  BY <1>0, <1>1, <1>2, MapNumbers DEF Start
<1>5. n > 0 /\ q \in Nat /\ q >= s /\ q < s + n
  BY <1>3, <1>4
<1>6. PICK size \in Nat : size = CodeSize(maps[i]) /\ size > 0 /\ n <= size /\ Fitted(maps[i], size)
  BY <1>2, <1>5, AllFitted
<1>7. s > 0 /\ s + size - 1 < 2 ^ Width
  BY <1>1, <1>2, <1>5, <1>6, AllFitted, FittedFacts
<1>8. q < 2 ^ Width
  <2>1. PICK w \in Nat : w = 2 ^ Width
    BY SpaceFacts
  <2>2. s + size - 1 < w
    BY <1>7, <2>1
  <2>3. q < w
    BY <1>4, <1>5, <1>6, <2>2
  <2> QED BY <2>1, <2>3
<1> QED BY <1>1, <1>2, <1>4, <1>5, <1>7, <1>8

\* The loader's variables keep their types; to_load counts the objects placed
\* (_dl_map_segments).
THEOREM PlacementTypeCorrect == Spec => []TypeOK
<1>1. PInv => TypeOK
  <2> SUFFICES ASSUME PInv PROVE TypeOK
    OBVIOUS
  <2>1. BaseInv
    BY DEF PInv
  <2> QED BY <2>1, LinkMapFacts DEF BaseInv, CodeMaps, TypeOK
<1> QED BY <1>1, LayoutInvariant, PTL

\* A call inside an object is not changed by the masks the loader gave it,
\* whatever was loaded and unloaded before, for all sizes and addresses; the
\* place of the main program must be free at the start (_dl_map_segments,
\* _dl_sysdep_parse_arguments).
THEOREM OwnCodeIsFixed ==
    ASSUME MainRoom
    PROVE  Spec => []OwnCodeFixed
<1>1. PInv => OwnCodeFixed
  <2> SUFFICES ASSUME PInv, NEW i \in 1 .. Len(maps), NEW p \in Code(i)
               PROVE  CallFrom(i, p) = Bits(p)
    BY DEF OwnCodeFixed, Live
  <2>1. /\ maps[i].obj.exec > 0 /\ Start(maps[i]) \in Nat
        /\ p \in Nat /\ p >= Start(maps[i]) /\ p < Start(maps[i]) + maps[i].obj.exec
    BY CodePages
  <2>2. PICK l \in LinkMaps, size \in Nat :
           l = maps[i] /\ size > 0 /\ maps[i].obj.exec <= size /\ Fitted(l, size)
    BY <2>1, AllFitted
  <2>3. p \in Start(l) .. Start(l) + size - 1
    <3>1. maps[i].obj.exec \in Nat
      BY <2>1, AllFitted
    <3>2. PICK s \in Nat, n \in Nat : s = Start(l) /\ n = maps[i].obj.exec
      BY <2>1, <2>2, <3>1
    <3>3. p >= s /\ p < s + n /\ n <= size
      BY <2>1, <2>2, <3>2
    <3>4. p \in s .. s + size - 1
      BY <2>1, <3>3
    <3> QED BY <3>2, <3>4
  <2>4. Masked(Bits(p), l.l_exec_start, l.l_exec_end) = Bits(p)
    BY <2>2, <2>3, FittedFacts
  <2>5. CASE to_mitigate
    BY <2>2, <2>4, <2>5 DEF CallFrom, OrMask, AndMask
  <2>6. CASE ~to_mitigate
    <3>1. Bits(p) \in Word
      BY BitsWord
    <3>2. CallFrom(i, p) = (Bits(p) \cup {}) \cap Bit
      BY <2>6 DEF CallFrom, OrMask, AndMask, Masked
    <3> QED BY <3>1, <3>2 DEF Word
  <2> QED BY <2>5, <2>6
<1> QED BY <1>1, LayoutInvariant, PTL

\* A window with no bit holds page 0 only.
LEMMA EmptyWindow ==
    ASSUME NEW q \in Nat, q < 2 ^ Width, Bits(q) \in Window({}, {})
    PROVE  q = 0
<1>1. Bits(q) = {}
  BY DEF Window
<1>2. PICK z \in Nat : z = 0
  OBVIOUS
<1>3. Bits(z) = {}
  <2>1. \A i \in Bit : 2 ^ i \in Nat /\ 2 ^ i > 0
    BY PowerNat, WidthAssumption DEF Bit
  <2>2. \A i \in Bit : (z \div 2 ^ i) % 2 = 0
    <3> SUFFICES ASSUME NEW i \in Bit PROVE (z \div 2 ^ i) % 2 = 0
      OBVIOUS
    <3>1. PICK b \in Nat : b = 2 ^ i /\ b > 0
      BY <2>1
    <3>2. z \div b = 0
      BY <1>2, <3>1
    <3> QED BY <3>1, <3>2
  <2> QED BY <2>2 DEF Bits
<1>4. z < 2 ^ Width
  BY <1>2, PowerNat, WidthAssumption
<1>5. PICK i \in 0 .. Width : i = 0
  BY WidthAssumption
<1>6. q \div 2 ^ i = z \div 2 ^ i
  BY <1>1, <1>3, <1>4, SameAbove
<1>7. 2 ^ i = 1
  BY <1>5, PowerZero
<1> QED BY <1>2, <1>6, <1>7

\* The main program ends a gap below where the kernel had put it.
LEMMA MainBelow ==
    ASSUME PInv, MainRoom, Apart, NEW i \in 1 .. Len(maps), maps[i].obj \in Mains,
           NEW j \in 1 .. Len(maps), Shared(maps[j])
    PROVE  Start(maps[i]) + CodeSize(maps[i]) <= maps[j].l_map_start - Gap - Gap
<1>0. BaseInv /\ MainFirst /\ MainInv /\ ApartInv
  BY DEF PInv
<1>1. /\ maps[i].obj = program /\ program \in Mains
      /\ maps[i].l_map_start = MainStart(program) - program.mapstart
      /\ CodeSize(maps[i]) = MainSize(program)
  BY <1>0 DEF MainFirst, MainInv, BaseInv, CodeSize
<1>2. PICK y \in Nat, z \in Nat, w \in Nat, n \in Nat, size \in Nat :
         /\ y = program.init /\ z = program.len /\ w = program.mapstart
         /\ n = program.exec /\ w + n <= z /\ size = MainSize(program)
  BY <1>1, ProgramFacts
<1>3. PICK x \in Int : x = MainStart(program) /\ x + size <= y + w - Gap
  BY <1>1, <1>2, MainStartFacts
<1>4. Start(maps[i]) = x
  <2>1. Start(maps[i]) = (x - w) + w
    BY <1>1, <1>2, <1>3 DEF Start
  <2> QED BY <2>1
<1>5. PICK drop \in 0 .. Top : ApartBy(drop)
  BY DEF Apart, ApartBy
<1>6. PICK u \in Nat : u = maps[j].l_map_start
  BY <1>0, MapNumbers
<1>7. u >= Gap + y + z
  BY <1>0, <1>2, <1>5, <1>6 DEF ApartInv
<1>8. Gap \in Nat
  BY SpaceFacts
<1>9. x + size <= u - Gap - Gap
  <2>1. w <= z
    BY <1>2
  <2>2. PICK v \in Int : v = x + size /\ v <= y + w - Gap
    BY <1>3
  <2>3. v <= u - Gap - Gap
    BY <1>7, <1>8, <2>1, <2>2
  <2> QED BY <2>2, <2>3
<1> QED BY <1>1, <1>2, <1>4, <1>6, <1>9

\* A masked call never ends in the code of another object, whatever was loaded
\* and unloaded before, for all sizes and addresses; the main program's place
\* must be free at the start and the kernel's places far enough above it
\* (_dl_map_segments, _dl_sysdep_parse_arguments).
THEOREM CodeIsSeparated ==
    ASSUME MainRoom, Apart
    PROVE  Spec => []CodeSeparated
<1>1. PInv => CodeSeparated
  <2> SUFFICES ASSUME PInv, NEW i \in 1 .. Len(maps), NEW j \in 1 .. Len(maps), i # j,
                      NEW q \in Code(j),
                      Bits(q) \in Window(maps[i].l_exec_start, maps[i].l_exec_end)
               PROVE  FALSE
    BY DEF CodeSeparated, Live
  <2>0. BaseInv /\ MainFirst /\ CodeInv /\ EmptyInv
    BY DEF PInv
  <2>1. PICK sj \in Nat : sj = Start(maps[j]) /\ sj > 0
    BY CodePages
  <2>2. PICK nj \in Nat : nj = maps[j].obj.exec /\ nj > 0 /\ nj <= CodeSize(maps[j])
    BY CodePages, AllFitted
  <2>3. q \in Nat /\ q >= sj /\ q < sj + nj /\ q < 2 ^ Width
    BY <2>1, <2>2, CodePages
  <2>4. /\ maps[i].obj \in Objects \cup Mains /\ maps[j].obj \in Objects \cup Mains
        /\ maps[i] \in LinkMaps
    BY <2>0, LinkMapFacts DEF BaseInv
  <2>5. PICK bi \in Nat, bj \in Nat : bi = maps[i].l_map_start /\ bj = maps[j].l_map_start
    BY <2>0, MapNumbers
  <2>6. Gap \in Nat
    BY SpaceFacts
  <2>7. maps[j].obj \in Objects => Shared(maps[j])
    BY <2>2 DEF Shared
  <2>8. bj <= sj
    <3>1. PICK w \in Nat : w = maps[j].obj.mapstart
      BY <2>4, ObjectFacts, ProgramFacts
    <3>2. sj = bj + w
      BY <2>1, <2>5, <3>1 DEF Start
    <3> QED BY <3>2
  <2>9. CASE ~(maps[i].obj.exec > 0)
    <3>1. maps[i].obj \in Objects /\ maps[i].obj.exec = 0
      BY <2>0, <2>9, WithoutCode
    <3>2. maps[i].l_exec_start = {} /\ maps[i].l_exec_end = {}
      BY <2>0, <3>1 DEF EmptyInv
    <3>3. q = 0
      BY <2>3, <3>2, EmptyWindow
    <3> QED BY <2>1, <2>3, <3>3
  <2>10. CASE maps[i].obj.exec > 0
    <3>1. PICK size \in Nat : /\ size = CodeSize(maps[i]) /\ size > 0
                              /\ Fitted(maps[i], size)
      BY <2>10, AllFitted
    <3>2. PICK si \in Nat : si = Start(maps[i]) /\ q < si + size /\ q > si - size
      BY <2>3, <2>4, <3>1, FittedFacts
    <3>3. CASE maps[i].obj \in Mains
      <4>1. maps[j].obj \in Objects
        BY <2>0, <2>4, <3>3 DEF MainFirst
      <4>2. si + size <= bj - Gap - Gap
        BY <2>5, <2>7, <3>1, <3>2, <3>3, <4>1, MainBelow
      <4>3. PICK v \in Nat : v = si + size
        BY <3>1, <3>2
      <4>4. q < v /\ v <= bj - Gap - Gap
        BY <3>2, <4>2, <4>3
      <4>5. q < bj
        BY <2>3, <2>6, <4>4
      <4> QED BY <2>3, <2>8, <4>5
    <3>4. CASE maps[i].obj \in Objects
      <4>1. Shared(maps[i]) /\ size = maps[i].obj.exec
        BY <2>10, <3>1, <3>4, ObjectFacts DEF Shared, CodeSize
      <4>2. q > bi - Gap
        <5>1. PICK w \in Nat : w = maps[i].obj.mapstart /\ size <= Gap + w
          BY <3>4, <4>1, ObjectFacts
        <5>2. si = bi + w
          BY <2>5, <3>2, <5>1 DEF Start
        <5>3. q > si - size
          BY <3>2
        <5>4. size <= Gap + w /\ q \in Nat
          BY <2>3, <5>1
        <5> QED BY <2>6, <5>2, <5>3, <5>4
      <4>3. CASE maps[j].obj \in Mains
        <5>1. sj + CodeSize(maps[j]) <= bi - Gap - Gap
          BY <2>1, <2>5, <4>1, <4>3, MainBelow
        <5>2. PICK c \in Nat : c = CodeSize(maps[j])
          BY <2>2, AllFitted
        <5>3. sj + c <= bi - Gap - Gap /\ nj <= c
          BY <2>2, <5>1, <5>2
        <5>4. q < sj + nj /\ q \in Nat
          BY <2>3
        <5> QED BY <2>6, <4>2, <5>3, <5>4
      <4>4. CASE maps[j].obj \in Objects /\ i < j
        <5>1. sj + nj <= bi - Gap
          BY <2>0, <2>1, <2>2, <2>5, <2>7, <4>1, <4>4 DEF CodeInv
        <5>2. q \in Nat /\ q < sj + nj
          BY <2>3
        <5>3. q < bi - Gap
          BY <2>6, <5>1, <5>2
        <5> QED BY <2>6, <4>2, <5>2, <5>3
      <4>5. CASE maps[j].obj \in Objects /\ j < i
        <5>1. si + size <= bj - Gap
          BY <2>0, <2>5, <2>7, <3>2, <4>1, <4>5 DEF CodeInv
        <5>2. q \in Nat /\ q < si + size
          BY <2>3, <3>2
        <5>3. q < bj
          BY <2>6, <5>1, <5>2
        <5> QED BY <2>3, <2>8, <5>2, <5>3
      <4>6. i < j \/ j < i
        <5>1. i \in Int /\ j \in Int
          OBVIOUS
        <5> QED BY <5>1
      <4> QED BY <2>4, <4>3, <4>4, <4>5, <4>6
    <3> QED BY <2>4, <3>3, <3>4
  <2> QED BY <2>9, <2>10
<1> QED BY <1>1, LayoutInvariant, PTL

\* The whole extent of an object with code stays mapped and is its own until it
\* is unloaded, for all sizes and addresses, under the same conditions
\* (_dl_map_segment, _dl_unmap_segments, _dl_sysdep_parse_arguments).
THEOREM CodeStaysMapped ==
    ASSUME MainRoom, Apart
    PROVE  Spec => []CodeIsMapped
<1>1. PInv => CodeIsMapped
  BY DEF PInv, MappedInv
<1> QED BY <1>1, LayoutInvariant, PTL

=============================================================================
