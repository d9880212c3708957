--------------------------- MODULE SnnStep_proofs ---------------------------
(***************************************************************************)
(* Proofs about the runtime of a spiking network, for every number of      *)
(* cores and memory controllers, every network and every number of steps.  *)
(***************************************************************************)
EXTENDS SnnStep, Encoders, FiniteSetTheorems, WellFoundedInduction, TLAPS

\* A nonempty set of naturals has a least member.
LEMMA LeastMember ==
    ASSUME NEW T \in SUBSET Nat, T # {}
    PROVE  Lowest(T) \in T /\ \A j \in T : Lowest(T) <= j
<1> DEFINE LT == {ss \in Nat \X Nat : ss[1] < ss[2]}
<1>1. IsWellFoundedOn(LT, Nat)
  BY NatLessThanWellFounded DEF OpToRel
<1>2. PICK i \in T : \A j \in T : ~ (<<j, i>> \in LT)
  BY <1>1, WFMin
<1>3. ASSUME NEW j \in T, j < i
      PROVE  FALSE
  <2>1. <<j, i>> \in Nat \X Nat /\ <<j, i>>[1] < <<j, i>>[2]
    BY <1>3
  <2>2. <<j, i>> \in LT
    BY <2>1
  <2>3. QED  BY <1>2, <2>2
<1>4. \A j \in T : i <= j
  BY <1>3
<1>5. QED  BY <1>4 DEF Lowest

\* Ranges of d numbers follow each other: a number is in one of them.
LEMMA Times ==
    ASSUME NEW d \in Nat, NEW a \in Int, NEW b \in Int, a <= b
    PROVE  d * a <= d * b
  OBVIOUS

LEMMA Division ==
    ASSUME NEW d \in Nat \ {0}, NEW a \in Int
    PROVE  a \div d \in Int /\ d * (a \div d) <= a /\ a < d * (a \div d) + d
  OBVIOUS

LEMMA DivLess ==
    ASSUME NEW d \in Nat \ {0}, NEW a \in Int, NEW b \in Int
    PROVE  /\ a < d * b <=> a \div d < b
           /\ a <= b => a \div d <= b \div d
<1>1. a \div d \in Int /\ d * (a \div d) <= a /\ a < d * (a \div d) + d
  BY Division
<1>2. b \div d \in Int /\ d * (b \div d) <= b /\ b < d * (b \div d) + d
  BY Division
<1>. DEFINE q == a \div d
            r == b \div d
<1>. HIDE DEF q, r
<1>3. a < d * b => q < b
  <2>1. b <= q => d * b <= d * q
    BY <1>1, Times DEF q
  <2>2. QED  BY <1>1, <2>1 DEF q
<1>4. q < b => a < d * b
  <2>1. q + 1 <= b => d * (q + 1) <= d * b
    BY <1>1, Times DEF q
  <2>2. d * (q + 1) = d * q + d
    BY <1>1 DEF q
  <2>3. QED  BY <1>1, <2>1, <2>2 DEF q
<1>5. a <= b => q <= r
  <2>1. r + 1 <= q => d * (r + 1) <= d * q
    BY <1>1, <1>2, Times DEF q, r
  <2>2. d * (r + 1) = d * r + d
    BY <1>2 DEF r
  <2>3. QED  BY <1>1, <1>2, <2>1, <2>2 DEF q, r
<1>6. QED  BY <1>3, <1>4, <1>5 DEF q, r

LEMMA InRange ==
    ASSUME NEW d \in Nat \ {0}, NEW n \in Int, NEW a \in Int, d * n <= a, a < d * (n + 1)
    PROVE  a \div d = n /\ a % d = a - d * n /\ a % d \in 0 .. d - 1
<1>1. a \div d < n + 1
  BY DivLess
<1>2. n <= a \div d
  <2>1. ~ (a < d * n) => ~ (a \div d < n)
    BY DivLess
  <2>2. a \div d \in Int /\ d * n \in Int
    BY Division
  <2>3. QED  BY <2>1, <2>2
<1>3. a \div d = n
  BY <1>1, <1>2, Division
<1>4. a = d * (a \div d) + (a % d) /\ a % d \in 0 .. d - 1
  OBVIOUS
<1>5. QED  BY <1>3, <1>4

----------------------------------------------------------------------------
(* Powers of two *)

IsPower(b) == b \in Nat \ {0} /\ \A d \in 1 .. b : b % d = 0 => d = 1 \/ d % 2 = 0

LEMMA PowersAre ==
    ASSUME NumPU \in Nat
    PROVE  \A b : b \in Powers <=> IsPower(b) /\ b <= NumPU
  BY DEF Powers, PUs, IsPower

LEMMA Divides ==
    ASSUME NEW d \in Nat \ {0}, NEW n \in Int
    PROVE  n % d = 0 <=> \E k \in Int : n = d * k
<1>1. n % d = 0 => n = d * (n \div d) /\ n \div d \in Int
  OBVIOUS
<1>2. ASSUME NEW k \in Int, n = d * k
      PROVE  n % d = 0
  <2>1. d * k \in Int /\ d * (k + 1) = d * k + d
    OBVIOUS
  <2>2. n % d = n - d * k
    BY <1>2, <2>1, InRange
  <2>3. QED  BY <1>2, <2>1, <2>2
<1>3. QED  BY <1>1, <1>2

\* What divides two numbers divides their sum and difference; what divides a
\* divisor divides.
LEMMA DividesSum ==
    ASSUME NEW d \in Nat \ {0}, NEW m \in Int, NEW n \in Int, m % d = 0
    PROVE  (m + n) % d = 0 <=> n % d = 0
<1>1. PICK k \in Int : m = d * k
  BY Divides
<1>2. PICK s \in Int : s = m + n
  OBVIOUS
<1>3. ASSUME NEW j \in Int, n = d * j
      PROVE  s % d = 0
  <2>1. s = d * (k + j)
    BY <1>1, <1>2, <1>3
  <2>2. QED  BY <2>1, Divides
<1>4. ASSUME NEW j \in Int, s = d * j
      PROVE  n % d = 0
  <2>1. PICK i \in Int : i = j - k
    OBVIOUS
  <2>2. d * i = d * j - d * k /\ d * j \in Int /\ d * k \in Int
    BY <2>1
  <2>3. n = d * i
    BY <1>1, <1>2, <1>4, <2>2
  <2>4. QED  BY <2>3, Divides
<1>5. n % d = 0 => \E j \in Int : n = d * j
  BY Divides
<1>6. s % d = 0 => \E j \in Int : s = d * j
  BY Divides
<1>7. QED  BY <1>2, <1>3, <1>4, <1>5, <1>6

LEMMA DividesTransitive ==
    ASSUME NEW c \in Nat \ {0}, NEW d \in Nat \ {0}, NEW n \in Int, d % c = 0, n % d = 0
    PROVE  n % c = 0
<1>1. PICK k \in Int : d = c * k
  BY Divides
<1>2. PICK j \in Int : n = d * j
  BY Divides
<1>3. n = c * (k * j) /\ k * j \in Int
  BY <1>1, <1>2
<1>4. QED  BY <1>3, Divides

LEMMA DivisorLess ==
    ASSUME NEW d \in Nat \ {0}, NEW n \in Nat \ {0}, n % d = 0
    PROVE  d <= n
<1>1. PICK k \in Int : n = d * k
  BY Divides
<1>2. k <= 0 => d * k <= d * 0
  BY Times
<1>3. k >= 1
  BY <1>1, <1>2
<1>4. d * 1 <= d * k
  BY <1>3, Times
<1>5. QED  BY <1>1, <1>4

LEMMA Halving ==
    ASSUME NEW b, IsPower(b), b # 1
    PROVE  \E h \in Nat \ {0} : b = 2 * h /\ IsPower(h)
<1>1. b \in Nat \ {0} /\ b % b = 0
  <2>1. b \in Nat \ {0} /\ b = b * 1
    BY DEF IsPower
  <2>2. QED  BY <2>1, Divides
<1>2. b % 2 = 0
  BY <1>1 DEF IsPower
<1>3. PICK h \in Nat \ {0} : b = 2 * h
  <2>1. PICK h \in Int : b = 2 * h
    BY <1>1, <1>2, Divides
  <2>2. h \in Nat \ {0}
    BY <1>1, <2>1
  <2>3. QED  BY <2>1, <2>2
<1>4. ASSUME NEW d \in 1 .. h, h % d = 0
      PROVE  d = 1 \/ d % 2 = 0
  <2>1. b % h = 0
    <3>1. b = h * 2
      BY <1>3
    <3>2. QED  BY <1>1, <3>1, Divides
  <2>2. b % d = 0
    <3>1. d \in Nat \ {0}
      BY <1>3
    <3>2. b \in Int /\ h % d = 0
      BY <1>1, <1>4
    <3>3. QED  BY <2>1, <3>1, <3>2, DividesTransitive
  <2>3. d \in 1 .. b
    BY <1>3
  <2>4. QED  BY <2>2, <2>3 DEF IsPower
<1>5. QED  BY <1>3, <1>4 DEF IsPower

LEMMA Doubling ==
    ASSUME NEW b, IsPower(b)
    PROVE  IsPower(2 * b)
<1>1. b \in Nat \ {0}
  BY DEF IsPower
<1>2. ASSUME NEW d \in 1 .. 2 * b, (2 * b) % d = 0, d % 2 # 0
      PROVE  d = 1
  <2>1. PICK k \in Int : 2 * b = d * k
    BY <1>1, <1>2, Divides
  <2>2. PICK e \in Int : d = 2 * e + 1
    BY <1>2
  <2>3. PICK ek \in Int : ek = e * k
    OBVIOUS
  <2>4. d * k = 2 * ek + k
    BY <2>2, <2>3
  <2>5. k = 2 * (b - ek)
    BY <1>1, <2>1, <2>3, <2>4
  <2>6. PICK m \in Int : m = b - ek
    BY <1>1, <2>3
  <2>7. d * k = 2 * (d * m) /\ d * m \in Int
    BY <2>5, <2>6
  <2>8. b = d * m
    BY <1>1, <2>1, <2>7
  <2>9. b % d = 0
    BY <1>1, <2>8, Divides
  <2>10. d <= b
    BY <1>1, <2>9, DivisorLess
  <2>11. QED  BY <1>1, <1>2, <2>9, <2>10 DEF IsPower
<1>3. QED  BY <1>1, <1>2 DEF IsPower

\* Of two powers, twice the lesser divides the greater.
LEMMA LesserDivides ==
    \A b, c : IsPower(b) /\ IsPower(c) /\ c < b => b % (2 * c) = 0 /\ 2 * c <= b
<1> DEFINE Bad == {b \in Nat : IsPower(b) /\ \E c \in Nat : IsPower(c) /\ c < b /\ b % (2 * c) # 0}
<1>1. ASSUME Bad # {}
      PROVE  FALSE
  <2>1. Bad \in SUBSET Nat
    OBVIOUS
  <2>2. PICK b \in Bad : \A j \in Bad : b <= j
    BY <1>1, <2>1, LeastMember
  <2>3. PICK c \in Nat : IsPower(b) /\ IsPower(c) /\ c < b /\ b % (2 * c) # 0
    OBVIOUS
  <2>4. b \in Nat \ {0} /\ c \in Nat \ {0} /\ b # 1
    BY <2>3 DEF IsPower
  <2>5. PICK h \in Nat \ {0} : b = 2 * h /\ IsPower(h)
    BY <2>3, <2>4, Halving
  <2>6. c # 1
    <3>1. b % 2 = 0
      BY <2>4, <2>5, Divides
    <3>2. QED  BY <2>3, <3>1
  <2>7. PICK g \in Nat \ {0} : c = 2 * g /\ IsPower(g)
    BY <2>3, <2>6, Halving
  <2>8. g < h /\ h < b
    BY <2>3, <2>5, <2>7
  <2>9. h \notin Bad
    BY <2>2, <2>8
  <2>10. h % (2 * g) = 0
    BY <2>5, <2>7, <2>8, <2>9
  <2>11. PICK k \in Int : h = c * k
    BY <2>4, <2>7, <2>10, Divides
  <2>12. b = (2 * c) * k
    BY <2>5, <2>11, <2>4
  <2>13. QED  BY <2>3, <2>4, <2>12, Divides
<1>2. ASSUME NEW b, NEW c, IsPower(b), IsPower(c), c < b
      PROVE  b % (2 * c) = 0 /\ 2 * c <= b
  <2>1. b \in Nat \ {0} /\ c \in Nat \ {0}
    BY <1>2 DEF IsPower
  <2>2. b % (2 * c) = 0
    BY <1>1, <1>2, <2>1
  <2>3. QED  BY <2>1, <2>2, DivisorLess
<1>3. QED  BY <1>2

LEMMA SelfDivides ==
    ASSUME NEW d \in Nat \ {0}
    PROVE  d % d = 0 /\ (2 * d) % d = 0
<1>1. PICK e \in Nat \ {0} : e = 2 * d
  OBVIOUS
<1>2. d = d * 1 /\ e = d * 2 /\ d \in Int /\ e \in Int
  BY <1>1
<1>3. d % d = 0 /\ e % d = 0
  BY <1>2, Divides
<1>4. QED  BY <1>1, <1>3

LEMMA PowerDivides ==
    ASSUME NEW b \in Nat \ {0}, NEW c \in Nat \ {0}, IsPower(b), IsPower(c), c <= b
    PROVE  b % c = 0
<1>1. CASE c = b
  BY <1>1, SelfDivides
<1>2. CASE c < b
  <2>1. PICK e \in Nat \ {0} : e = 2 * c
    OBVIOUS
  <2>2. b % e = 0 /\ b \in Int
    BY <1>2, <2>1, LesserDivides
  <2>3. e % c = 0
    BY <2>1, SelfDivides
  <2>4. QED  BY <2>2, <2>3, DividesTransitive
<1>3. QED  BY <1>1, <1>2

\* Every positive number has a greatest power that divides it.
LEMMA PowerOf ==
    \A n \in Nat \ {0} : \E b : IsPower(b) /\ n % b = 0 /\ n % (2 * b) # 0
<1> DEFINE Bad == {n \in Nat : n # 0 /\ ~ \E b : IsPower(b) /\ n % b = 0 /\ n % (2 * b) # 0}
<1>1. ASSUME Bad # {}
      PROVE  FALSE
  <2>1. Bad \in SUBSET Nat
    OBVIOUS
  <2>2. PICK n \in Bad : \A j \in Bad : n <= j
    BY <1>1, <2>1, LeastMember
  <2>3. n \in Nat \ {0}
    OBVIOUS
  <2>4. IsPower(1)
    BY DEF IsPower
  <2>5. n % 2 = 0
    <3>1. n % 1 = 0
      OBVIOUS
    <3>2. QED  BY <2>4, <3>1
  <2>6. PICK m \in Nat \ {0} : n = 2 * m
    <3>1. PICK m \in Int : n = 2 * m
      BY <2>3, <2>5, Divides
    <3>2. m \in Nat \ {0}
      BY <2>3, <3>1
    <3>3. QED  BY <3>1, <3>2
  <2>7. m \notin Bad
    BY <2>2, <2>6
  <2>8. PICK b : IsPower(b) /\ m % b = 0 /\ m % (2 * b) # 0
    BY <2>6, <2>7
  <2>9. b \in Nat \ {0}
    BY <2>8 DEF IsPower
  <2>10. n % (2 * b) = 0
    <3>1. PICK k \in Int : m = b * k
      <4>1. m % b = 0 /\ m \in Int
        BY <2>8
      <4>2. QED  BY <2>9, <4>1, Divides
    <3>2. PICK c \in Nat \ {0} : c = 2 * b
      BY <2>9
    <3>3. n = c * k
      BY <2>6, <2>9, <3>1, <3>2
    <3>4. n % c = 0
      BY <2>3, <3>3, Divides
    <3>5. QED  BY <3>2, <3>4
  <2>11. n % (2 * (2 * b)) # 0
    <3>1. ASSUME n % (2 * (2 * b)) = 0
          PROVE  FALSE
      <4>1. PICK c, d \in Nat \ {0} : c = 2 * b /\ d = 2 * (2 * b)
        BY <2>9
      <4>2. PICK k \in Int : n = d * k
        <5>1. n % d = 0 /\ n \in Int
          BY <2>3, <3>1, <4>1
        <5>2. QED  BY <5>1, Divides
      <4>3. d * k = 2 * (c * k) /\ c * k \in Int
        BY <2>9, <4>1
      <4>4. m = c * k
        BY <2>6, <4>2, <4>3
      <4>5. m % c = 0
        BY <2>6, <4>4, Divides
      <4>6. QED  BY <2>8, <4>1, <4>5
    <3>2. QED  BY <3>1
  <2>12. IsPower(2 * b)
    BY <2>8, Doubling
  <2>13. QED  BY <2>10, <2>11, <2>12
<1>2. QED  BY <1>1

LEMMA PowerUnique ==
    ASSUME NEW n \in Nat \ {0}, NEW b, NEW c, IsPower(b), IsPower(c),
           n % b = 0, n % (2 * b) # 0, n % c = 0, n % (2 * c) # 0
    PROVE  b = c
<1>1. b \in Nat \ {0} /\ c \in Nat \ {0}
  BY DEF IsPower
<1> DEFINE b2 == 2 * b
           c2 == 2 * c
<1>2. b2 \in Nat \ {0} /\ c2 \in Nat \ {0} /\ n % b2 # 0 /\ n % c2 # 0
  BY <1>1
<1>3. (b < c => c % b2 = 0) /\ (c < b => b % c2 = 0)
  BY LesserDivides
<1> HIDE DEF b2, c2
<1>4. ~ (b < c) /\ ~ (c < b)
  <2>1. n \in Int
    OBVIOUS
  <2>2. c % b2 = 0 => n % b2 = 0
    BY <1>1, <1>2, <2>1, DividesTransitive
  <2>3. b % c2 = 0 => n % c2 = 0
    BY <1>1, <1>2, <2>1, DividesTransitive
  <2>4. QED  BY <1>2, <1>3, <2>2, <2>3
<1>5. QED  BY <1>1, <1>4

----------------------------------------------------------------------------
(* The start tree *)

Others == PUs \ {1}

LEMMA Sizes ==
    NumPU \in Nat \ {0} /\ IsPower(NumPU) /\ Steps \in Nat \ {0}
  BY SnnAssumption, PowersAre

LEMMA SizeOf ==
    ASSUME NEW p \in PUs
    PROVE  /\ IsPower(SubtreeSize(p)) /\ SubtreeSize(p) \in 1 .. NumPU
           /\ (p - 1) % SubtreeSize(p) = 0
           /\ p # 1 => (p - 1) % (2 * SubtreeSize(p)) # 0 /\ SubtreeSize(p) <= p - 1
           /\ p - 1 + SubtreeSize(p) <= NumPU
<1>1. NumPU \in Nat \ {0} /\ IsPower(NumPU) /\ p \in Nat \ {0} /\ p <= NumPU
  BY Sizes DEF PUs
<1>2. CASE p = 1
  <2>1. 0 % NumPU = 0
    <3>1. 0 = NumPU * 0
      BY <1>1
    <3>2. QED  BY <1>1, <3>1, Divides
  <2>2. QED  BY <1>1, <1>2, <2>1 DEF SubtreeSize
<1>3. CASE p # 1
  <2> DEFINE L == Lowbit(p - 1)
             n == p - 1
  <2>1. n \in Nat \ {0} /\ n < NumPU
    BY <1>1, <1>3
  <2>2. PICK b : IsPower(b) /\ n % b = 0 /\ n % (2 * b) # 0
    BY <2>1, PowerOf
  <2>3. b \in Nat \ {0} /\ b <= n
    BY <2>1, <2>2, DivisorLess DEF IsPower
  <2>4. b \in Powers
    BY <1>1, <2>1, <2>2, <2>3, PowersAre
  <2>5. L \in Powers /\ n % L = 0 /\ n % (2 * L) # 0
    <3> HIDE DEF n
    <3>1. \E x \in Powers : n % x = 0 /\ n % (2 * x) # 0
      BY <2>2, <2>4
    <3>2. QED  BY <3>1 DEF Lowbit, n
  <2>6. IsPower(L)
    BY <1>1, <2>5, PowersAre
  <2>7. PICK d \in Nat \ {0} : d = L
    BY <2>6 DEF IsPower
  <2> HIDE DEF n, L
  <2>8. d <= n /\ d < NumPU
    <3>1. n % d = 0
      BY <2>5, <2>7
    <3>2. PICK x \in Nat \ {0} : x = n
      BY <2>1
    <3>3. x % d = 0
      BY <3>1, <3>2
    <3>4. d <= x
      BY <3>3, DivisorLess
    <3>5. x < NumPU
      BY <2>1, <3>2
    <3>6. d < NumPU
      BY <1>1, <3>4, <3>5
    <3>7. QED  BY <3>2, <3>4, <3>6
  <2>9. NumPU % (2 * d) = 0
    BY <1>1, <2>6, <2>7, <2>8, LesserDivides
  <2>10. PICK k \in Int : n = d * k
    BY <2>1, <2>5, <2>7, Divides
  <2>11. PICK m \in Int : NumPU = d * m
    <3>1. PICK e \in Nat \ {0} : e = 2 * d
      OBVIOUS
    <3>2. PICK j \in Int : NumPU = e * j
      BY <1>1, <2>9, <3>1, Divides
    <3>3. PICK m \in Int : m = 2 * j
      OBVIOUS
    <3>4. NumPU = d * m
      BY <3>1, <3>2, <3>3
    <3>5. QED  BY <3>4
  <2>12. k + 1 <= m
    <3>1. m <= k => d * m <= d * k
      BY Times
    <3>2. QED  BY <2>1, <2>10, <2>11, <3>1
  <2>13. d * (k + 1) <= d * m /\ d * (k + 1) = d * k + d
    BY <2>12, Times
  <2>14. n + d <= NumPU
    BY <2>10, <2>11, <2>13
  <2>15. SubtreeSize(p) = d
    BY <1>3, <2>7 DEF SubtreeSize, L
  <2>16. QED  BY <1>1, <2>1, <2>5, <2>6, <2>7, <2>8, <2>14, <2>15 DEF n
<1>4. QED  BY <1>2, <1>3

\* The child of p that b is added for.
LEMMA ChildOf ==
    ASSUME NEW p \in PUs, NEW b, IsPower(b), b < SubtreeSize(p), NEW c, c = p + b
    PROVE  c \in Others /\ SubtreeSize(c) = b /\ Parent(c) = p
<1>1. PICK d \in Nat \ {0} : d = SubtreeSize(p) /\ IsPower(d) /\ (p - 1) % d = 0 /\ p - 1 + d <= NumPU
  BY SizeOf DEF PUs
<1>2. b \in Nat \ {0} /\ p \in Nat \ {0} /\ NumPU \in Nat
  BY Sizes DEF IsPower, PUs
<1>3. c \in Others /\ c # 1
  BY <1>1, <1>2 DEF PUs, Others
<1>4. PICK b2 \in Nat \ {0} : b2 = 2 * b
  BY <1>2
<1>5. PICK n \in Nat, m \in Nat \ {0} : n = p - 1 /\ m = c - 1
  BY <1>2
<1>6. m = n + b
  BY <1>2, <1>5
<1>7. d % b2 = 0
  BY <1>1, <1>4, LesserDivides
<1>8. n % b2 = 0
  BY <1>1, <1>5, <1>7, DividesTransitive
<1>9. b2 % b = 0 /\ b % b = 0
  <2>1. b2 = b * 2 /\ b = b * 1
    BY <1>2, <1>4
  <2>2. QED  BY <1>2, <2>1, Divides
<1> n \in Int /\ m \in Int /\ b \in Int
  BY <1>2
<1>10. n % b = 0
  BY <1>2, <1>8, <1>9, DividesTransitive
<1>11. m % b = 0
  <2>1. (n + b) % b = 0 <=> b % b = 0
    BY <1>2, <1>10, DividesSum
  <2>2. QED  BY <1>6, <1>9, <2>1
<1>12. m % b2 # 0
  <2>1. m % b2 = 0 => b % b2 = 0
    <3>1. (n + b) % b2 = 0 <=> b % b2 = 0
      BY <1>8, DividesSum
    <3>2. QED  BY <1>6, <3>1
  <2>2. b % b2 = 0 => b2 <= b
    BY <1>2, DivisorLess
  <2>3. QED  BY <1>2, <1>4, <2>1, <2>2
<1>13. PICK e : e = SubtreeSize(c)
  OBVIOUS
<1>14. IsPower(e) /\ m % e = 0 /\ m % (2 * e) # 0
  BY <1>3, <1>5, <1>13, SizeOf DEF Others
<1>15. e = b
  BY <1>4, <1>11, <1>12, <1>14, PowerUnique
<1>16. QED  BY <1>2, <1>3, <1>13, <1>15 DEF Parent

LEMMA ParentOf ==
    ASSUME NEW c \in Others
    PROVE  /\ Parent(c) \in PUs /\ Parent(c) < c
           /\ c = Parent(c) + SubtreeSize(c) /\ SubtreeSize(c) < SubtreeSize(Parent(c))
<1>1. c \in PUs /\ c # 1 /\ c \in Nat \ {0} /\ c <= NumPU /\ NumPU \in Nat \ {0}
  BY Sizes DEF Others, PUs
<1>2. PICK b \in Nat \ {0} : b = SubtreeSize(c) /\ IsPower(b)
  BY <1>1, SizeOf
<1>3. PICK m \in Nat \ {0} : m = c - 1
  BY <1>1
<1>4. PICK b2 \in Nat \ {0} : b2 = 2 * b
  OBVIOUS
<1>5. m % b = 0 /\ m % b2 # 0 /\ b <= m
  BY <1>1, <1>2, <1>3, <1>4, SizeOf
<1>6. PICK p \in Nat \ {0} : p = c - b
  BY <1>1, <1>3, <1>5
<1>7. p = Parent(c) /\ p < c /\ p \in PUs /\ c = p + b
  BY <1>1, <1>2, <1>6 DEF Parent, PUs
<1>8. PICK d \in Nat \ {0} : d = SubtreeSize(p) /\ IsPower(d) /\ (p = 1 => d = NumPU)
                             /\ (p # 1 => (p - 1) % (2 * d) # 0)
  BY <1>7, SizeOf DEF SubtreeSize
<1>9. PICK n \in Nat : n = p - 1
  OBVIOUS
<1> n \in Int /\ m \in Int /\ b \in Int
  OBVIOUS
<1>10. n % b2 = 0
  <2>1. PICK k \in Int : m = b * k
    BY <1>5, Divides
  <2>2. k % 2 # 0
    <3>1. ASSUME NEW j \in Int, k = 2 * j
          PROVE  FALSE
      <4>1. m = b2 * j
        BY <1>4, <2>1, <3>1
      <4>2. m % b2 = 0
        BY <4>1, Divides
      <4>3. QED  BY <1>5, <4>2
    <3>2. k % 2 = 0 => \E j \in Int : k = 2 * j
      BY Divides
    <3>3. QED  BY <3>1, <3>2
  <2>3. PICK j \in Int : k = 2 * j + 1
    BY <2>2
  <2>4. m = b2 * j + b /\ b2 * j \in Int
    BY <1>4, <2>1, <2>3
  <2>5. n = b2 * j
    <3>1. n = m - b
      BY <1>1, <1>3, <1>6, <1>9
    <3>2. QED  BY <2>4, <3>1
  <2>6. QED  BY <2>5, Divides
<1>11. b < d
  <2>1. CASE p = 1
    BY <1>1, <1>3, <1>5, <1>8, <2>1
  <2>2. CASE p # 1
    <3>1. PICK d2 \in Nat \ {0} : d2 = 2 * d
      OBVIOUS
    <3>2. n % d2 # 0
      BY <1>8, <1>9, <2>2, <3>1
    <3>3. d # b
      BY <1>4, <1>10, <3>1, <3>2
    <3>4. ~ (d < b)
      <4>1. d < b => b % d2 = 0
        BY <1>2, <1>8, <3>1, LesserDivides
      <4>2. b2 % b = 0
        <5>1. b2 = b * 2
          BY <1>4
        <5>2. QED  BY <5>1, Divides
      <4>3. n % b = 0
        BY <1>10, <4>2, DividesTransitive
      <4>4. b % d2 = 0 => n % d2 = 0
        BY <4>3, DividesTransitive
      <4>5. QED  BY <3>2, <4>1, <4>4
    <3>5. QED  BY <3>3, <3>4
  <2>3. QED  BY <2>1, <2>2
<1>12. QED  BY <1>2, <1>7, <1>8, <1>11

LEMMA Children ==
    ASSUME NEW p \in PUs
    PROVE  /\ \A c : c \in StartChildren(p) <=> c \in Others /\ Parent(c) = p
           /\ \A c \in StartChildren(p) : c = p + SubtreeSize(c) /\ 2 * SubtreeSize(c) <= SubtreeSize(p)
<1>1. ASSUME NEW c \in StartChildren(p)
      PROVE  c \in Others /\ Parent(c) = p
  <2>1. PICK b \in Powers : b < SubtreeSize(p) /\ c = p + b
    BY DEF StartChildren, Below
  <2>2. IsPower(b)
    BY <2>1, PowersAre, Sizes
  <2>3. QED  BY <2>1, <2>2, ChildOf
<1>2. ASSUME NEW c \in Others, Parent(c) = p
      PROVE  c \in StartChildren(p)
  <2>1. c = p + SubtreeSize(c) /\ SubtreeSize(c) < SubtreeSize(p)
    BY <1>2, ParentOf
  <2>2. c \in PUs
    BY DEF Others
  <2>3. SubtreeSize(c) \in Powers
    BY <2>2, SizeOf, PowersAre, Sizes
  <2>4. QED  BY <2>1, <2>3 DEF StartChildren, Below
<1>3. ASSUME NEW c \in StartChildren(p)
      PROVE  c = p + SubtreeSize(c) /\ 2 * SubtreeSize(c) <= SubtreeSize(p)
  <2>1. c \in Others /\ Parent(c) = p
    BY <1>1
  <2>2. c \in PUs /\ IsPower(SubtreeSize(c)) /\ IsPower(SubtreeSize(p))
    BY <2>1, SizeOf DEF Others
  <2>3. c = p + SubtreeSize(c) /\ SubtreeSize(c) < SubtreeSize(p)
    BY <2>1, ParentOf
  <2>4. QED  BY <2>2, <2>3, LesserDivides
<1>4. QED  BY <1>1, <1>2, <1>3

\* The subtree of a core is a range; those of its children are apart.
Subtree(p) == p .. p + SubtreeSize(p) - 1

LEMMA Subtrees ==
    ASSUME NEW p \in PUs
    PROVE  /\ IsFiniteSet(Subtree(p)) /\ Cardinality(Subtree(p)) = SubtreeSize(p)
           /\ p \in Subtree(p) /\ Subtree(p) \subseteq PUs
           /\ \A c \in StartChildren(p) : Subtree(c) \subseteq Subtree(p) /\ p \notin Subtree(c)
           /\ \A c, d \in StartChildren(p) : c # d => Subtree(c) \cap Subtree(d) = {}
<1>1. PICK n \in Nat \ {0} : n = SubtreeSize(p) /\ p - 1 + n <= NumPU /\ IsPower(n)
  BY SizeOf DEF PUs
<1>2. p \in Nat \ {0} /\ NumPU \in Nat /\ p + n - 1 \in Nat /\ p \in Int /\ p + n - 1 \in Int
  BY <1>1, Sizes DEF PUs
<1>3. IsFiniteSet(Subtree(p)) /\ Cardinality(Subtree(p)) = n
  <2>1. PICK e \in Int : e = p + n - 1
    BY <1>2
  <2>2. e - p + 1 = n /\ p <= e
    BY <1>1, <1>2, <2>1
  <2>3. Subtree(p) = p .. e
    BY <1>1, <2>1 DEF Subtree
  <2>4. IsFiniteSet(p .. e) /\ Cardinality(p .. e) = e - p + 1
    <3>1. ~ (p > e)
      BY <1>2, <2>2
    <3>2. QED  BY <1>2, <3>1, FS_Interval
  <2>5. QED  BY <2>2, <2>3, <2>4
<1>4. p \in Subtree(p) /\ Subtree(p) \subseteq PUs
  BY <1>1, <1>2 DEF Subtree, PUs
<1>5. ASSUME NEW c \in StartChildren(p)
      PROVE  Subtree(c) \subseteq Subtree(p) /\ p \notin Subtree(c)
  <2>1. PICK b : b = SubtreeSize(c) /\ c = p + b /\ 2 * b <= n
    BY <1>1, Children
  <2>2. c \in PUs
    BY Children DEF Others
  <2>3. b \in Nat \ {0}
    BY <2>1, <2>2, SizeOf DEF PUs
  <2>4. QED  BY <1>1, <1>2, <2>1, <2>3 DEF Subtree
<1>6. ASSUME NEW c \in StartChildren(p), NEW d \in StartChildren(p), c # d
      PROVE  Subtree(c) \cap Subtree(d) = {}
  <2>1. PICK b : b = SubtreeSize(c) /\ c = p + b
    BY Children
  <2>2. PICK e : e = SubtreeSize(d) /\ d = p + e
    BY Children
  <2>3. c \in PUs /\ d \in PUs
    BY Children DEF Others
  <2>4. b \in Nat \ {0} /\ e \in Nat \ {0} /\ IsPower(b) /\ IsPower(e)
    BY <2>1, <2>2, <2>3, SizeOf DEF PUs
  <2>5. b # e
    BY <1>6, <2>1, <2>2
  <2>6. (b < e => 2 * b <= e) /\ (e < b => 2 * e <= b)
    BY <2>4, LesserDivides
  <2>7. QED  BY <1>2, <2>1, <2>2, <2>4, <2>5, <2>6 DEF Subtree
<1>7. QED  BY <1>1, <1>3, <1>4, <1>5, <1>6

\* What is true of the root, and of the children of a core it is true of, is
\* true of all cores.
LEMMA FromRoot ==
    ASSUME NEW Good, 1 \in Good, \A c \in Others : Parent(c) \in Good => c \in Good
    PROVE  PUs \subseteq Good
<1> DEFINE Bad == {p \in Nat : p \in PUs /\ p \notin Good}
<1>1. ASSUME Bad # {}
      PROVE  FALSE
  <2>1. Bad \in SUBSET Nat
    OBVIOUS
  <2>2. PICK p \in Bad : \A j \in Bad : p <= j
    BY <1>1, <2>1, LeastMember
  <2>3. p \in Others /\ p \in Nat
    BY DEF Others
  <2>4. Parent(p) \in PUs /\ Parent(p) < p
    BY <2>3, ParentOf
  <2>5. Parent(p) \in Good
    BY <2>2, <2>3, <2>4 DEF PUs
  <2>6. QED  BY <2>3, <2>5
<1>2. QED  BY <1>1 DEF PUs

----------------------------------------------------------------------------
(* Domains *)

Members == 0 .. NumMC - 1

LEMMA DomainSizes ==
    /\ DomainSize \in Nat \ {0} /\ IsPower(DomainSize) /\ NumMC \in Nat \ {0}
    /\ NumMC <= NumPU /\ NumPU = DomainSize * NumMC
<1>1. NumPU \in Nat \ {0} /\ IsPower(NumPU) /\ IsPower(NumMC) /\ NumMC <= NumPU
  BY Sizes, SnnAssumption, PowersAre
<1>2. NumMC \in Nat \ {0}
  BY <1>1 DEF IsPower
<1>3. NumPU % NumMC = 0
  <2>1. PICK n, m \in Nat \ {0} : n = NumPU /\ m = NumMC
    BY <1>1, <1>2
  <2>2. QED  BY <1>1, <2>1, PowerDivides
<1>4. PICK k \in Int : NumPU = NumMC * k
  <2>1. PICK n, m \in Nat \ {0} : n = NumPU /\ m = NumMC
    BY <1>1, <1>2
  <2>2. n % m = 0 /\ n \in Int
    BY <1>3, <2>1
  <2>3. \E k \in Int : n = m * k
    BY <2>2, Divides
  <2>4. QED  BY <2>1, <2>3
<1>5. DomainSize = k
  <2>1. NumMC * k <= NumPU /\ NumPU < NumMC * (k + 1)
    BY <1>2, <1>4
  <2>2. QED  BY <1>1, <1>2, <2>1, InRange DEF DomainSize
<1>6. k \in Nat \ {0}
  <2>1. k <= 0 => NumMC * k <= NumMC * 0
    BY <1>2, Times
  <2>2. QED  BY <1>1, <1>2, <1>4, <2>1
<1>7. NumPU = k * NumMC
  BY <1>2, <1>4
<1>8. ASSUME NEW d \in 1 .. k, k % d = 0
      PROVE  d = 1 \/ d % 2 = 0
  <2>1. NumPU % k = 0
    BY <1>1, <1>2, <1>6, <1>7, Divides
  <2>2. d \in Nat \ {0} /\ NumPU \in Int
    BY <1>1, <1>6
  <2>3. NumPU % d = 0
    BY <1>6, <1>8, <2>1, <2>2, DividesTransitive
  <2>4. d <= NumPU
    BY <1>1, <2>2, <2>3, DivisorLess
  <2>5. QED  BY <1>1, <2>2, <2>3, <2>4 DEF IsPower
<1>9. QED  BY <1>1, <1>2, <1>5, <1>6, <1>7, <1>8 DEF IsPower

LEMMA Domains ==
    /\ \A p \in PUs : /\ Domain(p) \in Members
                      /\ Leader(Domain(p)) <= p /\ p < Leader(Domain(p)) + DomainSize
                      /\ IsLeader(p) <=> p = Leader(Domain(p))
    /\ \A d \in Members : /\ Leader(d) \in PUs /\ Domain(Leader(d)) = d
                          /\ IsLeader(Leader(d)) /\ Leader(d) + DomainSize - 1 \in PUs
                          /\ \A p \in Leader(d) .. Leader(d) + DomainSize - 1 :
                                p \in PUs /\ Domain(p) = d
<1>1. PICK D \in Nat \ {0} : D = DomainSize /\ NumPU = D * NumMC
  BY DomainSizes
<1>2. NumMC \in Nat \ {0} /\ NumPU \in Nat \ {0}
  BY Sizes, DomainSizes
<1>3. ASSUME NEW p \in PUs
      PROVE  /\ Domain(p) \in Members
             /\ Leader(Domain(p)) <= p /\ p < Leader(Domain(p)) + DomainSize
             /\ IsLeader(p) <=> p = Leader(Domain(p))
  <2>1. PICK n \in Nat : n = p - 1 /\ n < NumPU /\ p = n + 1
    BY <1>2 DEF PUs
  <2>2. PICK k \in Int : k = n \div D
    OBVIOUS
  <2>3. D * k <= n /\ n < D * k + D /\ D * k \in Int
    BY <2>2, Division
  <2>4. n % D = n - D * k
    <3>1. D * (k + 1) = D * k + D
      OBVIOUS
    <3>2. n \in Int /\ D * k <= n /\ n < D * (k + 1)
      BY <2>3, <3>1
    <3>3. QED  BY <3>2, InRange
  <2>5. k >= 0
    <3>1. k <= -1 => D * k <= D * (-1)
      BY Times
    <3>2. QED  BY <2>3, <3>1
  <2>6. k < NumMC
    <3>1. n < D * NumMC => n \div D < NumMC
      BY <1>2, DivLess
    <3>2. QED  BY <1>1, <2>1, <2>2, <3>1
  <2>7. Domain(p) = k /\ k \in Members
    BY <1>1, <1>2, <2>1, <2>2, <2>5, <2>6 DEF Domain, Members
  <2>8. Leader(k) = D * k + 1
    BY <1>1 DEF Leader
  <2>9. IsLeader(p) <=> n % D = 0
    BY <1>1, <2>1 DEF IsLeader
  <2>10. QED  BY <1>1, <2>1, <2>3, <2>4, <2>7, <2>8, <2>9
<1>4. ASSUME NEW d \in Members
      PROVE  /\ Leader(d) \in PUs /\ Domain(Leader(d)) = d
             /\ IsLeader(Leader(d)) /\ Leader(d) + DomainSize - 1 \in PUs
             /\ \A p \in Leader(d) .. Leader(d) + DomainSize - 1 : p \in PUs /\ Domain(p) = d
  <2>1. d \in Nat /\ d + 1 <= NumMC
    BY <1>2 DEF Members
  <2>2. PICK m \in Nat : m = D * d /\ D * (d + 1) = m + D
    BY <2>1
  <2>3. m + D <= NumPU
    <3>1. D * (d + 1) <= D * NumMC
      BY <1>2, <2>1, Times
    <3>2. QED  BY <1>1, <2>2, <3>1
  <2>4. Leader(d) = m + 1
    BY <1>1, <2>1, <2>2 DEF Leader
  <2>5. ASSUME NEW p \in m + 1 .. m + D
        PROVE  p \in PUs /\ Domain(p) = d
    <3>1. p \in PUs
      BY <1>2, <2>3, <2>5 DEF PUs
    <3>2. PICK n \in Int : n = p - 1
      OBVIOUS
    <3>3. m <= n /\ n < m + D
      BY <2>5, <3>2
    <3>4. n \div D = d
      <4>1. D * d <= n /\ n < D * (d + 1) /\ d \in Int
        BY <2>1, <2>2, <3>3
      <4>2. QED  BY <4>1, InRange
    <3>5. QED  BY <1>1, <3>1, <3>2, <3>4 DEF Domain
  <2>6. m + 1 \in m + 1 .. m + D /\ m + D \in m + 1 .. m + D
    OBVIOUS
  <2>7. Leader(d) \in PUs /\ Domain(Leader(d)) = d
    BY <2>4, <2>5, <2>6
  <2>8. Leader(d) + DomainSize - 1 = m + D
    BY <1>1, <2>4
  <2>9. QED  BY <1>3, <2>4, <2>5, <2>6, <2>7, <2>8
<1>5. QED  BY <1>3, <1>4

\* The children of a core outside its own kind of tree are leaders: the drain
\* tree of a domain is the start tree without the other leaders.
LEMMA DrainTree ==
    ASSUME NEW p \in PUs
    PROVE  \A c : c \in DrainChildren(p) <=> c \in StartChildren(p) /\ ~IsLeader(c)
<1>1. PICK D \in Nat \ {0} : D = DomainSize /\ IsPower(D) /\ D <= NumPU
  <2>1. NumMC * DomainSize >= 1 * DomainSize
    BY DomainSizes, Times
  <2>2. QED  BY <2>1, DomainSizes
<1>2. PICK L \in Nat \ {0} : L = SubtreeSize(p) /\ IsPower(L)
  BY SizeOf
<1>3. PICK n \in Nat : n = p - 1 /\ n % L = 0 /\ (p = 1 => n = 0 /\ L = NumPU) /\ (p # 1 => n # 0 /\ n % (2 * L) # 0)
  BY <1>2, SizeOf DEF PUs, SubtreeSize
<1>4. IsLeader(p) <=> n % D = 0
  BY <1>1, <1>3 DEF IsLeader
<1>5. IsLeader(p) <=> D <= L
  <2>1. CASE L < D
    <3>1. PICK e \in Nat \ {0} : e = 2 * L
      OBVIOUS
    <3>2. D % e = 0 /\ D \in Int /\ n \in Int
      BY <1>1, <1>2, <2>1, <3>1, LesserDivides
    <3>3. n % D = 0 => n % e = 0
      BY <3>2, DividesTransitive
    <3>4. QED  BY <1>1, <1>2, <1>3, <1>4, <2>1, <3>1, <3>3
  <2>2. CASE D <= L
    <3>1. L % D = 0
      BY <1>1, <1>2, <2>2, PowerDivides
    <3>2. n \in Int
      OBVIOUS
    <3>3. n % D = 0
      BY <1>3, <3>1, <3>2, DividesTransitive
    <3>4. QED  BY <1>4, <2>2, <3>3
  <2>3. QED  BY <2>1, <2>2
<1>6. ASSUME NEW c \in StartChildren(p)
      PROVE  /\ c - p = SubtreeSize(c) /\ IsPower(c - p) /\ c - p \in Nat \ {0} /\ c - p < L
             /\ IsLeader(c) <=> D <= c - p
  <2>1. c \in PUs /\ c # 1 /\ c = p + SubtreeSize(c) /\ 2 * SubtreeSize(c) <= L
    BY <1>2, Children DEF Others
  <2>2. PICK b \in Nat \ {0} : b = SubtreeSize(c) /\ IsPower(b)
    BY <2>1, SizeOf
  <2>3. p \in Nat
    BY DEF PUs
  <2>4. c - p = b
    BY <2>1, <2>2, <2>3
  <2>5. PICK m \in Nat \ {0} : m = c - 1 /\ m % b = 0 /\ m % (2 * b) # 0
    BY <2>1, <2>2, SizeOf DEF PUs
  <2>6. IsLeader(c) <=> m % D = 0
    BY <1>1, <2>5 DEF IsLeader
  <2>7. CASE b < D
    <3>1. PICK e \in Nat \ {0} : e = 2 * b
      OBVIOUS
    <3>2. D % e = 0 /\ D \in Int /\ m \in Int
      BY <1>1, <2>2, <2>7, <3>1, LesserDivides
    <3>3. m % D = 0 => m % e = 0
      BY <3>2, DividesTransitive
    <3>4. m % e # 0
      BY <2>5, <3>1
    <3>5. QED  BY <2>1, <2>2, <2>4, <2>6, <2>7, <3>3, <3>4
  <2>8. CASE D <= b
    <3>1. b % D = 0
      BY <1>1, <2>2, <2>8, PowerDivides
    <3>2. m \in Int /\ m % b = 0
      BY <2>5
    <3>3. m % D = 0
      BY <3>1, <3>2, DividesTransitive
    <3>4. QED  BY <2>1, <2>2, <2>4, <2>6, <2>8, <3>3
  <2>9. QED  BY <2>7, <2>8
<1>7. p \in Nat
  BY DEF PUs
<1>8. CASE IsLeader(p)
  <2>1. \A c : c \in DrainChildren(p) <=> \E b \in Powers : b < D /\ c = p + b
    BY <1>1, <1>8 DEF DrainChildren, Below
  <2>2. \A c : c \in StartChildren(p) <=> \E b \in Powers : b < L /\ c = p + b
    BY <1>2 DEF StartChildren, Below
  <2>3. \A b \in Powers : b \in Nat
    BY DEF Powers, PUs
  <2>4. D <= L
    BY <1>5, <1>8
  <2>5. ASSUME NEW c, c \in DrainChildren(p)
        PROVE  c \in StartChildren(p) /\ ~IsLeader(c)
    <3>1. PICK b \in Powers : b < D /\ c = p + b
      BY <2>1, <2>5
    <3>2. c \in StartChildren(p)
      BY <2>2, <2>3, <2>4, <3>1
    <3>3. c - p = b
      BY <1>7, <2>3, <3>1
    <3>4. QED  BY <1>6, <2>3, <3>1, <3>2, <3>3
  <2>6. ASSUME NEW c, c \in StartChildren(p), ~IsLeader(c)
        PROVE  c \in DrainChildren(p)
    <3>1. PICK b \in Powers : b < L /\ c = p + b
      BY <2>2, <2>6
    <3>2. c - p = b
      BY <1>7, <2>3, <3>1
    <3>3. b < D
      BY <1>6, <2>3, <2>6, <3>2
    <3>4. QED  BY <2>1, <3>1, <3>3
  <2>7. QED  BY <2>5, <2>6
<1>9. CASE ~IsLeader(p)
  <2>1. p # 1
    <3>1. 0 % D = 0
      <4>1. 0 = D * 0
        OBVIOUS
      <4>2. QED  BY <4>1, Divides
    <3>2. QED  BY <1>3, <1>4, <1>9, <3>1
  <2>2. DrainChildren(p) = StartChildren(p)
    BY <1>9, <2>1 DEF DrainChildren, StartChildren, SubtreeSize
  <2>3. L < D
    BY <1>5, <1>9
  <2>4. QED  BY <1>6, <2>2, <2>3
<1>10. QED  BY <1>8, <1>9

\* A core that is no leader is in the domain of its parent.
LEMMA SameDomain ==
    ASSUME NEW c \in PUs, ~IsLeader(c)
    PROVE  /\ c \in Others /\ Domain(Parent(c)) = Domain(c)
           /\ c \in DrainChildren(Parent(c))
           /\ c - 1 \in PUs /\ Domain(c - 1) = Domain(c)
<1>1. PICK d \in Members : d = Domain(c)
  BY Domains
<1>2. PICK l \in Nat \ {0} : /\ l = Leader(d) /\ l <= c /\ c < l + DomainSize /\ l # c
                             /\ \A p \in l .. l + DomainSize - 1 : p \in PUs /\ Domain(p) = d
  BY <1>1, Domains DEF PUs
<1>3. c \in Others /\ c \in Nat
  BY <1>2 DEF Others, PUs
<1>4. PICK D \in Nat \ {0} : D = DomainSize /\ IsPower(D)
  BY DomainSizes
<1>5. c - 1 \in PUs /\ Domain(c - 1) = d
  BY <1>2, <1>3, <1>4
<1>6. PICK p \in PUs : p = Parent(c) /\ p < c /\ c = p + SubtreeSize(c)
  BY <1>3, ParentOf
<1>7. c \in StartChildren(p)
  BY <1>3, <1>6, Children
<1>8. c \in DrainChildren(p)
  BY <1>7, DrainTree
<1>9. PICK b \in Nat \ {0} : b = SubtreeSize(c) /\ IsPower(b)
  BY SizeOf
<1>10. PICK m \in Nat \ {0} : m = c - 1 /\ m % b = 0
  BY <1>3, <1>9, SizeOf DEF Others
<1>11. PICK k \in Nat : k = d * D /\ k = l - 1
  <2>1. d \in Nat
    BY DomainSizes DEF Members
  <2>2. QED  BY <1>2, <1>4, <2>1 DEF Leader
<1>12. k % D = 0 /\ k \in Int
  <2>1. d \in Int /\ k \in Int
    BY <1>11, DomainSizes DEF Members
  <2>2. k = D * d
    BY <1>4, <1>11, <2>1
  <2>3. k % D = 0
    BY <2>1, <2>2, Divides
  <2>4. QED  BY <2>1, <2>3
<1>13. b < D
  <2>1. CASE D <= b
    <3>1. b % D = 0
      BY <1>4, <1>9, <2>1, PowerDivides
    <3>2. m \in Int
      OBVIOUS
    <3>3. m % D = 0
      BY <1>10, <3>1, <3>2, DividesTransitive
    <3>4. QED  BY <1>4, <1>10, <3>3 DEF IsLeader
  <2>2. QED  BY <2>1
<1>14. k % b = 0
  <2>1. PICK e \in Nat \ {0} : e = 2 * b
    OBVIOUS
  <2>2. D % e = 0 /\ D \in Int
    BY <1>4, <1>9, <1>13, <2>1, LesserDivides
  <2>3. e % b = 0 /\ e \in Int
    <3>1. e = b * 2 /\ e \in Int
      BY <2>1
    <3>2. QED  BY <3>1, Divides
  <2>4. D % b = 0
    BY <2>2, <2>3, DividesTransitive
  <2>5. QED  BY <1>12, <2>4, DividesTransitive
<1>15. PICK r \in Nat \ {0} : r = m - k
  <2>1. c \in Nat /\ l \in Nat /\ m = c - 1 /\ k = l - 1 /\ l <= c /\ l # c
    BY <1>2, <1>3, <1>10, <1>11
  <2>2. QED  BY <2>1
<1>16. r % b = 0
  <2>1. r \in Int /\ k \in Int /\ m = k + r
    BY <1>15
  <2>2. (k + r) % b = 0 <=> r % b = 0
    BY <1>14, <2>1, DividesSum
  <2>3. QED  BY <1>10, <2>1, <2>2
<1>17. b <= r
  BY <1>16, DivisorLess
<1>18. p \in l .. l + DomainSize - 1
  BY <1>2, <1>3, <1>4, <1>6, <1>9, <1>10, <1>11, <1>15, <1>17 DEF PUs
<1>19. QED  BY <1>1, <1>2, <1>3, <1>5, <1>6, <1>8, <1>18

----------------------------------------------------------------------------
(* Counting along the start tree *)

\* The cores of p's subtree it has counted: itself if it is in Own, and the
\* subtrees of its children in Told.
Tally(p, Own, Told) ==
    {q \in Subtree(p) : \/ q = p /\ p \in Own
                        \/ \E c \in StartChildren(p) : c \in Told /\ q \in Subtree(c)}

LEMMA TallySize ==
    ASSUME NEW p \in PUs, NEW Own, NEW Told
    PROVE  /\ IsFiniteSet(Tally(p, Own, Told))
           /\ Cardinality(Tally(p, Own, Told)) \in 0 .. SubtreeSize(p)
           /\ Cardinality(Tally(p, Own, Told)) = SubtreeSize(p) => Tally(p, Own, Told) = Subtree(p)
<1> DEFINE T == Tally(p, Own, Told)
           S == Subtree(p)
<1>1. IsFiniteSet(S) /\ Cardinality(S) = SubtreeSize(p) /\ T \subseteq S
  BY Subtrees DEF Tally
<1> HIDE DEF T, S
<1>2. IsFiniteSet(T) /\ Cardinality(T) <= Cardinality(S) /\ (Cardinality(S) = Cardinality(T) => S = T)
  BY <1>1, FS_Subset
<1>3. Cardinality(T) \in Nat /\ Cardinality(S) \in Nat
  BY <1>1, <1>2, FS_CardinalityType
<1>4. QED  BY <1>1, <1>2, <1>3 DEF T, S

\* A full tally counts the core itself and all its children.
LEMMA TallyFull ==
    ASSUME NEW p \in PUs, NEW Own, NEW Told, Tally(p, Own, Told) = Subtree(p)
    PROVE  p \in Own /\ \A c \in StartChildren(p) : c \in Told
<1>1. p \in Own
  BY Subtrees DEF Tally
<1>2. ASSUME NEW c \in StartChildren(p)
      PROVE  c \in Told
  <2>1. c \in PUs
    BY Children DEF Others
  <2>2. c \in Subtree(c) /\ c \in Subtree(p) /\ c # p
    BY <2>1, Subtrees
  <2>3. PICK d \in StartChildren(p) : d \in Told /\ c \in Subtree(d)
    BY <2>2 DEF Tally
  <2>4. d = c
    BY <2>2, <2>3, Subtrees
  <2>5. QED  BY <2>3, <2>4
<1>3. QED  BY <1>1, <1>2

LEMMA TallyNone ==
    ASSUME NEW p \in PUs, NEW Own, NEW Told, p \notin Own, \A c \in StartChildren(p) : c \notin Told
    PROVE  Cardinality(Tally(p, Own, Told)) = 0
<1>1. Tally(p, Own, Told) = {}
  BY DEF Tally
<1>2. QED  BY <1>1, FS_EmptySet

LEMMA TallyOwn ==
    ASSUME NEW p \in PUs, NEW Own, NEW Own2, NEW Told, p \notin Own, p \in Own2
    PROVE  Cardinality(Tally(p, Own2, Told)) = Cardinality(Tally(p, Own, Told)) + 1
<1>1. p \in Subtree(p) /\ \A c \in StartChildren(p) : p \notin Subtree(c)
  BY Subtrees
<1>2. Tally(p, Own2, Told) = Tally(p, Own, Told) \cup {p} /\ p \notin Tally(p, Own, Told)
  BY <1>1 DEF Tally
<1>3. IsFiniteSet(Tally(p, Own, Told))
  BY TallySize
<1>4. QED  BY <1>2, <1>3, FS_AddElement

LEMMA TallyChild ==
    ASSUME NEW p \in PUs, NEW c \in StartChildren(p), NEW Own, NEW Told, NEW Told2,
           c \notin Told, c \in Told2, \A d \in StartChildren(p) : d # c => (d \in Told2 <=> d \in Told)
    PROVE  Cardinality(Tally(p, Own, Told2)) = Cardinality(Tally(p, Own, Told)) + SubtreeSize(c)
<1> DEFINE T == Tally(p, Own, Told)
           S == Subtree(c)
<1>1. c \in PUs
  BY Children DEF Others
<1>2. Subtree(c) \subseteq Subtree(p) /\ p \notin Subtree(c)
      /\ \A d \in StartChildren(p) : d # c => Subtree(c) \cap Subtree(d) = {}
  BY Subtrees
<1>3. Tally(p, Own, Told2) = T \cup S
  BY <1>2 DEF Tally
<1>4. T \cap S = {}
  BY <1>2 DEF Tally
<1>5. IsFiniteSet(T) /\ IsFiniteSet(S) /\ Cardinality(S) = SubtreeSize(c)
  BY <1>1, TallySize, Subtrees
<1>6. Cardinality(T \cap S) = 0
  BY <1>4, FS_EmptySet
<1>7. Cardinality(T) \in Nat /\ Cardinality(S) \in Nat
  BY <1>5, FS_CardinalityType
<1> HIDE DEF T, S
<1>8. Cardinality(T \cup S) = Cardinality(T) + Cardinality(S) - Cardinality(T \cap S)
  BY <1>5, FS_Union
<1>9. Cardinality(T \cup S) = Cardinality(T) + Cardinality(S)
  BY <1>6, <1>7, <1>8
<1>10. QED  BY <1>3, <1>5, <1>9 DEF T

\* Only what concerns the core and its children matters.
LEMMA TallySame ==
    ASSUME NEW p \in PUs, NEW Own, NEW Own2, NEW Told, NEW Told2, p \in Own <=> p \in Own2,
           \A c \in StartChildren(p) : c \in Told <=> c \in Told2
    PROVE  Tally(p, Own2, Told2) = Tally(p, Own, Told)
  BY DEF Tally

\* If the root has counted all cores, and each core that told its parent all
\* of its subtree, then every core has counted itself and told its parent.
LEMMA AllCounted ==
    ASSUME NEW Own, NEW Told, Cardinality(Tally(1, Own, Told)) = NumPU,
           \A c \in Others : c \in Told => Cardinality(Tally(c, Own, Told)) = SubtreeSize(c)
    PROVE  \A p \in PUs : p \in Own /\ (p # 1 => p \in Told)
<1> DEFINE Good == {p \in PUs : p \in Own /\ (p # 1 => p \in Told) /\ \A c \in StartChildren(p) : c \in Told}
<1>1. 1 \in PUs /\ SubtreeSize(1) = NumPU
  BY Sizes DEF PUs, SubtreeSize
<1>2. 1 \in Good
  BY <1>1, TallySize, TallyFull
<1>3. ASSUME NEW c \in Others, Parent(c) \in Good
      PROVE  c \in Good
  <2>1. c \in PUs /\ Parent(c) \in PUs
    BY ParentOf DEF Others
  <2>2. c \in StartChildren(Parent(c))
    BY <2>1, Children
  <2>3. c \in Told
    BY <1>3, <2>2
  <2>4. Cardinality(Tally(c, Own, Told)) = SubtreeSize(c)
    BY <2>3
  <2>5. Tally(c, Own, Told) = Subtree(c)
    BY <2>1, <2>4, TallySize
  <2>6. QED  BY <2>1, <2>3, <2>5, TallyFull
<1>4. PUs \subseteq Good
  BY <1>2, <1>3, FromRoot
<1>5. QED  BY <1>4

----------------------------------------------------------------------------
(* The invariant *)

\* What the code supports: every core has a neuron, and the tree drain is not
\* built with a domain of one core.
Proper ==
    /\ \A p \in PUs : Neurons[p] > 0
    /\ "tree" \in Drains => DomainSize > 1

\* The messages under way, by handler.
Of(h) == {m \in net : m.handler = h}
Boots == Of("boot_control")
Readies == Of("boot_ready")
Works == Of("work_update")
Reports == Of("termination_reduce")
Installs == Of("termination_install")
Idles == Of("termination_idle")
Closings == Of("termination_drain")
Finals == Of("termination_domain_done")
Prepares == Of("prepare_next")
Endings == Of("termination_prepare_reduce")

Now == pu[1].step

\* The tail of a core: at most one of its threads has one.
Tails == [p \in PUs |-> IF tail[p][0] # "none" THEN tail[p][0] ELSE tail[p][1]]
Rests == {"none", "count", "schedule"}
OneTail ==
    /\ tail \in [PUs -> [Threads -> Rests]]
    /\ \A p \in PUs : tail[p][0] = "none" \/ tail[p][1] = "none"

\* The step a core prepares for, its tail included.
Aim(p) == IF Tails[p] = "none" THEN pu[p].prep[1] ELSE pu[p].prep[1] + 1

\* A core waits for the start of the step, accepts its spikes, or is shut.
Waiting == {p \in PUs : Aim(p) = Now /\ ~pu[p].spikeOn}
Live == {p \in PUs : pu[p].spikeOn}
Shut == PUs \ (Waiting \cup Live)

Words == [counter : 0 .. NumPU, fired : Nat, drained : 0 .. NumPU, prepared : 0 .. NumPU,
          step : 0 .. Steps - 1, prep : (0 .. Steps) \X (0 .. 2), s8 : Nat, spikeOn : BOOLEAN]
\* The types of the state, and no subtree drains more than its cores.
Typing ==
    /\ drain \in Drains /\ halted \in {"no", "ok"}
    /\ \A m \in net : m.to \in PUs
    /\ pu \in [PUs -> Words]
    /\ OneTail
    /\ DOMAIN window = PUs /\ DOMAIN queue = PUs
    /\ DOMAIN adding = PUs /\ \A p \in PUs : DOMAIN adding[p] = Threads
    /\ \A p \in PUs : window[p] \in [1 .. Neurons[p] -> Nat] /\ pu[p].drained <= SubtreeSize(p)

\* How far the preparation of a core is, and for which step.
Reached(r) == IF r.prep[2] = PrepQueued THEN 1 ELSE r.s8
Next1(p, k, x) == Msg("prepare_next", p, p, <<k, x>>)
\* The preparation of a core: a live one is through with that of its step, a
\* shut one is at that of the next, and each neuron below the one that is
\* reached was prepared once more than the others.
Core(p) ==
    /\ p \in Live => pu[p].step = Now /\ pu[p].prep = <<Now, PrepDone>> /\ Tails[p] = "none"
    /\ p \in Shut => pu[p].step = Now /\ Aim(p) = Now + 1
    /\ Tails[p] # "none" => pu[p].prep[2] = PrepDone
    /\ pu[p].s8 \in 1 .. Neurons[p] + 1
    /\ pu[p].prep[2] = PrepDone => pu[p].s8 = Neurons[p] + 1
    /\ pu[p].prep[2] = PrepRunning => pu[p].s8 <= Neurons[p]
    /\ \A i \in 1 .. Neurons[p] :
          window[p][i] = IF i < Reached(pu[p]) THEN pu[p].prep[1] + 1 ELSE pu[p].prep[1]
Cores ==
    /\ \A p \in PUs : Core(p)
    /\ \A m \in Prepares : \E p \in PUs, k \in 0 .. Steps, x \in {PrepQueued, PrepRunning} :
          m = Next1(p, k, x)

Hello(p) == Msg("boot_control", p, p, <<0>>)
Ready(p) == Msg("boot_ready", p, 1, <<>>)
Token(c, s) == Msg("boot_control", Parent(c), c, <<s + 1>>)
Joined == {p \in Others : Hello(p) \notin Boots /\ Ready(p) \notin Readies}
\* The tokens of boot and step: before the first step PU1 has counted those it
\* was told of; a core with a token under way waits, and so do all below it.
Booting ==
    /\ 1 \in Waiting =>
          /\ Now = 0 /\ Waiting = PUs
          /\ pu[1].counter = Cardinality(Joined)
          /\ \A p \in Others : ~ (Hello(p) \in Boots /\ Ready(p) \in Readies)
    /\ \A m \in Boots :
          \/ 1 \in Waiting /\ \E p \in PUs : m = Hello(p) /\ (p = 1 => NumPU = 1)
          \/ \E c \in Others : m = Token(c, Now) /\ c \in Waiting /\ Parent(c) \notin Waiting
    /\ \A m \in Readies : 1 \in Waiting /\ \E p \in Others : m = Ready(p)
    /\ \A c \in Others : Parent(c) \in Waiting => c \in Waiting

Work(p, i) == Msg("work_update", p, p, <<i>>)
Working == {p \in PUs : \E m \in Works : m.to = p}
Updated == PUs \ (Waiting \cup Working)
\* The chain of update messages of a core: one link at a time, of this step.
Updating ==
    /\ \A m \in Works :
          \E p \in Live : \E i \in 1 .. Neurons[p] + 1 : m = Work(p, i)
    /\ \A m, n \in Works : m.to = n.to => m = n

Report(c) == Msg("termination_reduce", c, Parent(c), <<SubtreeSize(c)>>)
Reported == {c \in Others : c \notin Waiting /\ pu[c].counter = SubtreeSize(c) /\ Report(c) \notin Reports}
AllUpdated == Cardinality(Tally(1, Updated, Reported)) = NumPU
\* Updates reduced: the counter of a core is the number of cores of its subtree
\* that it was told of, by itself or by children whose report is not under way.
\* PU1 then reuses its counter for the domains.
Reporting ==
    /\ \A m \in Reports : \E c \in Others :
          m = Report(c) /\ c \notin Waiting /\ pu[c].counter = SubtreeSize(c)
    /\ \A p \in PUs : p \notin Waiting /\ (p = 1 => ~AllUpdated) =>
          pu[p].counter = Cardinality(Tally(p, Updated, Reported))

IdleOf(d) == Msg("termination_idle", 0, Leader(d), <<0>>)
InstallOf(d) == Msg("termination_install", Leader(d) - DomainSize, Leader(d), <<d>>)
\* Idle notifiers come after all updates, one installation after the other.
\* A leader is shut before the rest of its domain.
Staged ==
    /\ ~AllUpdated => /\ notifier = {} /\ Shut = {}
                      /\ Installs = {} /\ Idles = {}
                      /\ Closings = {} /\ Finals = {}
    /\ notifier \subseteq Members
    /\ \A m \in Installs : \E d \in Members \ {0} : m = InstallOf(d)
    /\ \A m, n \in Installs : m = n
    /\ \A m \in Idles : \E d \in Members : m = IdleOf(d)
    /\ \A d \in Members : \A k \in 1 .. d : InstallOf(k) \in Installs =>
          d \notin notifier /\ IdleOf(d) \notin Idles /\ Leader(d) \in Live
    /\ \A d \in Members : d \in notifier => IdleOf(d) \notin Idles /\ Leader(d) \in Live
    /\ \A d \in Members : IdleOf(d) \in Idles => Leader(d) \in Live
    /\ \A p \in Shut : Leader(Domain(p)) \in Shut

Final(d, f) == Msg("termination_domain_done", Leader(d), 1, <<f>>)
Gone == {d \in Members : /\ Leader(d) \in Shut
                         /\ \A m \in Closings : Domain(m.to) # d
                         /\ \A m \in Finals : m.from # Leader(d)}
\* The reverse drain: one token in each domain that is shutting, shut cores above
\* it, and PU1 counts the domains whose token is gone.
Reverse ==
    /\ \A m \in Closings :
          /\ m.args \in Nat \X {0}
          /\ Leader(Domain(m.to)) \in Shut
          /\ \A q \in PUs : Domain(q) = Domain(m.to) /\ ~IsLeader(q) => (q \in Shut <=> q > m.to)
    /\ \A m \in Finals :
          /\ m.args[1] \in Nat
          /\ \E d \in Members : m = Final(d, m.args[1])
          /\ \A q \in PUs : Leader(Domain(q)) = m.from => q \in Shut
    /\ \A m, n \in Closings : Domain(m.to) = Domain(n.to) => m = n
    /\ \A m, n \in Finals : m.from = n.from => m = n
    /\ \A m \in Closings, n \in Finals :
          n.from # Leader(Domain(m.to))
    /\ \A q \in PUs : Domain(q) \in Gone => q \in Shut
    /\ AllUpdated => pu[1].counter = Cardinality(Gone)
    /\ \A p \in PUs : Tails[p] # "count"

Counting == {p \in PUs : Tails[p] = "count"}
Down(c) == Msg("termination_drain", Parent(c), c, <<0, 0>>)
Up(c, f) == Msg("termination_drain", c, Parent(c), <<f, SubtreeSize(c)>>)
Drained == {c \in Others : /\ c \notin Waiting /\ pu[c].drained = SubtreeSize(c)
                           /\ \A m \in Closings : m.from = c => m.args[2] = 0}
\* The tree drain: shut from the root down, drained counts back to the root.
Tree ==
    /\ \A m \in Closings :
          \/ \E c \in Live : m = Down(c) /\ ~IsLeader(c) /\ Parent(c) \in Shut
          \/ \E c \in Others : /\ m = Up(c, m.args[1]) /\ m.args[1] \in Nat
                               /\ c \notin Waiting /\ pu[c].drained = SubtreeSize(c)
    /\ \A m, n \in Closings : m.from = n.from /\ m.args[2] # 0 /\ n.args[2] # 0 => m = n
    /\ \A p \in PUs : p \notin Waiting =>
          pu[p].drained = Cardinality(Tally(p, Shut \ Counting, Drained))
    /\ \A c \in Shut : ~IsLeader(c) => Parent(c) \in Shut
    /\ Counting \subseteq Shut
    /\ \A m \in Finals :
          m = Final(0, m.args[1]) /\ m.args[1] \in Nat /\ pu[1].drained = NumPU
    /\ \A m, n \in Finals : m = n

Prepared(c) == Msg("termination_prepare_reduce", c, Parent(c), <<SubtreeSize(c)>>)
Ended == {p \in PUs : pu[p].prep = <<Steps, PrepDone>>}
Told == {c \in Others : pu[c].prepared = SubtreeSize(c) /\ Prepared(c) \notin Endings}
\* The end state reduced like the updates, and not before the last step.
Preparing ==
    /\ \A m \in Endings : \E c \in Others :
          m = Prepared(c) /\ pu[c].prepared = SubtreeSize(c)
    /\ \A p \in PUs : pu[p].prepared = Cardinality(Tally(p, Ended, Told))
    /\ \A p \in PUs : Now + 1 < Steps \/ p \in Waiting => pu[p].prepared = 0

Spike == [from : AllNeurons, to : AllNeurons, step : 0 .. Steps - 1]
Here(p) == queue[p] \cup adding[p][0] \cup adding[p][1]
\* Spikes are of this step, for cores that are not shut, and none is in memory
\* when the notifier of its domain has fired.
Spiking ==
    /\ memory \subseteq Spike
    /\ \A s \in memory : /\ s.step = Now /\ Leader(Domain(s.to[1])) \notin Shut
                         /\ IdleOf(Domain(s.to[1])) \notin Idles
    /\ \A p \in PUs : \A s \in Here(p) : s \in Spike /\ s.to[1] = p /\ s.step = Now /\ p \notin Shut

Draining == (drain = "reverse" => Reverse) /\ (drain = "tree" => Tree)
\* The inductive invariant.
Inv == /\ Typing /\ Cores /\ Booting /\ Updating /\ Reporting
       /\ Staged /\ Draining /\ Preparing /\ Spiking

----------------------------------------------------------------------------
(* A step that leaves what a part of the invariant is about keeps the part *)

LEMMA MsgIs ==
    \A h, f, t, a : /\ Msg(h, f, t, a).handler = h /\ Msg(h, f, t, a).from = f
                    /\ Msg(h, f, t, a).to = t /\ Msg(h, f, t, a).args = a
  BY DEF Msg

LEMMA WorkIs ==
    \A p, i : /\ Work(p, i).handler = "work_update" /\ Work(p, i).to = p
              /\ Work(p, i).args = <<i>>
  BY MsgIs DEF Work

LEMMA BootIs ==
    /\ \A p : Hello(p).handler = "boot_control" /\ Hello(p).to = p /\ Hello(p).args = <<0>>
    /\ \A p : Ready(p).handler = "boot_ready" /\ Ready(p).from = p /\ Ready(p).to = 1
    /\ \A c, s : /\ Token(c, s).handler = "boot_control" /\ Token(c, s).to = c
                 /\ Token(c, s).args = <<s + 1>>
  BY MsgIs DEF Hello, Ready, Token

LEMMA ReportIs ==
    /\ \A c : /\ Report(c).handler = "termination_reduce" /\ Report(c).from = c
              /\ Report(c).to = Parent(c) /\ Report(c).args = <<SubtreeSize(c)>>
    /\ \A c : /\ Prepared(c).handler = "termination_prepare_reduce" /\ Prepared(c).from = c
              /\ Prepared(c).to = Parent(c) /\ Prepared(c).args = <<SubtreeSize(c)>>
  BY MsgIs DEF Report, Prepared

LEMMA StageIs ==
    /\ \A d : /\ InstallOf(d).handler = "termination_install" /\ InstallOf(d).to = Leader(d)
              /\ InstallOf(d).args = <<d>>
    /\ \A d : IdleOf(d).handler = "termination_idle" /\ IdleOf(d).to = Leader(d)
           /\ IdleOf(d).args = <<0>>
    /\ \A d, f : /\ Final(d, f).handler = "termination_domain_done" /\ Final(d, f).from = Leader(d)
                 /\ Final(d, f).to = 1 /\ Final(d, f).args = <<f>>
    /\ \A c : /\ Down(c).handler = "termination_drain" /\ Down(c).from = Parent(c)
              /\ Down(c).to = c /\ Down(c).args = <<0, 0>>
    /\ \A c, f : /\ Up(c, f).handler = "termination_drain" /\ Up(c, f).from = c
                 /\ Up(c, f).to = Parent(c) /\ Up(c, f).args = <<f, SubtreeSize(c)>>
  BY MsgIs DEF InstallOf, IdleOf, Final, Down, Up

LEMMA TailsSame ==
    ASSUME tail' = tail
    PROVE  Tails' = Tails /\ (OneTail => OneTail')
  BY DEF Tails, OneTail

\* A thread of core c whose other thread has no tail gets another tail.
TailTo(c, rest) ==
    \E t \in Threads : /\ tail' = [tail EXCEPT ![c][t] = rest]
                       /\ \A u \in Threads \ {t} : tail[c][u] = "none"

LEMMA TailStep ==
    ASSUME OneTail, NEW c \in PUs, NEW rest \in Rests, TailTo(c, rest)
    PROVE  OneTail' /\ Tails' = [Tails EXCEPT ![c] = rest]
           /\ Tails'[c] = rest /\ \A q \in PUs : q # c => Tails'[q] = Tails[q]
<1>1. PICK t \in Threads : /\ tail' = [tail EXCEPT ![c][t] = rest]
                           /\ \A u \in Threads \ {t} : tail[c][u] = "none"
  BY DEF TailTo
<1>2. tail[c] \in [Threads -> Rests] /\ \A p \in PUs : tail[p] \in [Threads -> Rests]
  BY DEF OneTail
<1>3. PICK f : f = [tail[c] EXCEPT ![t] = rest]
  OBVIOUS
<1>4. f \in [Threads -> Rests] /\ f[t] = rest /\ \A u \in Threads : u # t => f[u] = "none"
  BY <1>1, <1>2, <1>3
<1>5. tail' = [tail EXCEPT ![c] = f]
  BY <1>1, <1>3
<1>6. /\ tail' \in [PUs -> [Threads -> Rests]] /\ tail'[c] = f
      /\ \A q \in PUs : q # c => tail'[q] = tail[q]
  BY <1>4, <1>5 DEF OneTail
<1>7. OneTail'
  BY <1>4, <1>6 DEF OneTail, Threads
<1>8. Tails'[c] = rest
  BY <1>4, <1>6 DEF Tails, Threads
<1>9. \A q \in PUs : q # c => Tails'[q] = Tails[q]
  BY <1>6 DEF Tails
<1>10. Tails' = [Tails EXCEPT ![c] = rest]
  BY <1>8, <1>9 DEF Tails
<1>11. QED  BY <1>7, <1>8, <1>9, <1>10

\* What Tails says of the threads.
LEMMA TailsAre ==
    ASSUME OneTail
    PROVE  /\ Tails \in [PUs -> Rests]
           /\ \A p \in PUs : Tails[p] = "none" <=> \A t \in Threads : tail[p][t] = "none"
           /\ \A p \in PUs, t \in Threads : tail[p][t] # "none" =>
                  Tails[p] = tail[p][t] /\ \A u \in Threads \ {t} : tail[p][u] = "none"
  BY DEF OneTail, Tails, Threads

LEMMA Still ==
    ASSUME tail' = tail,
           \A p \in PUs : pu'[p].prep = pu[p].prep /\ pu'[p].spikeOn = pu[p].spikeOn /\ pu'[p].step = pu[p].step
    PROVE  Now' = Now /\ Waiting' = Waiting /\ Live' = Live /\ Shut' = Shut /\ Counting' = Counting
<1>1. 1 \in PUs
  BY Sizes DEF PUs
<1>2. Now' = Now
  BY <1>1 DEF Now
<1>3. Waiting' = Waiting /\ Live' = Live /\ Counting' = Counting
  BY <1>2, TailsSame DEF Waiting, Live, Counting, Aim
<1>4. QED  BY <1>2, <1>3 DEF Shut

LEMMA CoresFrame ==
    ASSUME Cores, tail' = tail, window' = window, Now' = Now, Waiting' = Waiting, Live' = Live,
           \A p \in PUs : pu'[p].prep = pu[p].prep /\ pu'[p].step = pu[p].step /\ pu'[p].s8 = pu[p].s8,
           Prepares' \subseteq Prepares
    PROVE  Cores'
<1>1. Shut' = Shut
  BY DEF Shut
<1>2. ASSUME NEW p \in PUs
      PROVE  Core(p)'
  BY <1>1, TailsSame DEF Cores, Core, Reached, Aim
<1>3. QED  BY <1>2 DEF Cores

LEMMA BootingFrame ==
    ASSUME Booting, Boots' = Boots, Readies' = Readies, Now' = Now, Waiting' = Waiting,
           1 \in Waiting => pu'[1].counter = pu[1].counter
    PROVE  Booting'
<1>1. Joined' = Joined
  BY DEF Joined
<1>2. QED  BY <1>1 DEF Booting

LEMMA UpdatingFrame ==
    ASSUME Updating, Works' = Works, Live' = Live
    PROVE  Updating'
  BY DEF Updating

LEMMA ReportedFrame ==
    ASSUME Reports' = Reports, Waiting' = Waiting, Works' = Works \/ Working' = Working,
           \A p \in PUs : pu'[p].counter = pu[p].counter \/ p \in Waiting \/ p = 1
    PROVE  Working' = Working /\ Updated' = Updated /\ Reported' = Reported /\ (AllUpdated' <=> AllUpdated)
<1>1. Working' = Working
  BY DEF Working
<1>2. Updated' = Updated
  BY <1>1 DEF Updated
<1>3. Reported' = Reported
  BY DEF Reported, Others
<1>4. QED  BY <1>1, <1>2, <1>3 DEF AllUpdated

LEMMA ReportingFrame ==
    ASSUME Reporting, Reports' = Reports, Waiting' = Waiting, Works' = Works \/ Working' = Working,
           \A p \in PUs : pu'[p].counter = pu[p].counter \/ p \in Waiting \/ (p = 1 /\ AllUpdated)
    PROVE  Reporting'
<1>1. Updated' = Updated /\ Reported' = Reported /\ (AllUpdated' <=> AllUpdated)
  BY ReportedFrame
<1>2. \A m \in Reports' : \E c \in Others :
          m = Report(c) /\ c \notin Waiting' /\ pu'[c].counter = SubtreeSize(c)
  BY DEF Reporting, Others
<1>3. \A p \in PUs : p \notin Waiting' /\ (p = 1 => ~AllUpdated') =>
          pu'[p].counter = Cardinality(Tally(p, Updated', Reported'))
  BY <1>1 DEF Reporting
<1>4. QED  BY <1>2, <1>3 DEF Reporting

LEMMA StagedFrame ==
    ASSUME Staged, AllUpdated' <=> AllUpdated, notifier' = notifier, Live' = Live, Shut' = Shut,
           Installs' = Installs, Idles' = Idles, Closings' = Closings, Finals' = Finals
    PROVE  Staged'
  BY DEF Staged

LEMMA DrainingFrame ==
    ASSUME Draining, drain' = drain, Closings' = Closings, Finals' = Finals, tail' = tail,
           Live' = Live, Shut' = Shut, Waiting' = Waiting,
           AllUpdated' <=> AllUpdated, AllUpdated => pu'[1].counter = pu[1].counter,
           \A p \in PUs : pu'[p].drained = pu[p].drained
    PROVE  Draining'
<1>1. Gone' = Gone /\ Counting' = Counting /\ Tails' = Tails
  BY TailsSame DEF Gone, Counting
<1>2. Drained' = Drained
  BY DEF Drained, Others
<1>3. Reverse => Reverse'
  BY <1>1 DEF Reverse
<1>4. 1 \in PUs
  BY Sizes DEF PUs
<1>5. ASSUME Tree
      PROVE  Tree'
  <2>1. \A x \in Closings' :
            \/ \E c \in Live' : x = Down(c) /\ ~IsLeader(c) /\ Parent(c) \in Shut'
            \/ \E c \in Others : /\ x = Up(c, x.args[1]) /\ x.args[1] \in Nat
                                 /\ c \notin Waiting' /\ pu'[c].drained = SubtreeSize(c)
    BY <1>5 DEF Tree, Others
  <2>2. /\ \A x, y \in Closings' : x.from = y.from /\ x.args[2] # 0 /\ y.args[2] # 0 => x = y
        /\ \A c \in Shut' : ~IsLeader(c) => Parent(c) \in Shut'
        /\ Counting' \subseteq Shut'
    BY <1>1, <1>5 DEF Tree
  <2>3. \A p \in PUs : p \notin Waiting' =>
            pu'[p].drained = Cardinality(Tally(p, Shut' \ Counting', Drained'))
    BY <1>1, <1>2, <1>5 DEF Tree
  <2>4. /\ \A x \in Finals' : x = Final(0, x.args[1]) /\ x.args[1] \in Nat /\ pu'[1].drained = NumPU
        /\ \A x, y \in Finals' : x = y
    BY <1>4, <1>5 DEF Tree
  <2>5. QED  BY <2>1, <2>2, <2>3, <2>4 DEF Tree
<1>6. QED  BY <1>3, <1>5 DEF Draining

LEMMA PreparingFrame ==
    ASSUME Preparing, Endings' = Endings, Now' = Now, Waiting' \subseteq Waiting, Ended' = Ended,
           \A p \in PUs : pu'[p].prepared = pu[p].prepared
    PROVE  Preparing'
<1>1. Told' = Told
  BY DEF Told, Others
<1>2. QED  BY <1>1 DEF Preparing, Others

LEMMA SpikingFrame ==
    ASSUME Spiking, memory' = memory, queue' = queue, adding' = adding, Now' = Now, Shut' = Shut,
           Idles' \subseteq Idles
    PROVE  Spiking'
<1>1. \A p \in PUs : Here(p)' = Here(p)
  BY DEF Here
<1>2. QED  BY <1>1 DEF Spiking

----------------------------------------------------------------------------
(* The initial states *)

LEMMA Basics ==
    /\ NumPU \in Nat \ {0} /\ NumMC \in Nat \ {0} /\ Steps \in Nat \ {0} /\ 1 \in PUs
    /\ Neurons \in [PUs -> Nat] /\ SubtreeSize(1) = NumPU
    /\ \A p \in PUs : SubtreeSize(p) \in 1 .. NumPU
<1>1. ASSUME NEW p \in PUs
      PROVE  SubtreeSize(p) \in 1 .. NumPU
  BY SizeOf
<1>2. QED  BY <1>1, Sizes, DomainSizes, SnnAssumption DEF PUs, SubtreeSize

LEMMA InitInv ==
    ASSUME Proper, Init
    PROVE  Inv
<1>1. /\ NumPU \in Nat \ {0} /\ Steps \in Nat \ {0} /\ 1 \in PUs /\ Neurons \in [PUs -> Nat]
      /\ \A p \in PUs : SubtreeSize(p) \in 1 .. NumPU
  BY Basics
<1>2. /\ pu \in [PUs -> Words]
      /\ \A p \in PUs : /\ pu[p].counter = 0 /\ pu[p].drained = 0 /\ pu[p].prepared = 0
                        /\ pu[p].step = 0 /\ pu[p].prep = <<0, PrepQueued>> /\ pu[p].s8 = 1
                        /\ pu[p].spikeOn = FALSE
  BY <1>1 DEF Init, PrepQueued, Words
<1>3. OneTail /\ \A p \in PUs : Tails[p] = "none"
  BY DEF Init, OneTail, Tails, Rests, Threads
<1>4. /\ \A m \in net : m.handler = "boot_control" /\ m.to \in PUs
      /\ \A m \in net : \E p \in PUs : m = Hello(p) /\ (p = 1 => NumPU = 1)
      /\ \A p \in Others : Hello(p) \in net
  <2>1. CASE NumPU = 1
    <3>1. net = {Hello(1)} /\ Others = {}
      BY <2>1 DEF Init, Hello, Others, PUs
    <3>2. QED  BY <1>1, <2>1, <3>1, MsgIs DEF Hello
  <2>2. CASE NumPU # 1
    <3>1. net = {Hello(p) : p \in PUs \ {1}}
      BY <2>2 DEF Init, Hello
    <3>2. QED  BY <3>1, MsgIs DEF Hello, Others
  <2>3. QED  BY <2>1, <2>2
<1>5. Boots = net
  BY <1>4 DEF Boots, Of
<1>6. /\ Readies = {} /\ Works = {} /\ Reports = {} /\ Installs = {} /\ Idles = {}
      /\ Closings = {} /\ Finals = {} /\ Prepares = {} /\ Endings = {}
  BY <1>4 DEF Of, Readies, Works, Reports, Installs, Idles, Closings, Finals, Prepares, Endings
<1>7. Now = 0 /\ Waiting = PUs /\ Live = {} /\ Shut = {}
  BY <1>1, <1>2, <1>3 DEF Now, Waiting, Live, Shut, Aim
<1>8. Typing
  <2>1. \A p \in PUs : window[p] \in [1 .. Neurons[p] -> Nat]
    BY DEF Init
  <2>2. \A p \in PUs : pu[p].drained <= SubtreeSize(p)
    BY <1>1, <1>2
  <2>3. DOMAIN window = PUs /\ DOMAIN queue = PUs /\ drain \in Drains /\ halted = "no"
        /\ DOMAIN adding = PUs /\ \A p \in PUs : DOMAIN adding[p] = Threads
    BY DEF Init
  <2>4. QED  BY <1>2, <1>3, <1>4, <2>1, <2>2, <2>3 DEF Typing
<1>9. Cores
  <2>1. ASSUME NEW p \in PUs
        PROVE  Core(p)
    BY <1>1, <1>2, <1>3, <1>7 DEF Core, Reached, Init, PrepQueued, PrepDone, PrepRunning
  <2>2. QED  BY <1>6, <2>1 DEF Cores
<1>10. Booting
  <2>1. Joined = {}
    BY <1>4, <1>5 DEF Joined
  <2>2. Cardinality(Joined) = 0
    BY <2>1, FS_EmptySet
  <2>3. QED  BY <1>1, <1>2, <1>4, <1>5, <1>6, <1>7, <2>2 DEF Booting, Others
<1>11. Updating
  BY <1>6 DEF Updating
<1>12. ~AllUpdated
  <2>1. 1 \notin Updated /\ \A c \in StartChildren(1) : c \notin Reported
    BY <1>1, <1>7 DEF Updated, Reported, Others
  <2>2. QED  BY <1>1, <2>1, TallyNone DEF AllUpdated
<1>13. Reporting
  BY <1>6, <1>7 DEF Reporting
<1>14. Staged
  BY <1>6, <1>7, <1>12 DEF Staged, Init
<1>15. Draining
  <2>1. Reverse
    BY <1>3, <1>6, <1>7, <1>12 DEF Reverse, Gone
  <2>2. Tree
    BY <1>3, <1>6, <1>7 DEF Tree, Counting
  <2>3. QED  BY <2>1, <2>2 DEF Draining
<1>16. Preparing
  <2>1. ASSUME NEW p \in PUs
        PROVE  Cardinality(Tally(p, Ended, Told)) = 0
    <3>1. p \notin Ended
      BY <1>2 DEF Ended, PrepQueued, PrepDone
    <3>2. \A c \in StartChildren(p) : c \notin Told
      BY <1>1, <1>2 DEF Told, Others
    <3>3. QED  BY <3>1, <3>2, TallyNone
  <2>2. QED  BY <1>2, <1>6, <2>1 DEF Preparing
<1>17. Spiking
  <2>1. memory = {} /\ \A p \in PUs : Here(p) = {}
    BY DEF Init, Here, Threads
  <2>2. QED  BY <2>1 DEF Spiking
<1>18. QED
  BY <1>8, <1>9, <1>10, <1>11, <1>13, <1>14, <1>15, <1>16, <1>17 DEF Inv

----------------------------------------------------------------------------
(* The steps of the hardware *)

LEMMA SpikeInv ==
    ASSUME Inv, NEW p \in PUs, NEW t \in Threads, spike(p, t) \/ Added(p, t)
    PROVE  Inv'
<1> USE DEF Inv, Draining
<1>1. UNCHANGED <<net, pu, memory, notifier, tail, halted, printed, window, fires, drain>>
  BY DEF spike, Added, handlerVars
<1>0. /\ \A q \in PUs : Here(q)' \subseteq Here(q)
      /\ DOMAIN queue' = PUs /\ DOMAIN adding' = PUs /\ \A q \in PUs : DOMAIN adding'[q] = Threads
  <2>1. CASE spike(p, t)
    <3>1. PICK s \in queue[p] : /\ queue' = [queue EXCEPT ![p] = @ \ {s}]
                                /\ adding' = [adding EXCEPT ![p][t] = {s}]
      BY <2>1 DEF spike
    <3>2. /\ DOMAIN queue' = PUs /\ queue'[p] \subseteq queue[p]
          /\ \A q \in PUs : q # p => queue'[q] = queue[q]
      BY <3>1 DEF Typing
    <3>3. /\ DOMAIN adding' = PUs /\ \A q \in PUs : DOMAIN adding'[q] = Threads
          /\ \A q \in PUs : q # p => adding'[q] = adding[q]
          /\ \A u \in Threads : adding'[p][u] = IF u = t THEN {s} ELSE adding[p][u]
      BY <3>1 DEF Typing
    <3>4. QED  BY <3>2, <3>3 DEF Here, Threads
  <2>2. CASE Added(p, t)
    <3>1. queue' = queue /\ adding' = [adding EXCEPT ![p][t] = {}]
      BY <2>2 DEF Added
    <3>2. /\ DOMAIN adding' = PUs /\ \A q \in PUs : DOMAIN adding'[q] = Threads
          /\ \A q \in PUs : q # p => adding'[q] = adding[q]
          /\ \A u \in Threads : adding'[p][u] = IF u = t THEN {} ELSE adding[p][u]
      BY <3>1 DEF Typing
    <3>3. QED  BY <3>1, <3>2 DEF Here, Threads, Typing
  <2>3. QED  BY <2>1, <2>2
<1>2. Now' = Now /\ Waiting' = Waiting /\ Live' = Live /\ Shut' = Shut
  BY <1>1, Still
<1>3. /\ Boots' = Boots /\ Readies' = Readies /\ Works' = Works /\ Reports' = Reports
      /\ Installs' = Installs /\ Idles' = Idles /\ Closings' = Closings /\ Finals' = Finals
      /\ Prepares' = Prepares /\ Endings' = Endings
  BY <1>1 DEF Of, Boots, Readies, Works, Reports, Installs, Idles, Closings, Finals, Prepares, Endings
<1>4. Typing'
  BY <1>0, <1>1, TailsSame DEF Typing
<1>5. Cores' /\ Booting' /\ Updating' /\ Reporting'
  BY <1>1, <1>2, <1>3, CoresFrame, BootingFrame, UpdatingFrame, ReportingFrame
<1>6. Staged' /\ Draining'
  BY <1>1, <1>2, <1>3, ReportedFrame, StagedFrame, DrainingFrame
<1>7. Preparing'
  BY <1>1, <1>2, <1>3, PreparingFrame DEF Ended
<1>8. Spiking'
  BY <1>0, <1>1, <1>2, <1>3 DEF Spiking
<1>9. QED  BY <1>4, <1>5, <1>6, <1>7, <1>8

LEMMA NeuronOf ==
    \A n \in AllNeurons : n[1] \in PUs /\ n[2] \in 1 .. Neurons[n[1]]
  BY DEF AllNeurons

LEMMA NetSame ==
    ASSUME net' = net
    PROVE  /\ Boots' = Boots /\ Readies' = Readies /\ Works' = Works /\ Reports' = Reports
           /\ Installs' = Installs /\ Idles' = Idles /\ Closings' = Closings /\ Finals' = Finals
           /\ Prepares' = Prepares /\ Endings' = Endings
  BY DEF Of, Boots, Readies, Works, Reports, Installs, Idles, Closings, Finals, Prepares, Endings

LEMMA IdleApart ==
    \A c, d \in Members : IdleOf(c) = IdleOf(d) => c = d
<1>1. ASSUME NEW c \in Members, NEW d \in Members, IdleOf(c) = IdleOf(d)
      PROVE  c = d
  <2>1. Leader(c) = Leader(d)
    BY <1>1, MsgIs DEF IdleOf
  <2>2. QED  BY <2>1, Domains
<1>2. QED  BY <1>1

LEMMA DeliverInv ==
    ASSUME Inv, NEW s \in memory, Deliver(s)
    PROVE  Inv'
<1> USE DEF Inv, Draining
<1>1. /\ UNCHANGED <<net, pu, notifier, tail, halted, printed, window, fires, drain, adding>>
      /\ memory' = memory \ {s} /\ queue' = [queue EXCEPT ![s.to[1]] = @ \cup {s}]
  BY DEF Deliver
<1>2. Now' = Now /\ Waiting' = Waiting /\ Live' = Live /\ Shut' = Shut
  BY <1>1, Still
<1>3. /\ Boots' = Boots /\ Readies' = Readies /\ Works' = Works /\ Reports' = Reports
      /\ Installs' = Installs /\ Idles' = Idles /\ Closings' = Closings /\ Finals' = Finals
      /\ Prepares' = Prepares /\ Endings' = Endings
  BY <1>1, NetSame
<1>4. Typing'
  BY <1>1, TailsSame DEF Typing
<1>5. Cores' /\ Booting' /\ Updating' /\ Reporting'
  BY <1>1, <1>2, <1>3, CoresFrame, BootingFrame, UpdatingFrame, ReportingFrame
<1>6. Staged' /\ Draining'
  BY <1>1, <1>2, <1>3, ReportedFrame, StagedFrame, DrainingFrame
<1>7. Preparing'
  BY <1>1, <1>2, <1>3, PreparingFrame DEF Ended
<1>8. Spiking'
  <2>1. s \in Spike /\ s.step = Now /\ Leader(Domain(s.to[1])) \notin Shut
    BY DEF Spiking
  <2>2. s.to[1] \in PUs
    BY <2>1, NeuronOf DEF Spike
  <2>3. s.to[1] \notin Shut
    BY <2>1 DEF Staged
  <2>4. \A p \in PUs : queue'[p] = IF p = s.to[1] THEN queue[p] \cup {s} ELSE queue[p]
    BY <1>1, <2>2 DEF Typing
  <2>5. \A p \in PUs : Here(p)' \subseteq (Here(p) \cup IF p = s.to[1] THEN {s} ELSE {})
    BY <1>1, <2>4 DEF Here
  <2>6. QED  BY <1>1, <1>2, <1>3, <2>1, <2>3, <2>5 DEF Spiking
<1>9. QED  BY <1>4, <1>5, <1>6, <1>7, <1>8

LEMMA NotifyInv ==
    ASSUME Inv, NEW d \in notifier, Notify(d)
    PROVE  Inv'
<1> USE DEF Inv, Draining
<1>1. /\ UNCHANGED <<pu, memory, tail, halted, printed, window, fires, drain, queue, adding>>
      /\ notifier' = notifier \ {d} /\ net' = net \cup {IdleOf(d)}
      /\ \A s \in memory : Domain(s.to[1]) # d
  BY DEF Notify, IdleOf, Reply
<1>2. Now' = Now /\ Waiting' = Waiting /\ Live' = Live /\ Shut' = Shut
  BY <1>1, Still
<1>3. /\ Boots' = Boots /\ Readies' = Readies /\ Works' = Works /\ Reports' = Reports
      /\ Installs' = Installs /\ Idles' = Idles \cup {IdleOf(d)} /\ Closings' = Closings
      /\ Finals' = Finals /\ Prepares' = Prepares /\ Endings' = Endings
  <2>1. IdleOf(d).handler = "termination_idle"
    BY MsgIs DEF IdleOf
  <2>2. QED  BY <1>1, <2>1 DEF Of, Boots, Readies, Works, Reports, Installs, Idles, Closings, Finals,
          Prepares, Endings
<1>4. d \in Members /\ Leader(d) \in PUs
  BY Domains DEF Staged
<1>5. Typing'
  <2>1. IdleOf(d).to \in PUs
    BY <1>4, MsgIs DEF IdleOf
  <2>2. QED  BY <1>1, <2>1, TailsSame DEF Typing
<1>6. Cores' /\ Booting' /\ Updating' /\ Reporting'
  BY <1>1, <1>2, <1>3, CoresFrame, BootingFrame, UpdatingFrame, ReportingFrame
<1>7. AllUpdated' <=> AllUpdated
  BY <1>1, <1>2, <1>3, ReportedFrame
<1>8. AllUpdated
  BY DEF Staged
<1>9. Staged'
  BY <1>1, <1>2, <1>3, <1>4, <1>7, <1>8, IdleApart DEF Staged
<1>10. Draining'
  BY <1>1, <1>2, <1>3, <1>7, DrainingFrame
<1>11. Preparing'
  BY <1>1, <1>2, <1>3, PreparingFrame DEF Ended
<1>12. Spiking'
  <2>1. \A s \in memory : Domain(s.to[1]) \in Members
    BY Domains, NeuronOf DEF Spiking, Spike
  <2>2. QED  BY <1>1, <1>2, <1>3, <1>4, <2>1, IdleApart DEF Spiking, Here
<1>13. QED  BY <1>5, <1>6, <1>9, <1>10, <1>11, <1>12

----------------------------------------------------------------------------
(* The start of a step *)

\* When all cores are known to be updated none waits and no update or report
\* is under way.
LEMMA Quiet ==
    ASSUME Updating, Reporting, AllUpdated
    PROVE  Waiting = {} /\ Works = {} /\ Reports = {} /\ Updated = PUs /\ Reported = Others
<1>1. \A c \in Others : c \in Reported => Cardinality(Tally(c, Updated, Reported)) = SubtreeSize(c)
  BY DEF Reporting, Reported, Others
<1>2. \A p \in PUs : p \in Updated /\ (p # 1 => p \in Reported)
  BY <1>1, AllCounted DEF AllUpdated
<1>3. Waiting = {} /\ Updated = PUs /\ Reported = Others
  BY <1>2 DEF Updated, Waiting, Others, Reported
<1>4. ASSUME NEW m \in Works
      PROVE  FALSE
  <2>1. PICK p \in Live : \E i \in 1 .. Neurons[p] + 1 : m = Work(p, i)
    BY DEF Updating
  <2>2. p \in PUs /\ m.to = p
    BY <2>1, WorkIs DEF Live
  <2>3. QED  BY <1>2, <2>2 DEF Updated, Working
<1>5. Reports = {}
  BY <1>2 DEF Reporting, Reported, Others
<1>6. QED  BY <1>3, <1>4, <1>5

LEMMA SpikesAre ==
    ASSUME NEW n, NEW s \in 0 .. Steps - 1
    PROVE  \A x \in Spikes(n, s) : x \in Spike /\ x.step = s
  BY SnnAssumption DEF Spikes, Spike

\* What the start of step s does to core m.to, whose words become r.
Started(m, s, r) ==
    /\ pu' = [pu EXCEPT ![m.to] = r]
    /\ r.counter = 0 /\ r.drained = 0 /\ r.prepared = 0 /\ r.step = s /\ r.spikeOn = TRUE
    /\ r.prep = <<s, PrepDone>> /\ r.s8 = Neurons[m.to] + 1
    /\ \A x : x \in net' <=> \/ x \in net /\ x # m
                             \/ \E c \in StartChildren(m.to) : x = Token(c, s)
                             \/ x = Work(m.to, 2)
    /\ \A x \in memory' : x \in memory \/ (x \in Spike /\ x.step = s)
    /\ UNCHANGED <<notifier, halted, tail>>
    /\ DOMAIN window' = PUs /\ window'[m.to] \in [1 .. Neurons[m.to] -> Nat]
    /\ \A q \in PUs : q # m.to => window'[q] = window[q]
    /\ \A i \in 1 .. Neurons[m.to] : window'[m.to][i] =
           IF i < Reached(pu[m.to]) THEN window[m.to][i] ELSE window[m.to][i] + 1

LEMMA StartEffect ==
    ASSUME Proper, Typing, NEW m \in net, NEW s \in 0 .. Steps - 1, NEW fired, Start(m, s, fired)
    PROVE  \E r \in Words : Started(m, s, r)
<1> DEFINE p == m.to
<1>1. p \in PUs /\ Neurons[p] \in Nat /\ 1 <= Neurons[p] /\ ~(1 > Neurons[p]) /\ pu[p].s8 \in Nat
  <2>1. p \in PUs
    BY DEF Typing
  <2>2. Neurons[p] \in Nat /\ Neurons[p] > 0
    BY <2>1, Basics DEF Proper
  <2>3. pu[p].s8 \in Nat
    BY <2>1 DEF Typing, Words
  <2>4. QED  BY <2>1, <2>2, <2>3
<1>2. {Msg("boot_control", p, c, <<s + 1>>) : c \in StartChildren(p)} = {Token(c, s) : c \in StartChildren(p)}
  BY <1>1, Children DEF Token
<1>3. PICK fire \in {0, 1} :
        /\ pu' = [pu EXCEPT ![p] = [[counter |-> 0, fired |-> 0, drained |-> 0, prepared |-> 0, step |-> s,
                   prep |-> <<s, PrepDone>>, s8 |-> Neurons[p] + 1, spikeOn |-> TRUE] EXCEPT !.fired = @ + fire]]
        /\ net' = (net \ {m}) \cup ({Token(c, s) : c \in StartChildren(p)} \cup {Work(p, 2)})
        /\ memory' = memory \cup (IF fire = 1 THEN Spikes(<<p, 1>>, s) ELSE {})
        /\ UNCHANGED <<notifier, halted>>
  <2>1. PICK r0, sent : /\ r0 = [counter |-> 0, fired |-> 0, drained |-> 0, prepared |-> 0, step |-> s,
                                  prep |-> <<s, PrepDone>>, s8 |-> Neurons[p] + 1, spikeOn |-> TRUE]
                        /\ sent = {Msg("boot_control", p, c, <<s + 1>>) : c \in StartChildren(p)}
    OBVIOUS
  <2>2. Update(m, r0, 1, sent, fired)
    BY <2>1 DEF Start, CounterReset
  <2>3. r0.step = s
    BY <2>1
  <2>4. PICK fire \in {0, 1} :
           /\ Becomes(m, [r0 EXCEPT !.fired = @ + fire], sent \cup {Msg("work_update", p, p, <<1 + 1>>)})
           /\ memory' = memory \cup (IF fire = 1 THEN Spikes(<<p, 1>>, r0.step) ELSE {})
           /\ UNCHANGED <<notifier, halted>>
    BY <1>1, <2>2 DEF Update
  <2>5. net' = (net \ {m}) \cup ({Token(c, s) : c \in StartChildren(p)} \cup {Work(p, 2)})
    BY <1>2, <2>1, <2>4 DEF Becomes, Work
  <2>6. pu' = [pu EXCEPT ![p] = [r0 EXCEPT !.fired = @ + fire]]
    BY <2>4 DEF Becomes
  <2>7. QED  BY <2>1, <2>3, <2>4, <2>5, <2>6
<1>4. PICK r : r = [[counter |-> 0, fired |-> 0, drained |-> 0, prepared |-> 0, step |-> s,
                     prep |-> <<s, PrepDone>>, s8 |-> Neurons[p] + 1, spikeOn |-> TRUE] EXCEPT !.fired = @ + fire]
  OBVIOUS
<1>5. r \in Words
  <2>1. 0 \in 0 .. NumPU /\ s \in 0 .. Steps - 1 /\ s \in 0 .. Steps /\ Neurons[p] + 1 \in Nat /\ 0 \in 0 .. 2
    BY <1>1, Basics
  <2>2. PICK r0 : r0 = [counter |-> 0, fired |-> 0, drained |-> 0, prepared |-> 0, step |-> s,
                        prep |-> <<s, PrepDone>>, s8 |-> Neurons[p] + 1, spikeOn |-> TRUE]
    OBVIOUS
  <2>3. r0 \in Words /\ r0.fired + fire \in Nat
    BY <2>1, <2>2 DEF Words, PrepDone
  <2>4. r = [r0 EXCEPT !.fired = r0.fired + fire]
    BY <1>4, <2>2
  <2>5. QED  BY <2>3, <2>4 DEF Words
<1>6. /\ r.counter = 0 /\ r.drained = 0 /\ r.prepared = 0 /\ r.step = s /\ r.spikeOn = TRUE
      /\ r.prep = <<s, PrepDone>> /\ r.s8 = Neurons[p] + 1
  BY <1>4
<1>7. \A x \in memory' : x \in memory \/ (x \in Spike /\ x.step = s)
  BY <1>3, SpikesAre
<1>8. tail' = tail
  BY DEF Start
<1>9. /\ window' = [window EXCEPT ![p] =
             [i \in 1 .. Neurons[p] |-> IF i >= Reached(pu[p]) THEN window[p][i] + 1 ELSE window[p][i]]]
      /\ DOMAIN window = PUs /\ window[p] \in [1 .. Neurons[p] -> Nat]
  BY <1>1 DEF Start, Reached, BootFrom, Typing
<1>10. Reached(pu[p]) \in Nat
  BY <1>1 DEF Reached
<1>11. /\ DOMAIN window' = PUs /\ window'[p] \in [1 .. Neurons[p] -> Nat]
       /\ \A q \in PUs : q # p => window'[q] = window[q]
       /\ \A i \in 1 .. Neurons[p] :
             window'[p][i] = IF i < Reached(pu[p]) THEN window[p][i] ELSE window[p][i] + 1
  BY <1>1, <1>9, <1>10
<1>12. pu' = [pu EXCEPT ![p] = r]
  BY <1>3, <1>4
<1>13. \A x : x \in net' <=> \/ x \in net /\ x # m
                             \/ \E c \in StartChildren(p) : x = Token(c, s)
                             \/ x = Work(p, 2)
  BY <1>3
<1>14. QED  BY <1>3, <1>5, <1>6, <1>7, <1>8, <1>11, <1>12, <1>13 DEF Started

\* PU1 starts step s when all other cores are ready for it and nothing is
\* under way but preparations.
LEMMA StartRoot ==
    ASSUME Proper, Typing, Cores, NEW m \in net, NEW s \in 0 .. Steps - 1, NEW fired,
           m.to = 1, Start(m, s, fired), UNCHANGED <<drain, queue, adding>>,
           \A p \in PUs : Aim(p) = s /\ Tails[p] # "count" /\ pu[p].prepared = 0, Tails[1] = "none",
           \A p \in PUs : p # 1 => ~pu[p].spikeOn,
           m \notin Prepares, Boots \cup Readies \cup Finals \subseteq {m}, Works = {}, Reports = {},
           Installs = {}, Idles = {}, Closings = {}, Endings = {}, notifier = {}, \A x \in memory : x \in Spike /\ x.step = s,
           \A p \in PUs : \A x \in Here(p) : x \in Spike /\ x.step = s /\ x.to[1] = p
    PROVE  Inv'
<1>0. PICK r \in Words : Started(m, s, r)
  BY StartEffect
<1>1. /\ pu' = [pu EXCEPT ![1] = r]
      /\ r.counter = 0 /\ r.drained = 0 /\ r.prepared = 0 /\ r.step = s /\ r.spikeOn = TRUE
      /\ r.prep = <<s, PrepDone>> /\ r.s8 = Neurons[1] + 1
      /\ \A x : x \in net' <=> \/ x \in net /\ x # m
                               \/ \E c \in StartChildren(1) : x = Token(c, s)
                               \/ x = Work(1, 2)
      /\ \A x \in memory' : x \in memory \/ (x \in Spike /\ x.step = s)
      /\ UNCHANGED <<notifier, halted, tail>>
      /\ DOMAIN window' = PUs /\ window'[1] \in [1 .. Neurons[1] -> Nat]
      /\ \A q \in PUs : q # 1 => window'[q] = window[q]
      /\ \A i \in 1 .. Neurons[1] :
            window'[1][i] = IF i < Reached(pu[1]) THEN window[1][i] ELSE window[1][i] + 1
  BY <1>0 DEF Started
<1>2. 1 \in PUs /\ Neurons[1] \in Nat /\ Neurons[1] > 0 /\ NumPU \in Nat \ {0} /\ SubtreeSize(1) = NumPU
  BY Basics DEF Proper
<1>3. pu'[1] = r /\ \A q \in PUs : q # 1 => pu'[q] = pu[q]
  BY <1>1, <1>2 DEF Typing
<1>3a. /\ Tails' = Tails /\ OneTail' /\ pu[1].prep[1] = s
       /\ \A q \in PUs : q # 1 => Aim(q)' = s
  BY <1>1, <1>2, <1>3, TailsSame DEF Typing, Aim
<1>4. Now' = s /\ Live' = {1} /\ Waiting' = Others /\ Shut' = {}
  BY <1>3a, <1>1, <1>2, <1>3 DEF Now, Live, Waiting, Shut, Others
<1>5. /\ \A x \in Boots' : \E c \in StartChildren(1) : x = Token(c, s)
      /\ Works' = {Work(1, 2)} /\ Prepares' = Prepares
      /\ Readies' = {} /\ Reports' = {} /\ Installs' = {} /\ Idles' = {}
      /\ Closings' = {} /\ Finals' = {} /\ Endings' = {}
  <2>1. \A x : x \in net' <=> \/ x \in net /\ x # m
                              \/ \E c \in StartChildren(1) : x = Token(c, s)
                              \/ x = Work(1, 2)
    BY <1>1
  <2>2. /\ \A c : Token(c, s).handler = "boot_control"
        /\ Work(1, 2).handler = "work_update"
    BY BootIs, WorkIs
  <2>3. QED  BY <2>1, <2>2 DEF Of, Boots, Readies, Works, Reports, Installs, Idles, Closings, Finals,
          Prepares, Endings
<1>6. Typing'
  <2>1. \A x \in net' : x.to \in PUs
    <3>1. \A c \in StartChildren(1) : Token(c, s).to \in PUs
      BY <1>2, Children, BootIs DEF Others
    <3>2. Work(1, 2).to = 1
      BY WorkIs
    <3>3. QED  BY <1>1, <1>2, <3>1, <3>2 DEF Typing
  <2>2. \A p \in PUs : window'[p] \in [1 .. Neurons[p] -> Nat] /\ pu'[p].drained <= SubtreeSize(p)
    BY <1>1, <1>2, <1>3 DEF Typing
  <2>3. pu' \in [PUs -> Words] /\ DOMAIN queue' = PUs
    BY <1>1, <1>2 DEF Typing
  <2>4. QED  BY <1>3a, <1>1, <2>1, <2>2, <2>3 DEF Typing
<1>7. Cores'
  <2>1. Core(1)'
    <3>1. \A i \in 1 .. Neurons[1] : window'[1][i] = s + 1
      BY <1>3a, <1>1, <1>2 DEF Cores, Core, Reached
    <3>2. Reached(r) = Neurons[1] + 1
      BY <1>1 DEF Reached, PrepDone, PrepQueued
    <3>3. QED  BY <1>3a, <1>1, <1>2, <1>3, <1>4, <3>1, <3>2 DEF Core, PrepDone, PrepRunning
  <2>2. ASSUME NEW p \in PUs, p # 1
        PROVE  Core(p)'
    <3>1. pu'[p] = pu[p] /\ window'[p] = window[p] /\ p \notin Live' /\ p \notin Shut'
      BY <1>1, <1>3, <1>4, <2>2
    <3>2. QED  BY <1>3a, <3>1 DEF Cores, Core
  <2>3. QED  BY <1>5, <2>1, <2>2 DEF Cores
<1>8. Booting'
  <2>1. \A c \in StartChildren(1) : c \in Others /\ Parent(c) = 1
    BY <1>2, Children
  <2>2. QED  BY <1>4, <1>5, <2>1 DEF Booting, Others
<1>9. Updating'
  <2>1. 2 \in 1 .. Neurons[1] + 1
    BY <1>2
  <2>2. QED  BY <1>4, <1>5, <2>1 DEF Updating
<1>10. 1 \notin Updated' /\ Reported' = {}
  <2>1. Work(1, 2).to = 1
    BY WorkIs
  <2>2. QED  BY <1>2, <1>4, <1>5, <2>1 DEF Updated, Working, Reported
<1>11. Cardinality(Tally(1, Updated', Reported')) = 0
  BY <1>2, <1>10, TallyNone
<1>12. ~AllUpdated'
  BY <1>2, <1>11 DEF AllUpdated
<1>13. Reporting'
  BY <1>1, <1>3, <1>4, <1>5, <1>11 DEF Reporting, Others
<1>14. Staged'
  BY <1>1, <1>4, <1>5, <1>12 DEF Staged
<1>15. Draining'
  <2>1. Gone' = {} /\ Counting' = {} /\ \A p \in PUs : Tails'[p] # "count"
    BY <1>3a, <1>1, <1>4 DEF Gone, Counting
  <2>2. Reverse'
    BY <1>4, <1>5, <1>12, <2>1 DEF Reverse
  <2>3. Drained' = {}
    BY <1>4 DEF Drained
  <2>4. Cardinality(Tally(1, Shut' \ Counting', Drained')) = 0
    BY <1>2, <1>4, <2>3, TallyNone
  <2>5. Tree'
    BY <1>1, <1>3, <1>4, <1>5, <2>1, <2>4 DEF Tree, Others
  <2>6. QED  BY <2>2, <2>5 DEF Draining
<1>16. Preparing'
  <2>1. \A p \in PUs : pu'[p].prepared = 0
    BY <1>1, <1>3
  <2>2. Ended' = {}
    <3>1. \A p \in PUs : pu'[p].prep[1] \in {s, s - 1}
      <4>1. \A p \in PUs : pu[p].prep[1] \in Int
        BY DEF Typing, Words
      <4>2. \A p \in PUs : pu[p].prep[1] \in {s, s - 1}
        BY <4>1 DEF Aim
      <4>3. QED  BY <1>1, <1>3, <4>2
    <3>2. s # Steps /\ s - 1 # Steps
      BY Basics
    <3>3. QED  BY <3>1, <3>2 DEF Ended
  <2>3. Told' = {}
    BY <2>1, Basics DEF Told, Others
  <2>4. \A p \in PUs : Cardinality(Tally(p, Ended', Told')) = 0
    BY <2>2, <2>3, TallyNone
  <2>5. QED  BY <1>5, <2>1, <2>4 DEF Preparing
<1>17. Spiking'
  <2>1. \A p \in PUs : Here(p)' = Here(p)
    BY DEF Here
  <2>2. QED  BY <1>1, <1>4, <1>5, <2>1 DEF Spiking
<1>18. QED
  BY <1>6, <1>7, <1>8, <1>9, <1>13, <1>14, <1>15, <1>16, <1>17 DEF Inv

\* Another core starts the step with the token of its parent.
LEMMA StartOther ==
    ASSUME Proper, Inv, NEW c \in Others, NEW m \in Boots, m = Token(c, Now),
           c \in Waiting, Parent(c) \notin Waiting, NEW fired,
           Start(m, Now, fired), UNCHANGED <<drain, queue, adding>>, Tails[c] = "none"
    PROVE  Inv'
<1> USE DEF Inv
<1>1. /\ m.to = c /\ m.handler = "boot_control" /\ m \in net
      /\ Now \in 0 .. Steps - 1 /\ c \in PUs /\ c # 1 /\ 1 \in PUs
  <2>1. m.to = c /\ m.handler = "boot_control" /\ m \in net
    BY BootIs DEF Boots, Of
  <2>2. Now \in 0 .. Steps - 1
    BY Basics DEF Now, Typing, Words
  <2>3. QED  BY <2>1, <2>2, Basics DEF Others
<1>0. PICK r \in Words : Started(m, Now, r)
  BY <1>1, StartEffect
<1>2. /\ pu' = [pu EXCEPT ![c] = r]
      /\ r.counter = 0 /\ r.drained = 0 /\ r.prepared = 0 /\ r.step = Now /\ r.spikeOn = TRUE
      /\ r.prep = <<Now, PrepDone>> /\ r.s8 = Neurons[c] + 1
      /\ \A x : x \in net' <=> \/ x \in net /\ x # m
                               \/ \E d \in StartChildren(c) : x = Token(d, Now)
                               \/ x = Work(c, 2)
      /\ \A x \in memory' : x \in memory \/ (x \in Spike /\ x.step = Now)
      /\ UNCHANGED <<notifier, halted, tail>>
      /\ DOMAIN window' = PUs /\ window'[c] \in [1 .. Neurons[c] -> Nat]
      /\ \A q \in PUs : q # c => window'[q] = window[q]
      /\ \A i \in 1 .. Neurons[c] :
            window'[c][i] = IF i < Reached(pu[c]) THEN window[c][i] ELSE window[c][i] + 1
  BY <1>0, <1>1 DEF Started
<1>3. pu'[c] = r /\ \A q \in PUs : q # c => pu'[q] = pu[q]
  BY <1>1, <1>2 DEF Typing
<1>4. Now' = Now
  BY <1>1, <1>3 DEF Now
<1>5. pu[c].prep[1] = Now /\ ~pu[c].spikeOn /\ Tails' = Tails /\ OneTail'
  BY <1>2, TailsSame DEF Waiting, Aim, Typing
<1>6. Live' = Live \cup {c} /\ Waiting' = Waiting \ {c} /\ Shut' = Shut
  <2>1. Live' = Live \cup {c}
    BY <1>1, <1>2, <1>3 DEF Live
  <2>2. Waiting' = Waiting \ {c}
    BY <1>2, <1>3, <1>4, <1>5 DEF Waiting, Aim
  <2>3. QED  BY <2>1, <2>2 DEF Shut
<1>7. 1 \notin Waiting /\ Readies = {}
  <2>1. Parent(c) \in PUs
    BY ParentOf
  <2>2. QED  BY <2>1 DEF Booting
<1>8. ~AllUpdated
  BY Quiet
<1>9. /\ notifier = {} /\ Shut = {} /\ Idles = {} /\ Closings = {} /\ Finals = {}
  BY <1>8 DEF Staged
<1>10. /\ \A x : x \in Boots' <=> (x \in Boots /\ x # m) \/ \E d \in StartChildren(c) : x = Token(d, Now)
       /\ Works' = Works \cup {Work(c, 2)}
       /\ Readies' = Readies /\ Reports' = Reports /\ Installs' = Installs /\ Idles' = Idles
       /\ Closings' = Closings /\ Finals' = Finals /\ Prepares' = Prepares /\ Endings' = Endings
  <2>1. \A x : x \in net' <=> \/ x \in net /\ x # m
                              \/ \E d \in StartChildren(c) : x = Token(d, Now)
                              \/ x = Work(c, 2)
    BY <1>2
  <2>2. /\ \A d : Token(d, Now).handler = "boot_control"
        /\ Work(c, 2).handler = "work_update"
    BY BootIs, WorkIs
  <2>3. QED  BY <1>1, <2>1, <2>2 DEF Of, Boots, Readies, Works, Reports, Installs, Idles, Closings, Finals,
          Prepares, Endings
<1>11. \A d \in StartChildren(c) : d \in Others /\ Parent(d) = c /\ d \in Waiting /\ d # c
  <2>1. \A d \in StartChildren(c) : d \in Others /\ Parent(d) = c
    BY <1>1, Children
  <2>2. QED  BY <2>1 DEF Booting
<1>12. Typing'
  <2>1. \A x \in net' : x.to \in PUs
    <3>1. \A d \in StartChildren(c) : Token(d, Now).to \in PUs
      BY <1>11, BootIs DEF Others
    <3>2. Work(c, 2).to = c
      BY WorkIs
    <3>3. QED  BY <1>1, <1>2, <3>1, <3>2 DEF Typing
  <2>2. \A p \in PUs : window'[p] \in [1 .. Neurons[p] -> Nat] /\ pu'[p].drained <= SubtreeSize(p)
    BY <1>1, <1>2, <1>3, Basics DEF Typing
  <2>3. pu' \in [PUs -> Words] /\ DOMAIN queue' = PUs
    BY <1>1, <1>2 DEF Typing
  <2>4. QED  BY <1>2, <1>5, <2>1, <2>2, <2>3 DEF Typing
<1>13. Cores'
  <2>1. Core(c)'
    <3>1. \A i \in 1 .. Neurons[c] : window'[c][i] = Now + 1
      BY <1>1, <1>2, <1>5 DEF Cores, Core, Reached
    <3>2. Reached(r) = Neurons[c] + 1
      BY <1>2 DEF Reached, PrepDone, PrepQueued
    <3>3. Neurons[c] \in Nat
      BY <1>1, Basics
    <3>4. QED  BY <1>1, <1>2, <1>3, <1>4, <1>5, <1>6, <1>9, <3>1, <3>2, <3>3 DEF Core, PrepDone, PrepRunning
  <2>2. ASSUME NEW p \in PUs, p # c
        PROVE  Core(p)'
    <3>1. /\ pu'[p] = pu[p] /\ window'[p] = window[p] /\ Tails' = Tails
          /\ p \in Live' <=> p \in Live
          /\ p \notin Shut'
      BY <1>2, <1>3, <1>5, <1>6, <1>9, <2>2
    <3>2. QED  BY <1>4, <3>1 DEF Cores, Core
  <2>3. QED  BY <1>10, <2>1, <2>2 DEF Cores
<1>14. Booting'
  <2>1. \A x \in Boots' : \E d \in Others :
            x = Token(d, Now') /\ d \in Waiting' /\ Parent(d) \notin Waiting'
    <3>1. ASSUME NEW x \in Boots, x # m
          PROVE  \E d \in Others : x = Token(d, Now') /\ d \in Waiting' /\ Parent(d) \notin Waiting'
      BY <1>4, <1>6, <1>7, <3>1 DEF Booting
    <3>2. ASSUME NEW d \in StartChildren(c)
          PROVE  d \in Others /\ d \in Waiting' /\ Parent(d) \notin Waiting'
      BY <1>6, <1>11
    <3>3. QED  BY <1>4, <1>10, <3>1, <3>2
  <2>2. \A d \in Others : Parent(d) \in Waiting' => d \in Waiting'
    BY <1>6 DEF Booting
  <2>3. 1 \notin Waiting' /\ Readies' = {}
    BY <1>6, <1>7, <1>10
  <2>4. QED  BY <2>1, <2>2, <2>3 DEF Booting
<1>15. Updating'
  <2>1. 2 \in 1 .. Neurons[c] + 1
    BY <1>1, Basics DEF Proper
  <2>2. Work(c, 2).to = c
    BY WorkIs
  <2>3. \A x \in Works : x.to # c
    BY <1>5, WorkIs DEF Updating, Live
  <2>4. QED  BY <1>1, <1>6, <1>10, <2>1, <2>2, <2>3 DEF Updating
<1>16. Updated' = Updated
  <2>1. Work(c, 2).to = c
    BY WorkIs
  <2>2. Working' = Working \cup {c}
    BY <1>1, <1>10, <2>1 DEF Working
  <2>3. QED  BY <1>6, <2>2 DEF Updated
<1>17. Reported' = Reported
  <2>1. SubtreeSize(c) # 0
    BY <1>1, Basics
  <2>2. QED  BY <1>2, <1>3, <1>6, <1>10, <2>1 DEF Reported, Others
<1>18. AllUpdated' <=> AllUpdated
  BY <1>16, <1>17 DEF AllUpdated
<1>19. Reporting'
  <2>1. \A x \in Reports' : \E d \in Others :
            x = Report(d) /\ d \notin Waiting' /\ pu'[d].counter = SubtreeSize(d)
    BY <1>3, <1>6, <1>10 DEF Reporting, Others
  <2>2. Cardinality(Tally(c, Updated', Reported')) = 0
    <3>1. c \notin Updated' /\ \A d \in StartChildren(c) : d \notin Reported'
      BY <1>11, <1>16, <1>17 DEF Updated, Reported
    <3>2. QED  BY <1>1, <3>1, TallyNone
  <2>3. \A p \in PUs : p \notin Waiting' =>
            pu'[p].counter = Cardinality(Tally(p, Updated', Reported'))
    BY <1>2, <1>3, <1>6, <1>8, <1>16, <1>17, <2>2 DEF Reporting
  <2>4. QED  BY <2>1, <2>3 DEF Reporting
<1>20. Staged'
  BY <1>2, <1>6, <1>8, <1>9, <1>10, <1>18 DEF Staged
<1>21. Draining'
  <2>1. Gone' = {} /\ Counting' = Counting
    BY <1>2, <1>5, <1>6, <1>9 DEF Gone, Counting
  <2>2. Reverse => Reverse'
    BY <1>2, <1>5, <1>6, <1>8, <1>9, <1>10, <1>18, <2>1 DEF Reverse
  <2>3. Drained' = Drained
    <3>1. SubtreeSize(c) # 0
      BY <1>1, Basics
    <3>2. QED  BY <1>2, <1>3, <1>6, <1>10, <3>1 DEF Drained, Others
  <2>4. Cardinality(Tally(c, Shut' \ Counting', Drained')) = 0
    <3>1. \A d \in StartChildren(c) : d \notin Drained'
      BY <1>11, <2>3 DEF Drained
    <3>2. QED  BY <1>1, <1>6, <1>9, <3>1, TallyNone
  <2>5. ASSUME Tree
        PROVE  Tree'
    <3>1. \A p \in PUs : p \notin Waiting' =>
              pu'[p].drained = Cardinality(Tally(p, Shut' \ Counting', Drained'))
      BY <1>2, <1>3, <1>6, <2>1, <2>3, <2>4, <2>5 DEF Tree
    <3>2. Counting' \subseteq Shut'
      BY <1>6, <2>1, <2>5 DEF Tree
    <3>3. QED  BY <1>6, <1>9, <1>10, <3>1, <3>2 DEF Tree
  <2>6. QED  BY <2>2, <2>5 DEF Draining
<1>22. Preparing'
  <2>1. Ended' = Ended
    <3>1. Now # Steps
      BY <1>1, Basics
    <3>2. QED  BY <1>2, <1>3, <1>5, <3>1 DEF Ended
  <2>2. \A p \in PUs : pu'[p].prepared = pu[p].prepared
    BY <1>2, <1>3 DEF Preparing
  <2>3. Waiting' \subseteq Waiting
    BY <1>6
  <2>4. QED  BY <1>4, <1>10, <2>1, <2>2, <2>3, PreparingFrame
<1>23. Spiking'
  <2>1. \A p \in PUs : Here(p)' = Here(p)
    BY DEF Here
  <2>2. QED  BY <1>2, <1>4, <1>6, <1>9, <1>10, <2>1 DEF Spiking
<1>24. QED
  BY <1>12, <1>13, <1>14, <1>15, <1>19, <1>20, <1>21, <1>22, <1>23

----------------------------------------------------------------------------
(* Booting *)

LEMMA CoreSets ==
    /\ IsFiniteSet(PUs) /\ Cardinality(PUs) = NumPU
    /\ IsFiniteSet(Others) /\ Cardinality(Others) = NumPU - 1
<1>1. NumPU \in Nat \ {0} /\ 1 \in PUs
  BY Basics
<1>2. IsFiniteSet(PUs) /\ Cardinality(PUs) = NumPU
  <2>1. ~ (1 > NumPU)
    BY <1>1
  <2>2. IsFiniteSet(1 .. NumPU) /\ Cardinality(1 .. NumPU) = NumPU - 1 + 1
    BY <1>1, <2>1, FS_Interval
  <2>3. QED  BY <1>1, <2>2 DEF PUs
<1>3. IsFiniteSet(PUs \ {1}) /\ Cardinality(PUs \ {1}) = Cardinality(PUs) - 1
  BY <1>1, <1>2, FS_RemoveElement
<1>4. QED  BY <1>2, <1>3 DEF Others

\* A core answers the prewarm event.
LEMMA HelloInv ==
    ASSUME Inv, NEW m \in Boots, m.args[1] = 0, m.to # 1,
           Becomes(m, pu[m.to], {Msg("boot_ready", m.to, 1, <<>>)}),
           UNCHANGED <<memory, notifier, tail, halted, printed, window, fires, drain, queue, adding>>
    PROVE  Inv'
<1> USE DEF Inv
<1>1. PICK p \in Others : m = Hello(p) /\ 1 \in Waiting /\ p \in PUs
  <2>1. Now + 1 # 0
    BY Basics DEF Now, Typing, Words
  <2>2. QED  BY <2>1, BootIs DEF Booting, Others
<1>2. pu' = pu /\ net' = (net \ {m}) \cup {Ready(p)}
  BY <1>1, BootIs DEF Becomes, Ready, Typing
<1>3. Now' = Now /\ Waiting' = Waiting /\ Live' = Live /\ Shut' = Shut
  BY <1>2, Still
<1>4. /\ Boots' = Boots \ {m} /\ Readies' = Readies \cup {Ready(p)}
      /\ Works' = Works /\ Reports' = Reports /\ Installs' = Installs /\ Idles' = Idles
      /\ Closings' = Closings /\ Finals' = Finals /\ Prepares' = Prepares /\ Endings' = Endings
  BY <1>1, <1>2, BootIs DEF Of, Boots, Readies, Works, Reports, Installs, Idles, Closings, Finals,
     Prepares, Endings
<1>5. Typing'
  BY <1>1, <1>2, BootIs, Basics, TailsSame DEF Typing
<1>6. Cores' /\ Updating' /\ Reporting'
  BY <1>2, <1>3, <1>4, CoresFrame, UpdatingFrame, ReportingFrame
<1>7. Booting'
  <2>1. \A q \in Others : Hello(q) = m <=> q = p
    BY <1>1, BootIs
  <2>2. \A q \in Others : Ready(q) = Ready(p) <=> q = p
    BY BootIs
  <2>3. Joined' = Joined
    BY <1>1, <1>4, <2>1, <2>2 DEF Joined
  <2>4. \A q \in Others : ~ (Hello(q) \in Boots' /\ Ready(q) \in Readies')
    BY <1>1, <1>4, <2>1, <2>2 DEF Booting
  <2>5. QED  BY <1>1, <1>2, <1>3, <1>4, <2>3, <2>4 DEF Booting
<1>8. AllUpdated' <=> AllUpdated
  BY <1>2, <1>3, <1>4, ReportedFrame
<1>9. Staged' /\ Draining'
  BY <1>2, <1>3, <1>4, <1>8, StagedFrame, DrainingFrame
<1>10. Preparing' /\ Spiking'
  BY <1>2, <1>3, <1>4, PreparingFrame, SpikingFrame DEF Ended
<1>11. QED  BY <1>5, <1>6, <1>7, <1>9, <1>10

\* PU1 counts the answers.
LEMMA ReadyInv ==
    ASSUME Inv, NEW m \in Readies, Becomes(m, [pu[1] EXCEPT !.counter = pu[1].counter + 1], {}),
           UNCHANGED <<memory, notifier, tail, halted, printed, window, fires, drain, queue, adding>>
    PROVE  Inv'
<1> USE DEF Inv
<1>1. PICK p \in Others : m = Ready(p) /\ 1 \in Waiting /\ p \in PUs /\ m.to = 1
  BY BootIs DEF Booting, Others
<1>2. pu' = [pu EXCEPT ![1] = [pu[1] EXCEPT !.counter = pu[1].counter + 1]] /\ net' = net \ {m}
  BY <1>1 DEF Becomes
<1>3. 1 \in PUs /\ NumPU \in Nat
  BY Basics
<1>4. /\ \A q \in PUs : q # 1 => pu'[q] = pu[q]
      /\ pu'[1].counter = pu[1].counter + 1
      /\ \A q \in PUs : /\ pu'[q].prep = pu[q].prep /\ pu'[q].spikeOn = pu[q].spikeOn
                        /\ pu'[q].step = pu[q].step /\ pu'[q].s8 = pu[q].s8
                        /\ pu'[q].drained = pu[q].drained /\ pu'[q].prepared = pu[q].prepared
  <2>1. PICK r : r = [pu[1] EXCEPT !.counter = pu[1].counter + 1]
    OBVIOUS
  <2>2. /\ r.counter = pu[1].counter + 1 /\ r.prep = pu[1].prep /\ r.spikeOn = pu[1].spikeOn
        /\ r.step = pu[1].step /\ r.s8 = pu[1].s8
        /\ r.drained = pu[1].drained /\ r.prepared = pu[1].prepared
    BY <1>3, <2>1 DEF Typing, Words
  <2>3. pu'[1] = r /\ \A q \in PUs : q # 1 => pu'[q] = pu[q]
    BY <1>2, <1>3, <2>1 DEF Typing
  <2>4. QED  BY <2>2, <2>3
<1>5. Now' = Now /\ Waiting' = Waiting /\ Live' = Live /\ Shut' = Shut
  BY <1>4, Still
<1>6. /\ Readies' = Readies \ {m} /\ Boots' = Boots
      /\ Works' = Works /\ Reports' = Reports /\ Installs' = Installs /\ Idles' = Idles
      /\ Closings' = Closings /\ Finals' = Finals /\ Prepares' = Prepares /\ Endings' = Endings
  BY <1>1, <1>2, BootIs DEF Of, Boots, Readies, Works, Reports, Installs, Idles, Closings, Finals,
     Prepares, Endings
<1>7. Joined' = Joined \cup {p} /\ p \notin Joined
  <2>1. \A q \in Others : Ready(q) = m <=> q = p
    BY <1>1, BootIs
  <2>2. QED  BY <1>1, <1>6, <2>1 DEF Booting, Joined
<1>8. IsFiniteSet(Joined) /\ Cardinality(Joined') = Cardinality(Joined) + 1 /\ Cardinality(Joined') <= NumPU
  <2>1. Joined \subseteq Others /\ Joined' \subseteq Others
    BY DEF Joined
  <2>2. IsFiniteSet(Joined) /\ IsFiniteSet(Joined') /\ Cardinality(Joined') <= NumPU - 1
    BY <2>1, CoreSets, FS_Subset
  <2>3. Cardinality(Joined) \in Nat /\ Cardinality(Joined') \in Nat
    BY <2>2, FS_CardinalityType
  <2>4. Cardinality(Joined') = Cardinality(Joined) + 1
    BY <1>7, <2>2, FS_AddElement
  <2>5. QED  BY <1>3, <2>2, <2>3, <2>4
<1>9. pu'[1].counter = Cardinality(Joined')
  BY <1>1, <1>4, <1>8 DEF Booting
<1>10. Typing'
  <2>1. Cardinality(Joined') \in 0 .. NumPU
    <3>1. Cardinality(Joined) \in Nat
      BY <1>8, FS_CardinalityType
    <3>2. QED  BY <1>3, <1>8, <3>1
  <2>2. pu[1].counter + 1 \in 0 .. NumPU
    BY <1>4, <1>9, <2>1
  <2>3. PICK n \in 0 .. NumPU : n = pu[1].counter + 1
    BY <2>2
  <2>4. pu[1] \in Words /\ pu \in [PUs -> Words]
    BY <1>3 DEF Typing
  <2>5. [pu[1] EXCEPT !.counter = n] \in Words
    BY <2>4 DEF Words
  <2>6. pu' \in [PUs -> Words]
    BY <1>2, <1>3, <2>3, <2>4, <2>5
  <2>7. QED  BY <1>2, <1>4, <2>6, TailsSame DEF Typing
<1>11. Cores' /\ Updating' /\ Reporting'
  BY <1>1, <1>4, <1>5, <1>6, CoresFrame, UpdatingFrame, ReportingFrame
<1>12. Booting'
  <2>1. \A q \in Others : ~ (Hello(q) \in Boots' /\ Ready(q) \in Readies')
    BY <1>1, <1>6 DEF Booting
  <2>2. QED  BY <1>1, <1>5, <1>6, <1>9, <2>1 DEF Booting
<1>13. ~AllUpdated
  BY <1>1, Quiet
<1>14. AllUpdated' <=> AllUpdated
  BY <1>1, <1>4, <1>5, <1>6, ReportedFrame
<1>15. Staged' /\ Draining'
  BY <1>4, <1>5, <1>6, <1>13, <1>14, StagedFrame, DrainingFrame
<1>16. Preparing' /\ Spiking'
  BY <1>4, <1>5, <1>6, PreparingFrame, SpikingFrame DEF Ended
<1>17. QED  BY <1>10, <1>11, <1>12, <1>15, <1>16

\* The first step starts.
LEMMA BootDone ==
    ASSUME Proper, Inv, 1 \in Waiting, NEW m \in net, m \notin Prepares, m.to = 1,
           Boots \cup Readies \subseteq {m}, Start(m, 0, fires), UNCHANGED <<drain, queue, adding>>, Tails[1] = "none"
    PROVE  Inv'
<1> USE DEF Inv
<1>1. Now = 0 /\ Waiting = PUs
  BY DEF Booting
<1>2. 1 \in PUs /\ 0 \in 0 .. Steps - 1
  BY Basics
<1>3. ~AllUpdated
  BY <1>1, <1>2, Quiet
<1>4. \A p \in PUs : Aim(p) = 0 /\ ~pu[p].spikeOn /\ Tails[p] # "count" /\ pu[p].prepared = 0
  <2>1. Shut = {}
    BY <1>1 DEF Shut
  <2>2. \A p \in PUs : Tails[p] # "count"
    <3>1. drain \in {"reverse", "tree"}
      BY SnnAssumption DEF Typing
    <3>2. QED  BY <2>1, <3>1 DEF Draining, Reverse, Tree, Counting
  <2>3. QED  BY <1>1, <2>2 DEF Waiting, Preparing
<1>5. Works = {} /\ Reports = {}
  BY <1>1, <1>4 DEF Updating, Live, Reporting, Others
<1>6. Endings = {}
  BY <1>4, Basics DEF Preparing, Others
<1>7. Finals = {} /\ Installs = {} /\ Idles = {} /\ Closings = {} /\ notifier = {}
  BY <1>3 DEF Staged
<1>8. \A x \in memory : x \in Spike /\ x.step = 0
  BY <1>1 DEF Spiking
<1>9. \A p \in PUs : \A x \in Here(p) : x \in Spike /\ x.step = 0 /\ x.to[1] = p
  BY <1>1 DEF Spiking
<1>10. QED  BY <1>2, <1>4, <1>5, <1>6, <1>7, <1>8, <1>9, StartRoot

\* A start opens the core.
LEMMA Opens ==
    ASSUME Proper, Typing, NEW m \in net, NEW s \in 0 .. Steps - 1, NEW fired, Start(m, s, fired)
    PROVE  pu'[m.to].spikeOn
<1>1. PICK r \in Words : Started(m, s, r)
  BY StartEffect
<1>2. m.to \in PUs /\ pu' = [pu EXCEPT ![m.to] = r] /\ r.spikeOn = TRUE
  BY <1>1 DEF Started, Typing
<1>3. QED  BY <1>2 DEF Typing

LEMMA BootInv ==
    ASSUME Proper, Inv, NEW m \in net, NEW t,
           pu'[m.to].spikeOn /\ ~pu[m.to].spikeOn => Tails[m.to] = "none",
           \/ m.handler = "boot_control" /\ boot_control(m, t)
           \/ m.handler = "boot_ready" /\ boot_ready(m, t),
           UNCHANGED <<drain, queue, adding>>
    PROVE  Inv'
<1> USE DEF Inv
<1>1. CASE m.handler = "boot_control"
  <2>1. m \in Boots /\ m \notin Prepares /\ boot_control(m, t)
    BY <1>1 DEF Boots, Prepares, Of
  <2>2. Now \in Nat
    BY Basics DEF Now, Typing, Words
  <2>3. CASE \E p \in PUs : 1 \in Waiting /\ m = Hello(p) /\ (p = 1 => NumPU = 1)
    <3>1. PICK p \in PUs : 1 \in Waiting /\ m = Hello(p) /\ (p = 1 => NumPU = 1)
      BY <2>3
    <3>2. m.to = p /\ m.args[1] = 0
      BY <3>1, BootIs
    <3>3. CASE p # 1
      <4>1. /\ Becomes(m, pu[m.to], {Msg("boot_ready", m.to, 1, <<>>)})
            /\ UNCHANGED <<memory, notifier, tail, halted, printed, window, fires>>
        BY <2>1, <3>2, <3>3 DEF boot_control
      <4>2. m.to # 1
        BY <3>2, <3>3
      <4>3. QED  BY <2>1, <3>2, <4>1, <4>2, HelloInv
    <3>4. CASE p = 1
      <4>1. Others = {}
        BY <3>1, <3>4 DEF Others, PUs
      <4>2. Waiting = PUs
        BY <3>1 DEF Booting
      <4>3. Boots \cup Readies \subseteq {m}
        BY <3>1, <3>4, <4>1 DEF Booting, Others
      <4>4. Start(m, 0, fires)
        BY <2>1, <3>2, <3>4 DEF boot_control
      <4>5. Tails[1] = "none"
        <5>1. 0 \in 0 .. Steps - 1 /\ 1 \in Waiting /\ m.to = 1
          BY <3>1, <3>2, <3>4, Basics
        <5>2. pu'[1].spikeOn
          BY <4>4, <5>1, Opens
        <5>3. QED  BY <5>1, <5>2 DEF Waiting
      <4>6. QED  BY <2>1, <3>1, <3>2, <3>4, <4>3, <4>4, <4>5, BootDone
    <3>5. QED  BY <3>3, <3>4
  <2>4. CASE \E c \in Others : m = Token(c, Now) /\ c \in Waiting /\ Parent(c) \notin Waiting
    <3>1. PICK c \in Others : m = Token(c, Now) /\ c \in Waiting /\ Parent(c) \notin Waiting
      BY <2>4
    <3>2. m.to = c /\ m.args[1] = Now + 1
      BY <3>1, BootIs
    <3>3. Start(m, Now, fires)
      BY <2>1, <2>2, <3>2 DEF boot_control
    <3>4. Tails[c] = "none"
      <4>1. Now \in 0 .. Steps - 1
        BY Basics DEF Now, Typing, Words
      <4>2. pu'[c].spikeOn
        BY <3>2, <3>3, <4>1, Opens
      <4>3. QED  BY <3>1, <3>2, <4>2 DEF Waiting
    <3>5. QED  BY <2>1, <3>1, <3>3, <3>4, StartOther
  <2>5. QED  BY <2>1, <2>3, <2>4 DEF Booting
<1>2. CASE m.handler = "boot_ready"
  <2>1. m \in Readies /\ m \notin Prepares /\ boot_ready(m, t)
    BY <1>2 DEF Readies, Prepares, Of
  <2>2. PICK p \in Others : m = Ready(p) /\ 1 \in Waiting /\ m.to = 1
    BY <2>1, BootIs DEF Booting
  <2>3. CASE pu[1].counter + 1 = NumPU - 1
    <3>1. pu[1].counter = Cardinality(Joined) /\ Waiting = PUs
      BY <2>2 DEF Booting
    <3>2. Joined \cup {p} \subseteq Others /\ p \notin Joined /\ IsFiniteSet(Joined)
      <4>1. Joined \subseteq Others /\ p \notin Joined
        BY <2>1, <2>2 DEF Joined
      <4>2. QED  BY <4>1, CoreSets, FS_Subset
    <3>3. Cardinality(Joined \cup {p}) = Cardinality(Joined) + 1
      BY <3>2, FS_AddElement
    <3>4. Joined \cup {p} = Others
      <4>1. Cardinality(Joined \cup {p}) = Cardinality(Others)
        BY <2>3, <3>1, <3>3, CoreSets
      <4>2. QED  BY <3>2, <4>1, CoreSets, FS_Subset
    <3>5. NumPU # 1
      BY DEF Others, PUs
    <3>6. ASSUME NEW x \in Boots
          PROVE  FALSE
      <4>1. CASE \E q \in PUs : x = Hello(q) /\ (q = 1 => NumPU = 1)
        <5>1. PICK q \in Others : x = Hello(q)
          BY <3>5, <4>1 DEF Others
        <5>2. q \notin Joined /\ q # p
          BY <2>1, <2>2, <5>1 DEF Booting, Joined
        <5>3. QED  BY <3>4, <5>2
      <4>2. CASE \E c \in Others : Parent(c) \notin Waiting
        BY <3>1, <4>2, ParentOf
      <4>3. QED  BY <4>1, <4>2 DEF Booting
    <3>7. Readies \subseteq {m}
      BY <2>2, <3>4 DEF Booting, Joined
    <3>8. Start(m, 0, fires)
      BY <2>1, <2>3, Basics DEF boot_ready
    <3>9. Tails[1] = "none"
      <4>1. 0 \in 0 .. Steps - 1
        BY Basics
      <4>2. pu'[1].spikeOn
        BY <2>2, <3>8, <4>1, Opens
      <4>3. QED  BY <2>2, <4>2 DEF Waiting
    <3>10. QED  BY <2>1, <2>2, <3>6, <3>7, <3>8, <3>9, BootDone
  <2>4. CASE pu[1].counter + 1 # NumPU - 1
    BY <2>1, <2>4, ReadyInv DEF boot_ready
  <2>5. QED  BY <2>3, <2>4
<1>3. QED  BY <1>1, <1>2

----------------------------------------------------------------------------
(* Updating the neurons and reporting it *)

LEMMA QuietNext ==
    Updating' /\ Reporting' /\ AllUpdated' => Waiting' = {}
<1>1. Updating /\ Reporting /\ AllUpdated => Waiting = {}
  BY Quiet
<1>2. Updating' /\ Reporting' /\ AllUpdated' => (Waiting = {})'
  BY <1>1, PTL
<1>3. QED  BY <1>2

\* A neuron of a core is updated.
LEMMA NeuronInv ==
    ASSUME Proper, Inv, NEW m \in Works, NEW p \in Live, NEW i \in 1 .. Neurons[p], m = Work(p, i),
           NEW fire \in {0, 1}, pu' = [pu EXCEPT ![p] = [pu[p] EXCEPT !.fired = pu[p].fired + fire]],
           net' = (net \ {m}) \cup {Work(p, i + 1)},
           memory' = memory \cup (IF fire = 1 THEN Spikes(<<p, i>>, pu[p].step) ELSE {}),
           UNCHANGED <<notifier, halted, tail, window, drain, queue, adding>>
    PROVE  Inv'
<1> USE DEF Inv
<1>1. p \in PUs /\ 1 \in PUs /\ m.to = p /\ Neurons[p] \in Nat /\ i + 1 \in 1 .. Neurons[p] + 1
  BY WorkIs, Basics DEF Live
<1>2. /\ \A q \in PUs : q # p => pu'[q] = pu[q]
      /\ \A q \in PUs : /\ pu'[q].prep = pu[q].prep /\ pu'[q].spikeOn = pu[q].spikeOn
                        /\ pu'[q].step = pu[q].step /\ pu'[q].s8 = pu[q].s8
                        /\ pu'[q].counter = pu[q].counter
                        /\ pu'[q].drained = pu[q].drained /\ pu'[q].prepared = pu[q].prepared
  <2>1. PICK r : r = [pu[p] EXCEPT !.fired = pu[p].fired + fire]
    OBVIOUS
  <2>2. /\ r.prep = pu[p].prep /\ r.spikeOn = pu[p].spikeOn /\ r.step = pu[p].step /\ r.s8 = pu[p].s8
        /\ r.counter = pu[p].counter /\ r.drained = pu[p].drained /\ r.prepared = pu[p].prepared
    BY <1>1, <2>1 DEF Typing, Words
  <2>3. pu'[p] = r /\ \A q \in PUs : q # p => pu'[q] = pu[q]
    BY <1>1, <2>1 DEF Typing
  <2>4. QED  BY <2>2, <2>3
<1>3. Now' = Now /\ Waiting' = Waiting /\ Live' = Live /\ Shut' = Shut
  BY <1>2, Still
<1>4. /\ Works' = (Works \ {m}) \cup {Work(p, i + 1)}
      /\ Boots' = Boots /\ Readies' = Readies /\ Reports' = Reports /\ Installs' = Installs
      /\ Idles' = Idles /\ Closings' = Closings /\ Finals' = Finals /\ Prepares' = Prepares
      /\ Endings' = Endings
  BY WorkIs DEF Of, Boots, Readies, Works, Reports, Installs, Idles, Closings, Finals, Prepares, Endings
<1>5. Working' = Working
  <2>1. \A q \in PUs : (\E x \in Works' : x.to = q) <=> (\E x \in Works : x.to = q)
    BY <1>1, <1>4, WorkIs
  <2>2. QED  BY <2>1 DEF Working
<1>6. Typing'
  <2>1. pu[p].fired + fire \in Nat /\ pu[p] \in Words
    <3>1. pu[p] \in Words
      BY <1>1 DEF Typing
    <3>2. pu[p].fired \in Nat
      BY <3>1 DEF Words
    <3>3. QED  BY <3>1, <3>2
  <2>2. [pu[p] EXCEPT !.fired = pu[p].fired + fire] \in Words
    BY <2>1 DEF Words
  <2>3. pu' \in [PUs -> Words]
    BY <2>2 DEF Typing
  <2>4. \A x \in net' : x.to \in PUs
    BY <1>1, WorkIs DEF Typing
  <2>5. QED  BY <1>2, <2>3, <2>4, TailsSame DEF Typing
<1>7. Cores' /\ Booting' /\ Reporting'
  BY <1>2, <1>3, <1>4, <1>5, CoresFrame, BootingFrame, ReportingFrame
<1>8. Updating'
  <2>1. \A x \in Works' : \E q \in Live' : \E j \in 1 .. Neurons[q] + 1 : x = Work(q, j)
    BY <1>1, <1>3, <1>4 DEF Updating
  <2>2. \A x, y \in Works' : x.to = y.to => x = y
    BY <1>1, <1>4, WorkIs DEF Updating
  <2>3. QED  BY <2>1, <2>2 DEF Updating
<1>9. AllUpdated' <=> AllUpdated
  BY <1>2, <1>3, <1>4, <1>5, ReportedFrame
<1>10. Staged' /\ Draining'
  BY <1>2, <1>3, <1>4, <1>9, StagedFrame, DrainingFrame
<1>11. Preparing'
  BY <1>2, <1>3, <1>4, PreparingFrame DEF Ended
<1>12. Spiking'
  <2>1. Shut = {} /\ Idles = {}
    BY Quiet DEF Staged
  <2>2. pu[p].step = Now /\ Now \in 0 .. Steps - 1
    <3>1. pu[p].step = Now
      BY <1>1 DEF Cores, Core
    <3>2. pu[p] \in Words
      BY <1>1 DEF Typing
    <3>3. QED  BY <3>1, <3>2 DEF Words
  <2>3. \A x \in memory' : x \in memory \/ (x \in Spike /\ x.step = Now)
    BY <2>2, SpikesAre
  <2>4. memory \subseteq Spike /\ \A x \in memory : x.step = Now
    BY DEF Spiking
  <2>5. memory' \subseteq Spike /\ \A x \in memory' : x.step = Now
    BY <2>3, <2>4
  <2>6. \A q \in PUs : \A x \in Here(q) : x \in Spike /\ x.to[1] = q /\ x.step = Now /\ q \notin Shut
    BY DEF Spiking
  <2>7. \A q \in PUs : Here(q)' = Here(q)
    BY DEF Here
  <2>8. QED  BY <1>3, <1>4, <2>1, <2>5, <2>6, <2>7 DEF Spiking
<1>13. QED  BY <1>6, <1>7, <1>8, <1>10, <1>11, <1>12

\* What a core counts in termination_reduce: n is for its own neurons or for
\* the subtree of a child.
LEMMA ReduceInv ==
    ASSUME Proper, Inv, NEW m \in net, NEW n, Reduce(m, pu[m.to], n, {}),
           (m \in Works /\ n = 1) \/ (m \in Reports /\ n = m.args[1]),
           UNCHANGED <<memory, tail, window, drain, queue, adding>>
    PROVE  Inv'
<1> USE DEF Inv
<1>1. PICK p \in PUs : p = m.to /\ p \notin Waiting
  <2>1. CASE m \in Works
    BY <2>1, WorkIs DEF Updating, Live, Waiting
  <2>2. CASE m \in Reports
    <3>1. PICK c \in Others : m = Report(c) /\ c \notin Waiting
      BY <2>2 DEF Reporting
    <3>2. Parent(c) \in PUs /\ Parent(c) \notin Waiting
      BY <3>1, ParentOf DEF Booting
    <3>3. QED  BY <3>1, <3>2, ReportIs
  <2>3. QED  BY <2>1, <2>2
<1>2. ~AllUpdated
  BY Quiet
<1>3. /\ notifier = {} /\ Shut = {} /\ Installs = {} /\ Idles = {} /\ Closings = {} /\ Finals = {}
  BY <1>2 DEF Staged
<1>4. PICK U, R :
        /\ m \in Works => U = Updated \cup {p} /\ R = Reported /\ p \notin Updated
        /\ m \in Reports => /\ U = Updated /\ R = Reported \cup {m.from}
                            /\ m.from \notin Reported /\ m.from \in StartChildren(p)
                            /\ m = Report(m.from) /\ n = SubtreeSize(m.from)
                            /\ m.from \notin Waiting /\ pu[m.from].counter = SubtreeSize(m.from)
  <2>1. m \in Works => p \notin Updated /\ m \notin Reports
    BY <1>1 DEF Updated, Working, Works, Reports, Of
  <2>2. ASSUME m \in Reports
        PROVE  /\ m.from \notin Reported /\ m.from \in StartChildren(p) /\ m = Report(m.from)
               /\ n = SubtreeSize(m.from) /\ m.from \notin Waiting
               /\ pu[m.from].counter = SubtreeSize(m.from) /\ m \notin Works
    <3>1. PICK c \in Others : m = Report(c) /\ c \notin Waiting /\ pu[c].counter = SubtreeSize(c)
      BY <2>2 DEF Reporting
    <3>2. m.from = c /\ m.to = Parent(c) /\ m.args = <<SubtreeSize(c)>> /\ m \notin Works
      BY <2>2, <3>1, ReportIs DEF Works, Reports, Of
    <3>3. c \in StartChildren(p)
      BY <1>1, <3>2, Children
    <3>4. n = SubtreeSize(c)
      BY <2>2, <3>2
    <3>5. QED  BY <2>2, <3>1, <3>2, <3>3, <3>4 DEF Reported
  <2>3. QED  BY <2>1, <2>2
<1>5. n \in Nat \ {0}
  <2>1. m \in Reports => m.from \in PUs
    BY <1>1, <1>4, Children DEF Others
  <2>2. QED  BY <1>4, <2>1, Basics
<1>6. /\ Cardinality(Tally(p, U, R)) = Cardinality(Tally(p, Updated, Reported)) + n
      /\ \A q \in PUs : q # p => Tally(q, U, R) = Tally(q, Updated, Reported)
  <2>1. CASE m \in Works
    BY <1>1, <1>4, <2>1, TallyOwn, TallySame
  <2>2. CASE m \in Reports
    <3>1. \A q \in PUs : q # p => m.from \notin StartChildren(q)
      BY <1>1, <1>4, <2>2, Children
    <3>2. \A q \in PUs : q # p => Tally(q, U, R) = Tally(q, Updated, Reported)
      BY <1>4, <2>2, <3>1, TallySame
    <3>3. Cardinality(Tally(p, U, R)) = Cardinality(Tally(p, Updated, Reported)) + n
      BY <1>1, <1>4, <2>2, TallyChild
    <3>4. QED  BY <3>2, <3>3
  <2>3. QED  BY <2>1, <2>2
<1>7. PICK sum, all : sum = pu[p].counter + n /\ all = SubtreeSize(p)
  OBVIOUS
<1>8. /\ sum = Cardinality(Tally(p, U, R)) /\ sum \in 0 .. all /\ pu[p].counter # all
      /\ all \in 1 .. NumPU
  <2>1. pu[p].counter = Cardinality(Tally(p, Updated, Reported))
    BY <1>1, <1>2 DEF Reporting
  <2>2. Cardinality(Tally(p, U, R)) \in 0 .. all /\ all \in 1 .. NumPU
    BY <1>1, <1>7, TallySize, Basics
  <2>3. Cardinality(Tally(p, Updated, Reported)) \in 0 .. all
    BY <1>1, <1>7, TallySize
  <2>4. PICK x, y : x = Cardinality(Tally(p, Updated, Reported)) /\ y = Cardinality(Tally(p, U, R))
    OBVIOUS
  <2>5. x \in Nat /\ y \in Nat /\ all \in Nat /\ y = x + n /\ y <= all /\ pu[p].counter = x
    BY <1>6, <2>1, <2>2, <2>3, <2>4
  <2>6. QED  BY <1>5, <1>7, <2>2, <2>4, <2>5
<1> DEFINE root == p = 1 /\ sum = all
           v == IF root THEN 0 ELSE sum
           told == IF sum = all /\ ~root THEN {Report(p)} ELSE {}
           next == IF root THEN Install(1, 0) ELSE {}
<1>9. /\ pu' = [pu EXCEPT ![p] = [pu[p] EXCEPT !.counter = v]]
      /\ net' = (net \ {m}) \cup (told \cup next)
      /\ notifier' = IF root THEN notifier \cup {0} ELSE notifier
      /\ halted' = halted
  <2>1. ~ (sum > all)
    BY <1>8
  <2>2. Report(p) = Msg("termination_reduce", p, Parent(p), <<all>>)
    BY <1>7 DEF Report
  <2>3. Refused(0) = {}
    BY <1>3 DEF Refused
  <2>4. QED  BY <1>1, <1>7, <2>1, <2>2, <2>3 DEF Reduce, Becomes, Fails
<1>10. v \in 0 .. NumPU
  BY <1>8, Basics
<1>11. /\ \A q \in PUs : q # p => pu'[q] = pu[q]
       /\ pu'[p].counter = v
       /\ \A q \in PUs : /\ pu'[q].prep = pu[q].prep /\ pu'[q].spikeOn = pu[q].spikeOn
                         /\ pu'[q].step = pu[q].step /\ pu'[q].s8 = pu[q].s8
                         /\ pu'[q].drained = pu[q].drained /\ pu'[q].prepared = pu[q].prepared
  <2>1. pu[p] \in Words
    BY DEF Typing
  <2> HIDE DEF v
  <2>2. QED  BY <1>9, <2>1 DEF Typing, Words
<1>12. Now' = Now /\ Waiting' = Waiting /\ Live' = Live /\ Shut' = Shut /\ Counting' = Counting
  BY <1>11, Still
<1>13. next = IF root /\ 1 < NumMC THEN {InstallOf(1)} ELSE {}
  <2>1. Msg("termination_install", 1, 1 + DomainSize, <<0 + 1>>) = InstallOf(1)
    <3>1. Leader(1) = 1 + DomainSize /\ Leader(1) - DomainSize = 1
      BY DomainSizes DEF Leader
    <3>2. QED  BY <3>1 DEF InstallOf
  <2>2. QED  BY SMTT(30), <2>1, Basics DEF Install
<1> HIDE DEF next, told, v
<1>14. /\ Works' = Works \ {m}
       /\ Reports' = (Reports \ {m}) \cup told
       /\ Installs' = next
       /\ Boots' = Boots /\ Readies' = Readies /\ Idles' = Idles /\ Closings' = Closings
       /\ Finals' = Finals /\ Prepares' = Prepares /\ Endings' = Endings
  <2>1. m.handler \in {"work_update", "termination_reduce"}
    BY DEF Works, Reports, Of
  <2>2. \A x \in told : x.handler = "termination_reduce"
    BY ReportIs DEF told
  <2>3. \A x \in next : x.handler = "termination_install"
    BY <1>13, StageIs
  <2>4. Installs' = Installs \cup next
    BY <1>9, <2>1, <2>2, <2>3 DEF Of, Installs
  <2>5. Works' = Works \ {m}
    BY <1>9, <2>1, <2>2, <2>3 DEF Of, Works
  <2>6. Reports' = (Reports \ {m}) \cup told
    BY <1>9, <2>1, <2>2, <2>3 DEF Of, Reports
  <2>7. Boots' = Boots /\ Readies' = Readies /\ Idles' = Idles /\ Closings' = Closings
    BY <1>9, <2>1, <2>2, <2>3 DEF Of, Boots, Readies, Idles, Closings
  <2>8. Finals' = Finals /\ Prepares' = Prepares /\ Endings' = Endings
    BY <1>9, <2>1, <2>2, <2>3 DEF Of, Finals, Prepares, Endings
  <2>9. QED  BY <1>3, <2>4, <2>5, <2>6, <2>7, <2>8
<1>15. Updated' = U
  <2>1. CASE m \in Works
    <3>1. m.to = p /\ \A x \in Works : x.to = p => x = m
      BY <1>1, <2>1 DEF Updating
    <3>2. Working' = Working \ {p}
      BY <1>14, <3>1 DEF Working
    <3>3. QED  BY <1>1, <1>4, <1>12, <2>1, <3>2 DEF Updated
  <2>2. CASE m \in Reports
    <3>1. m \notin Works
      BY <2>2 DEF Works, Reports, Of
    <3>2. Working' = Working
      BY <1>14, <3>1 DEF Working
    <3>3. QED  BY <1>4, <1>12, <2>2, <3>2 DEF Updated
  <2>3. QED  BY <2>1, <2>2
<1>16. \A c, d : Report(c) = Report(d) => c = d
  <2>1. \A c : Report(c).from = c
    BY ReportIs
  <2>2. QED  BY <2>1
<1>17. Reported' = R
  <2>1. p \notin Reported /\ (p \in Others => Report(p) \notin Reports)
    BY <1>7, <1>8, <1>16 DEF Reported, Reporting
  <2>2. (m.from # p /\ m.from \in Others) \/ m \in Works
    <3>1. m \in Reports => m.from \in Others /\ Parent(m.from) = p /\ m.from # p
      <4>1. m \in Reports => m.from \in Others /\ Parent(m.from) = p
        BY <1>4, Children
      <4>2. m \in Reports => m.from # p
        BY <4>1, ParentOf DEF PUs
      <4>3. QED  BY <4>1, <4>2
    <3>2. QED  BY <3>1
  <2>3. p \notin R
    BY <1>4, <2>1, <2>2
  <2>4. p \notin Reported'
    <3>1. CASE sum = all /\ p # 1
      <4>1. Report(p) \in Reports'
        BY <1>14, <3>1 DEF told
      <4>2. QED  BY <4>1 DEF Reported
    <3>2. CASE sum # all /\ p # 1
      <4>1. pu'[p].counter # SubtreeSize(p)
        BY <1>7, <1>8, <1>11, <3>2 DEF v
      <4>2. QED  BY <4>1 DEF Reported
    <3>3. QED  BY <3>1, <3>2 DEF Reported, Others
  <2>5. ASSUME NEW c \in Others, c # p
        PROVE  c \in Reported' <=> c \in R
    <3>1. pu'[c] = pu[c] /\ (c \in Waiting' <=> c \in Waiting)
      BY <1>11, <1>12, <2>5 DEF Others
    <3>2. Report(c) \in Reports' <=> Report(c) \in Reports /\ Report(c) # m
      BY <1>14, <1>16, <2>5 DEF told
    <3>3. CASE m \in Works
      <4>1. Report(c) # m
        BY <3>3, ReportIs DEF Works, Of
      <4>2. QED  BY <1>4, <2>5, <3>1, <3>2, <3>3, <4>1 DEF Reported
    <3>4. CASE m \in Reports
      <4>1. Report(c) = m <=> c = m.from
        BY <1>4, <1>16, <3>4
      <4>2. QED  BY <1>4, <2>5, <3>1, <3>2, <3>4, <4>1 DEF Reported
    <3>5. QED  BY <3>3, <3>4
  <2>6. R \subseteq Others
    BY <1>4, <2>2 DEF Reported
  <2>7. Reported' \subseteq Others
    BY DEF Reported
  <2>8. QED  BY <2>3, <2>4, <2>5, <2>6, <2>7
<1>18. AllUpdated' <=> root
  <2>1. CASE p = 1
    BY <1>7, <1>8, <1>15, <1>17, <2>1, Basics DEF AllUpdated
  <2>2. CASE p # 1
    <3>1. Tally(1, U, R) = Tally(1, Updated, Reported)
      BY <1>6, <2>2, Basics
    <3>2. QED  BY <1>2, <1>15, <1>17, <2>2, <3>1 DEF AllUpdated
  <2>3. QED  BY <2>1, <2>2
<1> HIDE DEF root
<1>19. Reporting'
  <2>1. ASSUME NEW x \in Reports'
        PROVE  \E c \in Others : x = Report(c) /\ c \notin Waiting' /\ pu'[c].counter = SubtreeSize(c)
    <3>1. CASE x \in Reports
      <4>1. PICK c \in Others : x = Report(c) /\ c \notin Waiting /\ pu[c].counter = SubtreeSize(c)
        BY <3>1 DEF Reporting
      <4>2. c # p
        BY <1>7, <1>8, <4>1
      <4>3. QED  BY <1>11, <1>12, <4>1, <4>2 DEF Others
    <3>2. CASE x \in told
      <4>1. x = Report(p) /\ sum = all /\ p # 1
        BY <3>2 DEF told, root
      <4>2. pu'[p].counter = all /\ p \in Others
        BY <1>11, <4>1 DEF v, root, Others
      <4>3. QED  BY <1>1, <1>7, <1>12, <4>1, <4>2
    <3>3. QED  BY <1>14, <2>1, <3>1, <3>2
  <2>2. ASSUME NEW q \in PUs, q \notin Waiting', q = 1 => ~AllUpdated'
        PROVE  pu'[q].counter = Cardinality(Tally(q, Updated', Reported'))
    <3>1. CASE q = p
      <4>1. ~root
        BY <1>18, <2>2, <3>1 DEF root
      <4>2. QED  BY <1>8, <1>11, <1>15, <1>17, <3>1, <4>1 DEF v
    <3>2. CASE q # p
      BY <1>2, <1>6, <1>11, <1>12, <1>15, <1>17, <2>2, <3>2 DEF Reporting
    <3>3. QED  BY <3>1, <3>2
  <2>3. QED  BY <2>1, <2>2 DEF Reporting
<1>20. Updating'
  BY <1>12, <1>14 DEF Updating
<1>21. Typing'
  <2>1. pu' \in [PUs -> Words]
    <3>1. pu[p] \in Words
      BY DEF Typing
    <3>2. [pu[p] EXCEPT !.counter = v] \in Words
      BY <1>10, <3>1 DEF Words
    <3>3. QED  BY <1>9, <3>2 DEF Typing
  <2>2. \A x \in told : x.to \in PUs
    <3>1. p # 1 => Parent(p) \in PUs
      BY ParentOf DEF Others
    <3>2. QED  BY <3>1, ReportIs DEF told, root
  <2>3. \A x \in next : x.to \in PUs
    <3>1. 1 < NumMC => 1 \in Members
      BY Basics DEF Members
    <3>2. QED  BY <1>13, <3>1, StageIs, Domains
  <2>4. \A x \in net' : x.to \in PUs
    BY <1>9, <2>2, <2>3 DEF Typing
  <2>5. QED  BY <1>9, <1>11, <2>1, <2>4, TailsSame DEF Typing
<1>22. 1 \in Waiting => pu'[1].counter = pu[1].counter
  BY <1>1, <1>11, Basics
<1>23. Cores' /\ Booting'
  BY <1>11, <1>12, <1>14, <1>22, CoresFrame, BootingFrame
<1>24. root => Live' = PUs
  <2>1. root => Waiting' = {}
    BY <1>18, <1>19, <1>20, QuietNext
  <2>2. QED  BY <1>3, <1>12, <2>1 DEF Shut, Live
<1>25. Staged'
  <2>1. CASE ~root
    <3>1. next = {}
      BY <1>13, <2>1
    <3>2. QED  BY <1>3, <1>9, <1>12, <1>14, <1>18, <2>1, <3>1 DEF Staged
  <2>2. CASE root
    <3>1. \A d \in Members : Leader(d) \in Live'
      BY <1>24, <2>2, Domains
    <3>2. \A x \in Installs' : x = InstallOf(1) /\ 1 \in Members \ {0}
      BY <1>13, <1>14, Basics DEF Members
    <3>3. \A d \in Members : \A k \in 1 .. d : d # 0
      BY DEF Members
    <3>4. notifier' = {0} /\ 0 \in Members
      BY <1>3, <1>9, <2>2, Basics DEF Members
    <3>5. Idles' = {} /\ Shut' = {}
      BY <1>3, <1>12, <1>14
    <3>6. QED  BY <1>18, <2>2, <3>1, <3>2, <3>3, <3>4, <3>5 DEF Staged
  <2>3. QED  BY <2>1, <2>2
<1>26. Draining'
  <2>1. Gone' = {} /\ Closings' = {} /\ Finals' = {}
    BY <1>3, <1>12, <1>14 DEF Gone
  <2>2. root => pu'[1].counter = Cardinality({})
    BY <1>11, FS_EmptySet DEF v, root
  <2>0. Tails' = Tails
    BY TailsSame
  <2>3. Reverse => Reverse'
    BY <1>9, <2>0, <1>18, <2>1, <2>2 DEF Reverse
  <2>4. Drained' = Drained
    BY <1>3, <1>11, <1>12, <2>1 DEF Drained, Others
  <2>5. Tree => Tree'
    BY <1>3, <1>11, <1>12, <2>1, <2>4 DEF Tree
  <2>6. QED  BY <2>3, <2>5 DEF Draining
<1>27. Preparing'
  BY <1>11, <1>12, <1>14, PreparingFrame DEF Ended
<1>28. Spiking'
  BY <1>12, <1>14, SpikingFrame
<1>29. QED
  BY <1>19, <1>20, <1>21, <1>23, <1>25, <1>26, <1>27, <1>28

\* The handlers that update neurons and add up the reports.
LEMMA UpdateInv ==
    ASSUME Proper, Inv, NEW m \in net, NEW t,
           \/ m.handler = "work_update" /\ work_update(m, t)
           \/ m.handler = "termination_reduce" /\ termination_reduce(m, t),
           UNCHANGED <<drain, queue, adding>>
    PROVE  Inv'
<1>1. CASE m.handler = "termination_reduce"
  <2>1. m \in Reports /\ termination_reduce(m, t)
    BY <1>1 DEF Reports, Of
  <2>2. PICK n : n = m.args[1] /\ Reduce(m, pu[m.to], n, {})
    BY <2>1 DEF termination_reduce
  <2>3. UNCHANGED <<memory, tail, window>>
    BY <2>1 DEF termination_reduce
  <2>4. QED  BY <2>1, <2>2, <2>3, ReduceInv
<1>2. CASE m.handler = "work_update"
  <2>1. m \in Works /\ work_update(m, t)
    BY <1>2 DEF Works, Of
  <2>2. PICK p \in Live : \E i \in 1 .. Neurons[p] + 1 : m = Work(p, i)
    BY <2>1 DEF Inv, Updating
  <2>3. PICK i \in 1 .. Neurons[p] + 1 : m = Work(p, i)
    BY <2>2
  <2>4. m.to = p /\ m.args[1] = i /\ p \in PUs /\ Neurons[p] \in Nat
    BY <2>3, WorkIs, Basics DEF Live
  <2>5. UNCHANGED <<tail, window>>
    BY <2>1 DEF work_update
  <2>6. CASE i > Neurons[p]
    <3>1. Reduce(m, pu[m.to], 1, {}) /\ UNCHANGED memory
      BY <2>1, <2>4, <2>6 DEF work_update, Update
    <3>2. QED  BY <2>1, <2>5, <3>1, ReduceInv
  <2>7. CASE i <= Neurons[p]
    <3>1. PICK fire \in {0, 1} :
             /\ Becomes(m, [pu[m.to] EXCEPT !.fired = @ + fire],
                        {} \cup {Msg("work_update", m.to, m.to, <<i + 1>>)})
             /\ memory' = memory \cup (IF fire = 1 THEN Spikes(<<m.to, i>>, pu[m.to].step) ELSE {})
             /\ UNCHANGED <<notifier, halted>>
      BY <2>1, <2>4, <2>7 DEF work_update, Update
    <3>2. pu' = [pu EXCEPT ![p] = [pu[p] EXCEPT !.fired = pu[p].fired + fire]]
      BY <2>4, <3>1 DEF Becomes
    <3>3. net' = (net \ {m}) \cup {Work(p, i + 1)}
      BY <2>4, <3>1 DEF Becomes, Work
    <3>4. memory' = memory \cup (IF fire = 1 THEN Spikes(<<p, i>>, pu[p].step) ELSE {})
      BY <2>4, <3>1
    <3>5. i \in 1 .. Neurons[p]
      BY <2>4, <2>7
    <3>6. QED  BY <2>1, <2>3, <2>5, <3>1, <3>2, <3>3, <3>4, <3>5, NeuronInv
  <2>8. QED  BY <2>4, <2>6, <2>7
<1>3. QED  BY <1>1, <1>2

----------------------------------------------------------------------------
(* Observing that a domain is idle *)

LEMMA InstallApart ==
    \A c, d : InstallOf(c) = InstallOf(d) => c = d
<1>1. \A d : InstallOf(d).args[1] = d
  BY StageIs
<1>2. QED  BY <1>1

LEMMA InstallInv ==
    ASSUME Proper, Inv, NEW m \in Installs, NEW t, termination_install(m, t), UNCHANGED <<drain, queue, adding>>
    PROVE  Inv'
<1> USE DEF Inv
<1>1. PICK d \in Members \ {0} : m = InstallOf(d)
  BY DEF Staged
<1>2. m.to = Leader(d) /\ m.args[1] = d /\ Leader(d) \in PUs
  BY <1>1, StageIs, Domains
<1>3. d \in Nat \ {0} /\ NumMC \in Nat \ {0} /\ d < NumMC
  BY Basics DEF Members
<1>4. Leader(d + 1) = Leader(d) + DomainSize /\ Leader(d + 1) - DomainSize = Leader(d)
  <2>1. PICK D \in Nat : D = DomainSize
    BY DomainSizes
  <2>2. (d + 1) * D = d * D + D /\ d * D \in Nat
    BY <1>3, <2>1
  <2>3. QED  BY <2>1, <2>2 DEF Leader
<1> DEFINE next == IF d + 1 < NumMC THEN {InstallOf(d + 1)} ELSE {}
<1>5. Install(m.to, m.args[1]) = next
  BY <1>2, <1>4 DEF Install, InstallOf
<1>6. /\ pu' = pu /\ net' = (net \ {m}) \cup next /\ notifier' = notifier \cup {d}
      /\ UNCHANGED <<memory, tail, halted, window>>
  <2>1. pu' = pu
    BY <1>2 DEF termination_install, Becomes, Typing
  <2>2. net' = (net \ {m}) \cup next
    <3>1. d \notin notifier
      <4>1. InstallOf(d) \in Installs /\ d \in 1 .. d
        BY <1>1, <1>3
      <4>2. QED  BY <4>1 DEF Staged
    <3>2. Refused(m.args[1]) = {}
      BY <1>2, <3>1 DEF Refused
    <3>3. QED  BY <1>5, <3>2 DEF termination_install, Becomes
  <2>3. QED  BY <1>2, <2>1, <2>2 DEF termination_install
<1>7. Now' = Now /\ Waiting' = Waiting /\ Live' = Live /\ Shut' = Shut
  BY <1>6, Still
<1>8. \A x \in next : x = InstallOf(d + 1) /\ d + 1 \in Members \ {0} /\ x.handler = "termination_install" /\ x.to \in PUs
  <2>1. d + 1 < NumMC => d + 1 \in Members \ {0}
    BY <1>3 DEF Members
  <2>2. QED  BY <2>1, StageIs, Domains
<1> HIDE DEF next
<1>9. /\ Installs' = next
      /\ Boots' = Boots /\ Readies' = Readies /\ Works' = Works /\ Reports' = Reports
      /\ Idles' = Idles /\ Closings' = Closings /\ Finals' = Finals /\ Prepares' = Prepares /\ Endings' = Endings
  <2>1. m.handler = "termination_install" /\ Installs = {m}
    BY DEF Installs, Of, Staged
  <2>2. Installs' = next
    BY <1>6, <1>8, <2>1 DEF Installs, Of
  <2>3. Boots' = Boots /\ Readies' = Readies /\ Works' = Works /\ Reports' = Reports
    BY <1>6, <1>8, <2>1 DEF Of, Boots, Readies, Works, Reports
  <2>4. Idles' = Idles /\ Closings' = Closings /\ Finals' = Finals /\ Prepares' = Prepares /\ Endings' = Endings
    BY <1>6, <1>8, <2>1 DEF Of, Idles, Closings, Finals, Prepares, Endings
  <2>5. QED  BY <2>2, <2>3, <2>4
<1>10. Typing'
  BY <1>6, <1>8, TailsSame DEF Typing
<1>11. Cores' /\ Booting' /\ Updating' /\ Reporting'
  BY <1>6, <1>7, <1>9, CoresFrame, BootingFrame, UpdatingFrame, ReportingFrame
<1>12. AllUpdated' <=> AllUpdated
  BY <1>6, <1>7, <1>9, ReportedFrame
<1>13. AllUpdated
  BY DEF Staged
<1>14. Staged'
  <2>1. ASSUME NEW e \in Members, NEW k \in 1 .. e, InstallOf(k) \in Installs'
        PROVE  e \notin notifier' /\ IdleOf(e) \notin Idles' /\ Leader(e) \in Live'
    <3>1. k = d + 1
      BY <1>8, <1>9, <2>1, InstallApart
    <3>2. d \in 1 .. e /\ e # d
      BY <1>3, <3>1 DEF Members
    <3>3. QED  BY <1>1, <1>6, <1>7, <1>9, <3>2 DEF Staged
  <2>2. d \in 1 .. d /\ InstallOf(d) \in Installs
    BY <1>1, <1>3
  <2>3. \A e \in Members : e \in notifier' => IdleOf(e) \notin Idles' /\ Leader(e) \in Live'
    BY <1>6, <1>7, <1>9, <2>2 DEF Staged
  <2>4. /\ notifier' \subseteq Members
        /\ \A x \in Installs' : \E e \in Members \ {0} : x = InstallOf(e)
        /\ \A x, y \in Installs' : x = y
    BY <1>6, <1>8, <1>9 DEF Staged
  <2>5. QED  BY <1>7, <1>9, <1>12, <1>13, <2>1, <2>3, <2>4 DEF Staged
<1>15. Draining'
  BY <1>6, <1>7, <1>9, <1>12, DrainingFrame
<1>16. Preparing' /\ Spiking'
  BY <1>6, <1>7, <1>9, PreparingFrame, SpikingFrame DEF Ended
<1>17. QED  BY <1>10, <1>11, <1>14, <1>15, <1>16

----------------------------------------------------------------------------
(* Draining *)

\* Core c stops accepting spikes: its words become r, its tail sums its spikes
\* or already schedules, and a leader's idle message is taken with it.
ClosesCore(c, rest, r) ==
    /\ pu' = [pu EXCEPT ![c] = r] /\ r.spikeOn = FALSE
    /\ r.counter = pu[c].counter /\ r.drained = pu[c].drained /\ r.prepared = pu[c].prepared
    /\ r.step = pu[c].step /\ r.prep = pu[c].prep /\ r.s8 = pu[c].s8
    /\ TailTo(c, rest) /\ Here(c) = {}
    /\ UNCHANGED <<memory, notifier, halted, window, drain, queue, adding>>
    /\ \A x \in net' : x.to \in PUs
    /\ Boots' = Boots /\ Readies' = Readies /\ Works' = Works /\ Reports' = Reports
    /\ Installs' = Installs /\ Prepares' = Prepares /\ Endings' = Endings
    /\ \/ \E d \in Members : c = Leader(d) /\ IdleOf(d) \in Idles /\ Idles' = Idles \ {IdleOf(d)}
       \/ ~IsLeader(c) /\ Leader(Domain(c)) \in Shut /\ Idles' = Idles

\* A core stops accepting spikes: everything but the drain itself.
LEMMA CloseInv ==
    ASSUME Proper, Inv, AllUpdated, NEW c \in Live, NEW rest \in {"count", "schedule"}, NEW r \in Words,
           ClosesCore(c, rest, r)
    PROVE  /\ Typing' /\ Cores' /\ Booting' /\ Updating' /\ Reporting'
           /\ Staged' /\ Preparing' /\ Spiking'
           /\ Now' = Now /\ Waiting = {} /\ Waiting' = {} /\ AllUpdated'
           /\ Live' = Live \ {c} /\ Shut' = Shut \cup {c} /\ c \notin Shut /\ c \notin Counting
           /\ Counting' = Counting \cup (IF rest = "count" THEN {c} ELSE {})
<1> USE DEF Inv, ClosesCore
<1>1. /\ c \in PUs /\ 1 \in PUs /\ pu[c].spikeOn
      /\ pu[c].step = Now /\ pu[c].prep = <<Now, PrepDone>> /\ Tails[c] = "none"
  BY Basics DEF Live, Cores, Core
<1>2. /\ pu'[c] = r /\ \A q \in PUs : q # c => pu'[q] = pu[q]
      /\ Tails'[c] = rest /\ \A q \in PUs : q # c => Tails'[q] = Tails[q]
      /\ OneTail'
  <2>1. OneTail /\ rest \in Rests
    BY DEF Typing, Rests
  <2>2. OneTail' /\ Tails'[c] = rest /\ \A q \in PUs : q # c => Tails'[q] = Tails[q]
    BY <1>1, <2>1, TailStep
  <2>3. QED  BY <1>1, <2>2 DEF Typing
<1>3. \A q \in PUs : /\ pu'[q].prep = pu[q].prep /\ pu'[q].step = pu[q].step /\ pu'[q].s8 = pu[q].s8
                     /\ pu'[q].counter = pu[q].counter /\ pu'[q].drained = pu[q].drained
                     /\ pu'[q].prepared = pu[q].prepared
  BY <1>2
<1>4. Now' = Now
  BY <1>1, <1>3 DEF Now
<1>5. Waiting = {}
  BY Quiet
<1>6. Waiting' = {}
  <2>1. \A q \in PUs : q # c => (q \in Waiting' <=> q \in Waiting)
    BY <1>2, <1>4 DEF Waiting, Aim
  <2>2. Now + 1 # Now
    <3>1. pu[1] \in Words
      BY <1>1 DEF Typing
    <3>2. Now \in Int
      BY <3>1, Basics DEF Now, Words
    <3>3. QED  BY <3>2
  <2>3. c \notin Waiting'
    BY <1>1, <1>2, <1>3, <1>4, <2>2 DEF Waiting, Aim
  <2>4. QED  BY <1>5, <2>1, <2>3 DEF Waiting
<1>7. Live' = Live \ {c}
  BY <1>1, <1>2 DEF Live
<1>8. Shut' = Shut \cup {c} /\ c \notin Shut
  BY <1>1, <1>5, <1>6, <1>7 DEF Shut
<1>9. c \notin Counting /\ Counting' = Counting \cup (IF rest = "count" THEN {c} ELSE {})
  BY <1>1, <1>2 DEF Counting
<1>10. Typing'
  <2>1. pu' \in [PUs -> Words]
    BY DEF Typing
  <2>2. QED  BY <1>2, <1>3, <2>1 DEF Typing
<1>11. Cores'
  <2>1. Core(c)'
    BY <1>1, <1>2, <1>3, <1>4, <1>7 DEF Cores, Core, Reached, Aim
  <2>2. ASSUME NEW p \in PUs, p # c
        PROVE  Core(p)'
    <3>1. /\ pu'[p] = pu[p] /\ window'[p] = window[p] /\ Tails'[p] = Tails[p]
          /\ p \in Live' <=> p \in Live
          /\ p \in Shut' <=> p \in Shut
      BY <1>2, <1>7, <1>8, <2>2
    <3>2. QED  BY <1>4, <3>1 DEF Cores, Core, Aim
  <2>3. QED  BY <2>1, <2>2 DEF Cores
<1>12. Waiting' = Waiting
  BY <1>5, <1>6
<1>13. Booting' /\ Reporting' /\ (AllUpdated' <=> AllUpdated)
  BY <1>3, <1>4, <1>12, BootingFrame, ReportingFrame, ReportedFrame
<1>14. Updating'
  <2>1. Works = {}
    BY Quiet
  <2>2. QED  BY <2>1 DEF Updating
<1>15. Preparing'
  BY <1>3, <1>4, <1>12, PreparingFrame DEF Ended
<1>16. \A e \in Members : Leader(e) = c => IdleOf(e) \in Idles /\ Idles' = Idles \ {IdleOf(e)}
  BY Domains
<1>17. Staged'
  <2>1. ASSUME NEW e \in Members, NEW k \in 1 .. e, InstallOf(k) \in Installs'
        PROVE  e \notin notifier' /\ IdleOf(e) \notin Idles' /\ Leader(e) \in Live'
    BY <1>7, <1>16, <2>1 DEF Staged
  <2>2. ASSUME NEW e \in Members, e \in notifier'
        PROVE  IdleOf(e) \notin Idles' /\ Leader(e) \in Live'
    BY <1>7, <1>16, <2>2 DEF Staged
  <2>3. ASSUME NEW e \in Members, IdleOf(e) \in Idles'
        PROVE  Leader(e) \in Live'
    BY <1>7, <1>16, <2>3 DEF Staged
  <2>4. \A p \in Shut' : Leader(Domain(p)) \in Shut'
    <3>1. Leader(Domain(c)) \in Shut \cup {c}
      BY Domains
    <3>2. QED  BY <1>8, <3>1 DEF Staged
  <2>5. \A x \in Idles' : \E d \in Members : x = IdleOf(d)
    BY DEF Staged
  <2>6. QED  BY <1>13, <2>1, <2>2, <2>3, <2>4, <2>5 DEF Staged
<1>18. Spiking'
  <2>1. ASSUME NEW s \in memory
        PROVE  Leader(Domain(s.to[1])) # c /\ IdleOf(Domain(s.to[1])) \notin Idles'
    <3>1. Domain(s.to[1]) \in Members
      BY Domains, NeuronOf DEF Spiking, Spike
    <3>2. IdleOf(Domain(s.to[1])) \notin Idles
      BY DEF Spiking
    <3>3. QED  BY <1>16, <3>1, <3>2
  <2>2. \A q \in PUs : Here(q)' = Here(q)
    BY DEF Here
  <2>3. QED  BY <1>4, <1>8, <2>1, <2>2 DEF Spiking
<1>19. QED
  BY <1>4, <1>5, <1>6, <1>7, <1>8, <1>9, <1>10, <1>11, <1>13, <1>14, <1>15, <1>17, <1>18

\* The tree drain closes a core and goes on to its children in the domain.
LEMMA FanOutInv ==
    ASSUME Proper, Inv, drain = "tree", NEW c \in Live, NEW m \in net,
           \/ \E d \in Members : c = Leader(d) /\ m = IdleOf(d)
           \/ ~IsLeader(c) /\ Parent(c) \in Shut /\ m = Down(c),
           pu' = [pu EXCEPT ![c] = Closed(pu[c])], TailTo(c, "count"),
           net' = (net \ {m}) \cup {Drain(c, x, 0, 0) : x \in DrainChildren(c)}, Here(c) = {},
           UNCHANGED <<memory, notifier, halted, window, drain, queue, adding>>
    PROVE  Inv'
<1> USE DEF Inv
<1>1. /\ c \in PUs /\ pu[c] \in Words /\ pu[c].spikeOn
      /\ Tree /\ AllUpdated
  <2>1. c \in PUs /\ pu[c].spikeOn
    BY DEF Live
  <2>2. m \in Idles \/ m \in Closings
    BY StageIs DEF Idles, Closings, Of
  <2>3. QED  BY <2>1, <2>2 DEF Typing, Draining, Staged
<1>2. \A x \in DrainChildren(c) : Drain(c, x, 0, 0) = Down(x) /\ Parent(x) = c /\ ~IsLeader(x) /\ x \in PUs
  <2>1. \A x \in DrainChildren(c) : x \in StartChildren(c) /\ ~IsLeader(x)
    BY <1>1, DrainTree
  <2>2. \A x \in DrainChildren(c) : x \in Others /\ Parent(x) = c
    BY <1>1, <2>1, Children
  <2>3. QED  BY <2>1, <2>2 DEF Drain, Down, Others
<1>3. \A x : x \in net' <=> (x \in net /\ x # m) \/ \E y \in DrainChildren(c) : x = Down(y)
  BY <1>2
<1>4. PICK r : r = Closed(pu[c])
  OBVIOUS
<1>5. /\ r \in Words /\ r.spikeOn = FALSE
      /\ r.counter = pu[c].counter /\ r.drained = pu[c].drained /\ r.prepared = pu[c].prepared
      /\ r.step = pu[c].step /\ r.prep = pu[c].prep /\ r.s8 = pu[c].s8
  BY <1>1, <1>4 DEF Closed, Words
<1>6. /\ m.handler \in {"termination_idle", "termination_drain"}
      /\ \A y : Down(y).handler = "termination_drain"
  BY StageIs
<1>7. /\ \A x : x \in Closings' <=> (x \in Closings /\ x # m) \/ \E y \in DrainChildren(c) : x = Down(y)
      /\ Idles' = Idles \ {m}
  BY <1>3, <1>6 DEF Of, Closings, Idles
<1>8. /\ Boots' = Boots /\ Readies' = Readies /\ Works' = Works /\ Reports' = Reports
      /\ Installs' = Installs /\ Prepares' = Prepares /\ Endings' = Endings /\ Finals' = Finals
  <2>1. Boots' = Boots /\ Readies' = Readies /\ Works' = Works /\ Reports' = Reports
    BY <1>3, <1>6 DEF Of, Boots, Readies, Works, Reports
  <2>2. Installs' = Installs /\ Prepares' = Prepares /\ Endings' = Endings /\ Finals' = Finals
    BY <1>3, <1>6 DEF Of, Installs, Prepares, Endings, Finals
  <2>3. QED  BY <2>1, <2>2
<1>9. \A x \in net' : x.to \in PUs
  BY <1>2, <1>3, StageIs DEF Typing
<1>10. \/ \E d \in Members : c = Leader(d) /\ IdleOf(d) \in Idles /\ Idles' = Idles \ {IdleOf(d)}
       \/ ~IsLeader(c) /\ Leader(Domain(c)) \in Shut /\ Idles' = Idles
  <2>1. CASE \E d \in Members : c = Leader(d) /\ m = IdleOf(d)
    BY <1>7, <2>1, StageIs DEF Idles, Of
  <2>2. CASE ~IsLeader(c) /\ Parent(c) \in Shut /\ m = Down(c)
    <3>1. Domain(Parent(c)) = Domain(c)
      BY <1>1, <2>2, SameDomain
    <3>2. Leader(Domain(c)) \in Shut
      BY <2>2, <3>1 DEF Staged
    <3>3. m \notin Idles
      BY <2>2, StageIs DEF Idles, Of
    <3>4. QED  BY <1>7, <2>2, <3>2, <3>3
  <2>3. QED  BY <2>1, <2>2
<1>11. /\ Typing' /\ Cores' /\ Booting' /\ Updating' /\ Reporting'
       /\ Staged' /\ Preparing' /\ Spiking'
       /\ Waiting = {} /\ Waiting' = {} /\ Live' = Live \ {c} /\ Shut' = Shut \cup {c} /\ c \notin Shut
       /\ Counting' = Counting \cup {c} /\ c \notin Counting
  <2>1. ClosesCore(c, "count", r)
    BY <1>4, <1>5, <1>8, <1>9, <1>10 DEF ClosesCore
  <2>2. r \in Words /\ AllUpdated
    BY <1>1, <1>5
  <2>3. QED  BY <2>1, <2>2, CloseInv
<1>12. \A p \in PUs : pu'[p].drained = pu[p].drained
  BY <1>1, <1>4, <1>5 DEF Typing
<1>13. Drained' = Drained
  <2>1. \A q : (\A x \in Closings' : x.from = q => x.args[2] = 0) <=> (\A x \in Closings : x.from = q => x.args[2] = 0)
    <3>1. \A y : Down(y).args[2] = 0
      BY StageIs
    <3>2. m \in Closings => m.args[2] = 0
      BY <3>1, StageIs DEF Closings, Of
    <3>3. QED  BY <1>7, <3>1, <3>2
  <2>2. QED  BY <1>11, <1>12, <2>1 DEF Drained, Others
<1>14. \A x \in DrainChildren(c) : x \in Live' /\ ~IsLeader(x)
  <2>1. ASSUME NEW x \in DrainChildren(c)
        PROVE  x \notin Shut /\ x # c
    <3>1. x \in Shut => Parent(x) \in Shut
      BY <1>1, <1>2 DEF Tree
    <3>2. x # c
      BY <1>1, <1>2, SameDomain, ParentOf DEF PUs
    <3>3. QED  BY <1>2, <1>11, <3>1, <3>2
  <2>2. QED  BY <1>2, <1>11, <2>1 DEF Shut
<1>15. Tree'
  <2>1. ASSUME NEW x \in Closings'
        PROVE  \/ \E y \in Live' : x = Down(y) /\ ~IsLeader(y) /\ Parent(y) \in Shut'
               \/ \E y \in Others : /\ x = Up(y, x.args[1]) /\ x.args[1] \in Nat
                                    /\ y \notin Waiting' /\ pu'[y].drained = SubtreeSize(y)
    <3>1. CASE \E y \in DrainChildren(c) : x = Down(y)
      BY <1>2, <1>11, <1>14, <3>1
    <3>2. CASE x \in Closings /\ x # m
      <4>1. CASE \E y \in Live : x = Down(y) /\ ~IsLeader(y) /\ Parent(y) \in Shut
        <5>1. PICK y \in Live : x = Down(y) /\ ~IsLeader(y) /\ Parent(y) \in Shut
          BY <4>1
        <5>2. y # c
          <6>1. y = c => Parent(c) \in Shut /\ ~IsLeader(c)
            BY <5>1
          <6>2. \A d \in Members : IsLeader(Leader(d))
            BY Domains
          <6>3. QED  BY <3>2, <5>1, <6>1, <6>2
        <5>3. QED  BY <1>11, <5>1, <5>2
      <4>2. CASE \E y \in Others : /\ x = Up(y, x.args[1]) /\ x.args[1] \in Nat
                                   /\ y \notin Waiting /\ pu[y].drained = SubtreeSize(y)
        BY <1>11, <1>12, <4>2 DEF Others
      <4>3. QED  BY <1>1, <3>2, <4>1, <4>2 DEF Tree
    <3>3. QED  BY <1>7, <2>1, <3>1, <3>2
  <2>2. ASSUME NEW x \in Closings', NEW y \in Closings', x.from = y.from, x.args[2] # 0, y.args[2] # 0
        PROVE  x = y
    <3>1. \A z : Down(z).args[2] = 0
      BY StageIs
    <3>2. x \in Closings /\ y \in Closings
      BY <1>7, <2>2, <3>1
    <3>3. QED  BY <1>1, <2>2, <3>2 DEF Tree
  <2>3. Shut' \ Counting' = Shut \ Counting
    BY <1>11
  <2>4. \A p \in PUs : p \notin Waiting' =>
            pu'[p].drained = Cardinality(Tally(p, Shut' \ Counting', Drained'))
    BY <1>1, <1>11, <1>12, <1>13, <2>3 DEF Tree
  <2>5. ASSUME NEW x \in Shut', ~IsLeader(x)
        PROVE  Parent(x) \in Shut'
    <3>1. CASE x = c
      BY <1>11, <2>5, <3>1, Domains
    <3>2. CASE x # c
      BY <1>1, <1>11, <2>5, <3>2 DEF Tree
    <3>3. QED  BY <3>1, <3>2
  <2>6. \A x \in Finals' : x = Final(0, x.args[1]) /\ x.args[1] \in Nat /\ pu'[1].drained = NumPU
    BY <1>1, <1>8, <1>12, Basics DEF Tree
  <2>7. \A x, y \in Finals' : x = y
    BY <1>1, <1>8 DEF Tree
  <2>8. Counting' \subseteq Shut'
    BY <1>1, <1>11 DEF Tree
  <2>9. QED  BY <2>1, <2>2, <2>4, <2>5, <2>6, <2>7, <2>8 DEF Tree
<1>16. Draining'
  BY <1>15 DEF Draining
<1>17. QED  BY <1>11, <1>16

\* The reverse drain closes a core and goes on from the last core of its
\* domain to the first.
LEMMA BackInv ==
    ASSUME Proper, Inv, drain = "reverse", NEW c \in Live, NEW m \in net, NEW to, NEW k \in Nat,
           \/ /\ \E d \in Members : c = Leader(d) /\ m = IdleOf(d)
              /\ to = c + DomainSize - 1
           \/ ~IsLeader(c) /\ m \in Closings /\ m.to = c /\ to = c - 1,
           NEW f \in Nat, pu' = [pu EXCEPT ![c] = [Closed(pu[c]) EXCEPT !.fired = f]],
           TailTo(c, "schedule"),
           net' = (net \ {m}) \cup {Drain(c, to, k, 0)}, Here(c) = {},
           UNCHANGED <<memory, notifier, halted, window, drain, queue, adding>>
    PROVE  Inv'
<1> USE DEF Inv
<1>1. PICK r : r = [Closed(pu[c]) EXCEPT !.fired = f]
  OBVIOUS
<1>2. /\ c \in PUs /\ pu[c] \in Words /\ pu[c].spikeOn
      /\ Reverse /\ AllUpdated
  <2>1. c \in PUs /\ pu[c].spikeOn
    BY DEF Live
  <2>2. m \in Idles \/ m \in Closings
    BY StageIs DEF Idles, Of
  <2>3. QED  BY <2>1, <2>2 DEF Typing, Draining, Staged
<1>3. /\ r \in Words /\ r.spikeOn = FALSE
      /\ r.counter = pu[c].counter /\ r.drained = pu[c].drained /\ r.prepared = pu[c].prepared
      /\ r.step = pu[c].step /\ r.prep = pu[c].prep /\ r.s8 = pu[c].s8
  BY <1>1, <1>2 DEF Closed, Words
<1>4. PICK x : /\ x = Drain(c, to, k, 0) /\ x.handler = "termination_drain" /\ x.to = to /\ x.args = <<k, 0>>
  BY MsgIs DEF Drain
<1>5. PICK e \in Members : e = Domain(c) /\ Leader(e) \in PUs
  BY <1>2, Domains
<1>6. to \in PUs /\ Domain(to) = e
  <2>1. CASE c = Leader(e) /\ to = c + DomainSize - 1
    <3>1. to \in Leader(e) .. Leader(e) + DomainSize - 1
      BY <2>1, <1>5, DomainSizes DEF PUs
    <3>2. QED  BY <1>5, <3>1, Domains
  <2>2. CASE ~IsLeader(c) /\ to = c - 1
    BY <1>2, <1>5, <2>2, SameDomain
  <2>3. QED  BY <1>5, <2>1, <2>2, Domains
<1>7. m.handler \in {"termination_idle", "termination_drain"}
  BY StageIs DEF Closings, Of
<1>8. Closings' = (Closings \ {m}) \cup {x} /\ Idles' = Idles \ {m}
  BY <1>4, <1>7 DEF Of, Closings, Idles
<1>9. /\ Boots' = Boots /\ Readies' = Readies /\ Works' = Works /\ Reports' = Reports
      /\ Installs' = Installs /\ Prepares' = Prepares /\ Endings' = Endings /\ Finals' = Finals
  <2>1. Boots' = Boots /\ Readies' = Readies /\ Works' = Works /\ Reports' = Reports
    BY <1>4, <1>7 DEF Of, Boots, Readies, Works, Reports
  <2>2. Installs' = Installs /\ Prepares' = Prepares /\ Endings' = Endings /\ Finals' = Finals
    BY <1>4, <1>7 DEF Of, Installs, Prepares, Endings, Finals
  <2>3. QED  BY <2>1, <2>2
<1>10. \A y \in net' : y.to \in PUs
  BY <1>4, <1>6 DEF Typing
<1>11. \/ \E d \in Members : c = Leader(d) /\ IdleOf(d) \in Idles /\ Idles' = Idles \ {IdleOf(d)}
       \/ ~IsLeader(c) /\ Leader(Domain(c)) \in Shut /\ Idles' = Idles
  <2>1. CASE \E d \in Members : c = Leader(d) /\ m = IdleOf(d)
    BY <1>8, <2>1, StageIs DEF Idles, Of
  <2>2. CASE ~IsLeader(c) /\ m \in Closings /\ m.to = c
    <3>1. Leader(Domain(c)) \in Shut
      BY <1>2, <2>2 DEF Reverse
    <3>2. m \notin Idles
      BY <2>2 DEF Idles, Closings, Of
    <3>3. QED  BY <1>8, <2>2, <3>1, <3>2
  <2>3. QED  BY <2>1, <2>2
<1>12. /\ Typing' /\ Cores' /\ Booting' /\ Updating' /\ Reporting'
       /\ Staged' /\ Preparing' /\ Spiking' /\ AllUpdated'
       /\ Waiting = {} /\ Waiting' = {} /\ Live' = Live \ {c} /\ Shut' = Shut \cup {c} /\ c \notin Shut
       /\ Counting' = Counting
  <2>1. ClosesCore(c, "schedule", r)
    BY <1>1, <1>3, <1>9, <1>10, <1>11 DEF ClosesCore
  <2>2. r \in Words /\ AllUpdated
    BY <1>2, <1>3
  <2>3. QED  BY <2>1, <2>2, CloseInv
<1>13. \A q \in PUs : Domain(q) = e /\ ~IsLeader(q) => (q \in Shut' <=> q > to)
  <2>1. CASE c = Leader(e) /\ to = c + DomainSize - 1
    <3>1. \A q \in PUs : Domain(q) = e => ~ (q > to)
      BY <2>1, <1>2, Domains, DomainSizes DEF PUs
    <3>2. \A q \in PUs : Domain(q) = e => q \notin Shut
      BY <1>12, <2>1 DEF Staged
    <3>3. IsLeader(c)
      BY <1>5, <2>1, Domains
    <3>4. QED  BY <1>12, <3>1, <3>2, <3>3
  <2>2. CASE ~IsLeader(c) /\ m \in Closings /\ m.to = c /\ to = c - 1
    <3>1. \A q \in PUs : Domain(q) = e /\ ~IsLeader(q) => (q \in Shut <=> q > c)
      BY <1>2, <1>5, <2>2 DEF Reverse
    <3>2. \A q \in PUs : q > c - 1 <=> q = c \/ q > c
      BY <1>2 DEF PUs
    <3>3. QED  BY <1>12, <2>2, <3>1, <3>2
  <2>3. \A d \in Members : Domain(Leader(d)) = d
    BY Domains
  <2>4. QED  BY <1>5, <2>1, <2>2, <2>3
<1>14. /\ Leader(e) \in Shut'
       /\ \A y \in Closings : y # m => Domain(y.to) # e
       /\ \A y \in Finals : y.from # Leader(e)
       /\ e \notin Gone
  <2>1. CASE c = Leader(e)
    <3>1. Leader(e) \in Shut' /\ Leader(e) \notin Shut
      BY <1>12, <2>1
    <3>2. \A y \in Closings : Domain(y.to) # e
      BY <1>2, <3>1 DEF Reverse
    <3>3. \A y \in Finals : y.from # Leader(e)
      <4>1. ASSUME NEW y \in Finals, y.from = Leader(e)
            PROVE  FALSE
        <5>1. Leader(Domain(Leader(e))) = y.from
          BY <1>5, <4>1, Domains
        <5>2. QED  BY <1>2, <1>5, <3>1, <5>1 DEF Reverse
      <4>2. QED  BY <4>1
    <3>4. QED  BY <3>1, <3>2, <3>3 DEF Gone
  <2>2. CASE ~IsLeader(c) /\ m \in Closings /\ m.to = c
    <3>1. Leader(e) \in Shut
      BY <1>2, <1>5, <2>2 DEF Reverse
    <3>2. \A y \in Closings : y # m => Domain(y.to) # e
      BY <1>2, <1>5, <2>2 DEF Reverse
    <3>3. \A y \in Finals : y.from # Leader(e)
      BY <1>2, <1>5, <2>2 DEF Reverse
    <3>4. QED  BY <1>5, <1>12, <2>2, <3>1, <3>2, <3>3 DEF Gone
  <2>3. \A d \in Members : Domain(Leader(d)) = d
    BY Domains
  <2>4. QED  BY <1>5, <2>1, <2>2, <2>3
<1>15. \A d \in Members : d # e => Leader(d) # c
  BY <1>5, Domains
<1>16. m \in Closings => Domain(m.to) = e
  BY <1>5, StageIs DEF Closings, Of
<1>17. Gone' = Gone
  <2>1. e \notin Gone'
    BY <1>4, <1>6, <1>8 DEF Gone
  <2>2. ASSUME NEW d \in Members, d # e
        PROVE  d \in Gone' <=> d \in Gone
    <3>1. Leader(d) \in Shut' <=> Leader(d) \in Shut
      BY <1>12, <1>15, <2>2
    <3>2. (\A y \in Closings' : Domain(y.to) # d) <=> (\A y \in Closings : Domain(y.to) # d)
      BY <1>4, <1>6, <1>8, <1>16, <2>2
    <3>3. QED  BY <1>9, <3>1, <3>2 DEF Gone
  <2>3. QED  BY <1>14, <2>1, <2>2 DEF Gone
<1>18. Reverse'
  <2>1. ASSUME NEW y \in Closings'
        PROVE  /\ y.args \in Nat \X {0}
               /\ Leader(Domain(y.to)) \in Shut'
               /\ \A q \in PUs : Domain(q) = Domain(y.to) /\ ~IsLeader(q) => (q \in Shut' <=> q > y.to)
    <3>1. CASE y = x
      <4>1. y.args \in Nat \X {0}
        <5>1. <<k, 0>> \in Nat \X {0}
          OBVIOUS
        <5>2. y.args = <<k, 0>>
          BY <1>4, <3>1
        <5>3. QED  BY <5>1, <5>2
      <4>2. y.to = to /\ Domain(y.to) = e
        BY <1>4, <1>6, <3>1
      <4>3. QED  BY <1>13, <1>14, <4>1, <4>2
    <3>2. CASE y \in Closings /\ y # m
      <4>1. Domain(y.to) # e
        BY <1>14, <3>2
      <4>2. \A q \in PUs : Domain(q) = Domain(y.to) => (q \in Shut' <=> q \in Shut)
        BY <1>5, <1>12, <4>1
      <4>3. QED  BY <1>2, <1>12, <3>2, <4>2 DEF Reverse
    <3>3. QED  BY <1>8, <3>1, <3>2
  <2>2. ASSUME NEW y \in Finals'
        PROVE  /\ y.args[1] \in Nat
               /\ \E d \in Members : y = Final(d, y.args[1])
               /\ \A q \in PUs : Leader(Domain(q)) = y.from => q \in Shut'
    BY <1>2, <1>9, <1>12 DEF Reverse
  <2>3. \A y, z \in Closings' : Domain(y.to) = Domain(z.to) => y = z
    BY <1>2, <1>4, <1>6, <1>8, <1>14 DEF Reverse
  <2>4. \A y, z \in Finals' : y.from = z.from => y = z
    BY <1>2, <1>9 DEF Reverse
  <2>5. \A y \in Closings', z \in Finals' : z.from # Leader(Domain(y.to))
    BY <1>2, <1>4, <1>6, <1>8, <1>9, <1>14 DEF Reverse
  <2>6. \A q \in PUs : Domain(q) \in Gone' => q \in Shut'
    BY <1>2, <1>12, <1>17 DEF Reverse
  <2>7. pu'[1].counter = pu[1].counter
    BY <1>1, <1>2, <1>3, Basics DEF Typing
  <2>8. AllUpdated' => pu'[1].counter = Cardinality(Gone')
    BY <1>2, <1>17, <2>7 DEF Reverse
  <2>9. \A p \in PUs : Tails'[p] # "count"
    BY <1>2, <1>12 DEF Reverse, Counting
  <2>10. QED  BY <2>1, <2>2, <2>3, <2>4, <2>5, <2>6, <2>8, <2>9 DEF Reverse
<1>19. Draining'
  BY <1>18 DEF Draining
<1>20. QED  BY <1>12, <1>19

\* A domain of one core is drained with it.
LEMMA LoneInv ==
    ASSUME Proper, Inv, drain = "reverse", NEW d \in Members, NEW c \in Live, NEW m \in net,
           c = Leader(d), m = IdleOf(d), DomainSize = 1, NEW k \in Nat,
           NEW f \in Nat, pu' = [pu EXCEPT ![c] = [Closed(pu[c]) EXCEPT !.fired = f]],
           TailTo(c, "schedule"),
           net' = (net \ {m}) \cup {DomainDone(c, k)}, Here(c) = {},
           UNCHANGED <<memory, notifier, halted, window, drain, queue, adding>>
    PROVE  Inv'
<1> USE DEF Inv
<1>1. PICK r : r = [Closed(pu[c]) EXCEPT !.fired = f]
  OBVIOUS
<1>2. /\ c \in PUs /\ pu[c] \in Words /\ pu[c].spikeOn /\ m \in Idles
      /\ Reverse /\ AllUpdated
  <2>1. c \in PUs /\ pu[c].spikeOn
    BY DEF Live
  <2>2. m \in Idles
    BY StageIs DEF Idles, Of
  <2>3. QED  BY <2>1, <2>2 DEF Typing, Draining, Staged
<1>3. /\ r \in Words /\ r.spikeOn = FALSE
      /\ r.counter = pu[c].counter /\ r.drained = pu[c].drained /\ r.prepared = pu[c].prepared
      /\ r.step = pu[c].step /\ r.prep = pu[c].prep /\ r.s8 = pu[c].s8
  BY <1>1, <1>2 DEF Closed, Words
<1>4. PICK x : /\ x = Final(d, k) /\ x = DomainDone(c, k) /\ x.handler = "termination_domain_done"
               /\ x.from = c /\ x.to = 1 /\ x.args = <<k>> /\ x.args[1] = k
  BY MsgIs DEF Final, DomainDone
<1>5. m.handler = "termination_idle"
  BY StageIs
<1>6. Finals' = Finals \cup {x} /\ Idles' = Idles \ {m} /\ Closings' = Closings
  BY <1>4, <1>5 DEF Of, Finals, Idles, Closings
<1>7. /\ Boots' = Boots /\ Readies' = Readies /\ Works' = Works /\ Reports' = Reports
      /\ Installs' = Installs /\ Prepares' = Prepares /\ Endings' = Endings
  <2>1. Boots' = Boots /\ Readies' = Readies /\ Works' = Works /\ Reports' = Reports
    BY <1>4, <1>5 DEF Of, Boots, Readies, Works, Reports
  <2>2. Installs' = Installs /\ Prepares' = Prepares /\ Endings' = Endings
    BY <1>4, <1>5 DEF Of, Installs, Prepares, Endings
  <2>3. QED  BY <2>1, <2>2
<1>8. \A y \in net' : y.to \in PUs
  BY <1>4, Basics DEF Typing
<1>9. /\ Typing' /\ Cores' /\ Booting' /\ Updating' /\ Reporting'
      /\ Staged' /\ Preparing' /\ Spiking' /\ AllUpdated'
      /\ Live' = Live \ {c} /\ Shut' = Shut \cup {c} /\ c \notin Shut
      /\ Counting' = Counting
  <2>1. ClosesCore(c, "schedule", r)
    BY <1>1, <1>2, <1>3, <1>6, <1>7, <1>8 DEF ClosesCore
  <2>2. r \in Words /\ AllUpdated
    BY <1>2, <1>3
  <2>3. QED  BY <2>1, <2>2, CloseInv
<1>10. /\ \A y \in Closings : Leader(Domain(y.to)) # c
       /\ \A y \in Finals : y.from # c
  <2>1. ASSUME NEW y \in Finals, y.from = c
        PROVE  FALSE
    <3>1. Leader(Domain(c)) = y.from
      BY <2>1, Domains
    <3>2. QED  BY <1>2, <1>9, <3>1 DEF Reverse
  <2>2. QED  BY <1>2, <1>9, <2>1 DEF Reverse
<1>11. \A e \in Members : Leader(e) = c <=> e = d
  BY Domains
<1>12. Gone' = Gone
  <2>1. d \notin Gone' /\ d \notin Gone
    BY <1>4, <1>6, <1>9 DEF Gone
  <2>2. ASSUME NEW e \in Members, e # d
        PROVE  e \in Gone' <=> e \in Gone
    <3>1. Leader(e) # c
      BY <1>11, <2>2
    <3>2. Leader(e) \in Shut' <=> Leader(e) \in Shut
      BY <1>9, <3>1
    <3>3. (\A y \in Finals' : y.from # Leader(e)) <=> (\A y \in Finals : y.from # Leader(e))
      BY <1>4, <1>6, <3>1
    <3>4. QED  BY <1>6, <3>2, <3>3 DEF Gone
  <2>3. QED  BY <2>1, <2>2 DEF Gone
<1>13. Reverse'
  <2>1. ASSUME NEW y \in Closings'
        PROVE  /\ y.args \in Nat \X {0}
               /\ Leader(Domain(y.to)) \in Shut'
               /\ \A q \in PUs : Domain(q) = Domain(y.to) /\ ~IsLeader(q) => (q \in Shut' <=> q > y.to)
    <3>1. IsLeader(c)
      BY Domains
    <3>2. QED  BY <1>2, <1>6, <1>9, <3>1 DEF Reverse
  <2>2. ASSUME NEW y \in Finals'
        PROVE  /\ y.args[1] \in Nat
               /\ \E e \in Members : y = Final(e, y.args[1])
               /\ \A q \in PUs : Leader(Domain(q)) = y.from => q \in Shut'
    <3>1. CASE y = x
      <4>1. \A q \in PUs : Leader(Domain(q)) = c => q = c
        BY Domains, <1>2 DEF PUs
      <4>2. QED  BY <1>4, <1>9, <3>1, <4>1
    <3>2. CASE y \in Finals
      BY <1>2, <1>9, <3>2 DEF Reverse
    <3>3. QED  BY <1>6, <3>1, <3>2
  <2>3. \A y, z \in Closings' : Domain(y.to) = Domain(z.to) => y = z
    BY <1>2, <1>6 DEF Reverse
  <2>4. \A y, z \in Finals' : y.from = z.from => y = z
    BY <1>2, <1>4, <1>6, <1>10 DEF Reverse
  <2>5. \A y \in Closings', z \in Finals' : z.from # Leader(Domain(y.to))
    BY <1>2, <1>4, <1>6, <1>10 DEF Reverse
  <2>6. \A q \in PUs : Domain(q) \in Gone' => q \in Shut'
    BY <1>2, <1>9, <1>12 DEF Reverse
  <2>7. pu'[1].counter = pu[1].counter
    BY <1>1, <1>2, <1>3, Basics DEF Typing
  <2>8. AllUpdated' => pu'[1].counter = Cardinality(Gone')
    BY <1>2, <1>12, <2>7 DEF Reverse
  <2>9. \A p \in PUs : Tails'[p] # "count"
    BY <1>2, <1>9 DEF Reverse, Counting
  <2>10. QED  BY <2>1, <2>2, <2>3, <2>4, <2>5, <2>6, <2>8, <2>9 DEF Reverse
<1>14. Draining'
  BY <1>13 DEF Draining
<1>15. QED  BY <1>9, <1>14

\* The reverse drain is back at the first core of the domain.
LEMMA CollectInv ==
    ASSUME Proper, Inv, drain = "reverse", NEW m \in Closings, IsLeader(m.to),
           pu' = pu, net' = (net \ {m}) \cup {DomainDone(m.to, m.args[1])},
           UNCHANGED <<memory, notifier, tail, halted, window, drain, queue, adding>>
    PROVE  Inv'
<1> USE DEF Inv
<1>1. /\ m \in net /\ m.handler = "termination_drain" /\ m.to \in PUs /\ m.args[1] \in Nat
      /\ Reverse /\ AllUpdated
  <2>1. m \in net /\ m.handler = "termination_drain"
    BY DEF Closings, Of
  <2>2. Reverse /\ AllUpdated
    BY DEF Draining, Staged
  <2>3. m.args \in Nat \X {0}
    BY <2>2 DEF Reverse
  <2>4. m.args[1] \in Nat
    BY <2>3
  <2>5. QED  BY <2>1, <2>2, <2>4 DEF Typing
<1>2. PICK d \in Members : d = Domain(m.to) /\ m.to = Leader(d) /\ Leader(d) \in Shut
  BY <1>1, Domains DEF Reverse
<1>3. PICK x : /\ x = Final(d, m.args[1]) /\ x = DomainDone(m.to, m.args[1])
               /\ x.handler = "termination_domain_done"
               /\ x.from = Leader(d) /\ x.to = 1 /\ x.args[1] = m.args[1]
  BY <1>2, StageIs DEF Final, DomainDone
<1>4. Now' = Now /\ Waiting' = Waiting /\ Live' = Live /\ Shut' = Shut
  BY Still
<1>5. /\ Closings' = Closings \ {m} /\ Finals' = Finals \cup {x}
      /\ Boots' = Boots /\ Readies' = Readies /\ Works' = Works /\ Reports' = Reports
      /\ Installs' = Installs /\ Idles' = Idles /\ Prepares' = Prepares /\ Endings' = Endings
  <2>1. Boots' = Boots /\ Readies' = Readies /\ Works' = Works /\ Reports' = Reports
    BY <1>1, <1>3 DEF Of, Boots, Readies, Works, Reports
  <2>2. Installs' = Installs /\ Idles' = Idles /\ Prepares' = Prepares /\ Endings' = Endings
    BY <1>1, <1>3 DEF Of, Installs, Idles, Prepares, Endings
  <2>3. Closings' = Closings \ {m} /\ Finals' = Finals \cup {x}
    BY <1>1, <1>3 DEF Of, Closings, Finals
  <2>4. QED  BY <2>1, <2>2, <2>3
<1>6. Typing'
  BY <1>3, Basics, TailsSame DEF Typing
<1>7. Cores' /\ Booting' /\ Updating' /\ Reporting' /\ (AllUpdated' <=> AllUpdated)
  BY <1>4, <1>5, CoresFrame, BootingFrame, UpdatingFrame, ReportingFrame, ReportedFrame
<1>8. Staged'
  BY <1>1, <1>4, <1>5, <1>7 DEF Staged
<1>9. Preparing' /\ Spiking'
  BY <1>4, <1>5, PreparingFrame, SpikingFrame DEF Ended
<1>10. \A e \in Members : Leader(e) = Leader(d) <=> e = d
  BY Domains
<1>11. \A y \in Closings : Domain(y.to) = d => y = m
  BY <1>1, <1>2 DEF Reverse
<1>12. \A y \in Finals : y.from # Leader(d)
  BY <1>1, <1>2 DEF Reverse
<1>13. Gone' = Gone
  <2>1. d \notin Gone' /\ d \notin Gone
    BY <1>2, <1>3, <1>5 DEF Gone
  <2>2. ASSUME NEW e \in Members, e # d
        PROVE  e \in Gone' <=> e \in Gone
    <3>1. (\A y \in Closings' : Domain(y.to) # e) <=> (\A y \in Closings : Domain(y.to) # e)
      BY <1>2, <1>5, <2>2
    <3>2. (\A y \in Finals' : y.from # Leader(e)) <=> (\A y \in Finals : y.from # Leader(e))
      BY <1>3, <1>5, <1>10, <2>2
    <3>3. QED  BY <1>4, <3>1, <3>2 DEF Gone
  <2>3. QED  BY <2>1, <2>2 DEF Gone
<1>14. \A q \in PUs : Leader(Domain(q)) = Leader(d) => q \in Shut
  <2>1. ASSUME NEW q \in PUs, Leader(Domain(q)) = Leader(d)
        PROVE  q \in Shut
    <3>1. Domain(q) = d
      BY <1>10, <2>1, Domains
    <3>2. CASE IsLeader(q)
      BY <1>2, <3>1, <3>2, Domains
    <3>3. CASE ~IsLeader(q)
      <4>1. q > m.to
        <5>1. Leader(d) <= q /\ q # Leader(d)
          BY <3>1, <3>3, Domains
        <5>2. QED  BY <1>1, <1>2, <5>1 DEF PUs
      <4>2. QED  BY <1>1, <1>2, <3>1, <3>3, <4>1 DEF Reverse
    <3>4. QED  BY <3>2, <3>3
  <2>2. QED  BY <2>1
<1>15. Reverse'
  <2>1. ASSUME NEW y \in Finals'
        PROVE  /\ y.args[1] \in Nat
               /\ \E e \in Members : y = Final(e, y.args[1])
               /\ \A q \in PUs : Leader(Domain(q)) = y.from => q \in Shut'
    BY <1>1, <1>3, <1>4, <1>5, <1>14 DEF Reverse
  <2>2. \A y, z \in Finals' : y.from = z.from => y = z
    BY <1>1, <1>3, <1>5, <1>12 DEF Reverse
  <2>3. \A y \in Closings', z \in Finals' : z.from # Leader(Domain(y.to))
    <3>1. \A y \in Closings' : Domain(y.to) \in Members /\ Domain(y.to) # d
      BY <1>1, <1>5, <1>11, Domains DEF Typing, Closings, Of
    <3>2. QED  BY <1>1, <1>3, <1>5, <1>10, <3>1 DEF Reverse
  <2>4. Tails' = Tails
    BY TailsSame
  <2>5. QED  BY <1>1, <1>4, <1>5, <1>7, <1>13, <2>1, <2>2, <2>3, <2>4 DEF Reverse
<1>16. Draining'
  BY <1>15 DEF Draining
<1>17. QED  BY <1>6, <1>7, <1>8, <1>9, <1>16

\* A core of the tree drain counts itself, or the subtree of a child.
LEMMA TallyInv ==
    ASSUME Proper, Inv, drain = "tree", NEW p \in PUs, NEW n, NEW f \in Nat, NEW r, NEW M,
           r = [pu[p] EXCEPT !.fired = f, !.drained = pu[p].drained + n],
           \/ /\ \E x \in StartChildren(p), k \in Nat :
                    M = {Up(x, k)} /\ Up(x, k) \in Closings /\ n = SubtreeSize(x)
              /\ tail' = tail
           \/ M = {} /\ n = 1 /\ p \in Counting /\ TailTo(p, "schedule"),
           pu' = [pu EXCEPT ![p] = r], net' = (net \ M) \cup TreeReport(p, r),
           halted' = IF r.drained > SubtreeSize(p) THEN "fail" ELSE halted,
           UNCHANGED <<memory, notifier, window, drain, queue, adding>>
    PROVE  Inv'
<1> USE DEF Inv
<1> DEFINE Own == Shut \ Counting
<1>1. Tree /\ pu[p] \in Words
  BY DEF Draining, Typing
<1>2. \A q \in Counting : q \in Shut
  BY <1>1 DEF Tree
<1>3. AllUpdated /\ Waiting = {}
  <2>1. M # {} => Closings # {}
    OBVIOUS
  <2>2. AllUpdated
    BY <1>2, <2>1 DEF Staged
  <2>3. QED  BY <2>2, Quiet
<1>4. \A y \in Others : y \in PUs /\ SubtreeSize(y) \in Nat \ {0}
  BY Basics DEF Others
<1>5. PICK U, R :
        \/ /\ U = Own /\ tail' = tail
           /\ \E x \in StartChildren(p), k \in Nat :
                 /\ M = {Up(x, k)} /\ Up(x, k) \in Closings /\ n = SubtreeSize(x)
                 /\ R = Drained \cup {x} /\ x \notin Drained
                 /\ pu[x].drained = SubtreeSize(x) /\ x \in Others /\ x # p
        \/ /\ U = Own \cup {p} /\ R = Drained /\ p \notin Own /\ M = {} /\ n = 1 /\ p \in Counting
           /\ TailTo(p, "schedule")
  <2>1. CASE /\ \E x \in StartChildren(p), k \in Nat :
                    M = {Up(x, k)} /\ Up(x, k) \in Closings /\ n = SubtreeSize(x)
             /\ tail' = tail
    <3>1. PICK x \in StartChildren(p), k \in Nat :
                    M = {Up(x, k)} /\ Up(x, k) \in Closings /\ n = SubtreeSize(x)
      BY <2>1
    <3>2. x \in Others /\ Parent(x) = p
      BY Children
    <3>3. x # p
      BY <3>2, ParentOf DEF PUs
    <3>4. PICK u : u = Up(x, k) /\ u \in Closings /\ u.from = x /\ u.args[2] = SubtreeSize(x) /\ u.args[2] # 0
      BY <1>4, <3>1, <3>2, StageIs
    <3>5. x \notin Drained
      BY <3>4 DEF Drained
    <3>6. pu[x].drained = SubtreeSize(x)
      <4>1. CASE \E y : u = Down(y)
        BY <3>4, <4>1, StageIs
      <4>2. CASE \E y \in Others : u = Up(y, u.args[1]) /\ pu[y].drained = SubtreeSize(y)
        BY <3>4, <4>2, StageIs
      <4>3. QED  BY <1>1, <3>4, <4>1, <4>2 DEF Tree
    <3>7. QED  BY <2>1, <3>1, <3>2, <3>3, <3>5, <3>6
  <2>2. CASE M = {} /\ n = 1 /\ p \in Counting /\ TailTo(p, "schedule")
    BY <2>2
  <2>3. QED  BY <2>1, <2>2
<1>6. n \in Nat \ {0}
  BY <1>4, <1>5
<1>7. /\ Cardinality(Tally(p, U, R)) = Cardinality(Tally(p, Own, Drained)) + n
      /\ \A q \in PUs : q # p => Tally(q, U, R) = Tally(q, Own, Drained)
  <2> HIDE DEF Own
  <2>1. CASE M = {}
    <3>1. U = Own \cup {p} /\ R = Drained /\ p \notin Own /\ n = 1
      BY <1>5, <2>1
    <3>2. QED  BY <3>1, TallyOwn, TallySame
  <2>2. CASE M # {}
    <3>1. PICK x \in StartChildren(p) :
             U = Own /\ n = SubtreeSize(x) /\ R = Drained \cup {x} /\ x \notin Drained
      BY <1>5, <2>2
    <3>2. \A q \in PUs : q # p => x \notin StartChildren(q)
      BY <3>1, Children
    <3>3. \A q \in PUs : q # p => Tally(q, U, R) = Tally(q, Own, Drained)
      BY <3>1, <3>2, TallySame
    <3>4. Cardinality(Tally(p, U, R)) = Cardinality(Tally(p, Own, Drained)) + n
      BY <3>1, TallyChild
    <3>5. QED  BY <3>3, <3>4
  <2>3. QED  BY <2>1, <2>2
<1>8. PICK all : all = SubtreeSize(p) /\ all \in 1 .. NumPU
  BY Basics
<1>9. /\ r.drained = Cardinality(Tally(p, U, R)) /\ r.drained \in 0 .. all
      /\ pu[p].drained # all /\ r.drained = pu[p].drained + n
  <2>1. r.drained = pu[p].drained + n
    BY <1>1 DEF Words
  <2> HIDE DEF Own
  <2>2. pu[p].drained = Cardinality(Tally(p, Own, Drained))
    BY <1>1, <1>3 DEF Tree, Own
  <2>3. Cardinality(Tally(p, U, R)) \in 0 .. all /\ Cardinality(Tally(p, Own, Drained)) \in 0 .. all
    BY <1>8, TallySize
  <2>4. PICK x, y : x = Cardinality(Tally(p, Own, Drained)) /\ y = Cardinality(Tally(p, U, R))
    OBVIOUS
  <2>5. x \in Nat /\ y \in Nat /\ all \in Nat /\ y = x + n /\ y <= all /\ pu[p].drained = x
    BY <1>7, <1>8, <2>2, <2>3, <2>4
  <2>6. QED  BY <1>6, <2>1, <2>4, <2>5
<1>10. /\ r \in Words /\ r.fired = f
       /\ r.prep = pu[p].prep /\ r.spikeOn = pu[p].spikeOn /\ r.step = pu[p].step /\ r.s8 = pu[p].s8
       /\ r.counter = pu[p].counter /\ r.prepared = pu[p].prepared
  <2>1. r.drained \in 0 .. NumPU /\ NumPU \in Nat
    BY <1>8, <1>9, Basics
  <2>2. QED  BY <1>1, <1>9, <2>1 DEF Words
<1>11. /\ pu'[p] = r /\ \A q \in PUs : q # p => pu'[q] = pu[q]
       /\ \A q \in PUs : /\ pu'[q].prep = pu[q].prep /\ pu'[q].spikeOn = pu[q].spikeOn
                         /\ pu'[q].step = pu[q].step /\ pu'[q].s8 = pu[q].s8
                         /\ pu'[q].counter = pu[q].counter /\ pu'[q].prepared = pu[q].prepared
  BY <1>10 DEF Typing
<1>12. /\ \A q \in PUs : q # p => Tails'[q] = Tails[q]
       /\ Tails'[p] = Tails[p] \/ (Tails[p] = "count" /\ Tails'[p] = "schedule")
       /\ OneTail'
  <2>1. CASE tail' = tail
    BY <2>1, TailsSame DEF Typing
  <2>2. CASE TailTo(p, "schedule") /\ p \in Counting
    BY <2>2, TailStep DEF Typing, Counting, Rests
  <2>3. QED  BY <1>5, <2>1, <2>2
<1>13. Now' = Now /\ Waiting' = {} /\ Live' = Live /\ Shut' = Shut
  <2>1. Now' = Now
    BY <1>11, Basics DEF Now
  <2>2. Waiting' = Waiting /\ Live' = Live
    BY <1>11, <1>12, <2>1 DEF Waiting, Live, Aim
  <2>3. QED  BY <1>3, <2>1, <2>2 DEF Shut
<1>14. Own' = U
  <2>1. CASE M = {}
    <3>1. Counting' = Counting \ {p} /\ p \in Counting
      <4>1. TailTo(p, "schedule") /\ p \in Counting
        BY <1>5, <2>1
      <4>2. Tails'[p] = "schedule"
        BY <4>1, TailStep DEF Typing, Rests
      <4>3. QED  BY <1>12, <4>1, <4>2 DEF Counting
    <3>2. QED  BY <1>2, <1>5, <1>13, <2>1, <3>1
  <2>2. CASE M # {}
    <3>1. U = Own /\ tail' = tail
      BY <1>5, <2>2
    <3>2. Counting' = Counting
      BY <3>1, TailsSame DEF Counting
    <3>3. QED  BY <1>13, <3>1, <3>2
  <2>3. QED  BY <2>1, <2>2
<1> HIDE DEF Own
<1> DEFINE whole == r.drained = all
           up == IF whole /\ p # 1 THEN {Up(p, f)} ELSE {}
           final == IF whole /\ p = 1 THEN {Final(0, f)} ELSE {}
<1>15. \A x : x \in TreeReport(p, r) <=> x \in up \/ x \in final
  <2>1. Drain(p, Parent(p), r.fired, all) = Up(p, f) /\ DomainDone(1, r.fired) = Final(0, f)
    <3>1. Leader(0) = 1
      BY DomainSizes DEF Leader
    <3>2. QED  BY <1>8, <1>10, <3>1 DEF Drain, Up, DomainDone, Final
  <2>2. ~whole => TreeReport(p, r) = {}
    BY <1>8 DEF TreeReport
  <2>3. whole /\ p = 1 => TreeReport(p, r) = {Final(0, f)}
    BY <1>8, <2>1 DEF TreeReport
  <2>4. whole /\ p # 1 => TreeReport(p, r) = {Up(p, f)}
    BY <1>8, <2>1 DEF TreeReport
  <2>5. QED  BY <2>2, <2>3, <2>4
<1>16. /\ \A x \in up : /\ x = Up(p, f) /\ x.handler = "termination_drain" /\ x.from = p /\ x.args[1] = f
                        /\ x.args[2] = all /\ x.to \in PUs /\ whole /\ p \in Others
       /\ \A x \in final : /\ x = Final(0, f) /\ x.handler = "termination_domain_done" /\ x.to = 1
                           /\ x.args[1] = f /\ whole /\ p = 1
  <2>1. p # 1 => p \in Others /\ Parent(p) \in PUs
    BY ParentOf DEF Others
  <2>2. QED  BY <1>8, <2>1, StageIs
<1> HIDE DEF up, final
<1>17. \A x \in M : x.handler = "termination_drain" /\ x \in Closings
  BY <1>5 DEF Closings, Of
<1>18. /\ \A x : x \in Closings' <=> (x \in Closings /\ x \notin M) \/ x \in up
       /\ Finals' = Finals \cup final
       /\ Boots' = Boots /\ Readies' = Readies /\ Works' = Works /\ Reports' = Reports
       /\ Installs' = Installs /\ Idles' = Idles /\ Prepares' = Prepares /\ Endings' = Endings
  <2>1. Boots' = Boots /\ Readies' = Readies /\ Works' = Works /\ Reports' = Reports
    BY <1>15, <1>16, <1>17 DEF Of, Boots, Readies, Works, Reports
  <2>2. Installs' = Installs /\ Idles' = Idles /\ Prepares' = Prepares /\ Endings' = Endings
    BY <1>15, <1>16, <1>17 DEF Of, Installs, Idles, Prepares, Endings
  <2>3. Finals' = Finals \cup final
    BY <1>15, <1>16, <1>17 DEF Of, Finals
  <2>4. \A x : x \in Closings' <=> (x \in Closings /\ x \notin M) \/ x \in up
    BY <1>15, <1>16, <1>17 DEF Of, Closings
  <2>5. QED  BY <2>1, <2>2, <2>3, <2>4
<1>19. Typing'
  <2>1. \A x \in net' : x.to \in PUs
    BY <1>15, <1>16, Basics DEF Typing
  <2>2. pu' \in [PUs -> Words]
    BY <1>10 DEF Typing
  <2>3. \A q \in PUs : pu'[q].drained <= SubtreeSize(q)
    BY <1>8, <1>9, <1>11 DEF Typing
  <2>4. halted' = halted
    BY <1>8, <1>9
  <2>5. QED  BY <1>12, <2>1, <2>2, <2>3, <2>4 DEF Typing
<1>20. Cores'
  <2>1. ASSUME NEW q \in PUs
        PROVE  Core(q)'
    <3>1. /\ pu'[q].prep = pu[q].prep /\ pu'[q].step = pu[q].step /\ pu'[q].s8 = pu[q].s8
          /\ Tails'[q] = Tails[q] \/ (Tails[q] = "count" /\ Tails'[q] = "schedule")
      BY <1>11, <1>12
    <3>2. QED  BY <1>13, <3>1 DEF Cores, Core, Reached, Aim
  <2>2. QED  BY <1>18, <2>1 DEF Cores
<1>21. Waiting' = Waiting
  BY <1>3, <1>13
<1>22. Booting' /\ Updating' /\ Reporting' /\ (AllUpdated' <=> AllUpdated)
  BY <1>11, <1>13, <1>18, <1>21, BootingFrame, UpdatingFrame, ReportingFrame, ReportedFrame, Basics
<1>23. Staged'
  BY <1>3, <1>13, <1>18, <1>22 DEF Staged
<1>24. Preparing' /\ Spiking'
  BY <1>11, <1>13, <1>18, <1>21, PreparingFrame, SpikingFrame DEF Ended
<1>25. \A x \in Closings : x.from = p => x.args[2] = 0
  <2>1. ASSUME NEW x \in Closings, x.from = p
        PROVE  x.args[2] = 0
    <3>1. CASE \E y : x = Down(y)
      BY <3>1, StageIs
    <3>2. CASE \E y \in Others : x = Up(y, x.args[1]) /\ pu[y].drained = SubtreeSize(y)
      <4>1. PICK y \in Others : x = Up(y, x.args[1]) /\ pu[y].drained = SubtreeSize(y)
        BY <3>2
      <4>2. x.from = y
        BY <4>1, StageIs
      <4>3. QED  BY <1>8, <1>9, <2>1, <4>1, <4>2
    <3>3. QED  BY <1>1, <3>1, <3>2 DEF Tree
  <2>2. QED  BY <2>1
<1>26. p \notin Drained /\ p \notin Drained'
  <2>1. CASE whole /\ p # 1
    <3>1. Up(p, f) \in up
      BY <2>1 DEF up
    <3>2. Up(p, f) \in Closings' /\ Up(p, f).from = p /\ Up(p, f).args[2] # 0
      BY <1>8, <1>16, <1>18, <3>1
    <3>3. QED  BY <1>8, <1>9, <3>2 DEF Drained
  <2>2. CASE ~whole
    BY <1>8, <1>9, <1>11, <2>2 DEF Drained
  <2>3. CASE p = 1
    BY <2>3 DEF Drained, Others
  <2>4. QED  BY <2>1, <2>2, <2>3
<1>27. ASSUME NEW q \in Others, q # p
       PROVE  q \in Drained' <=> q \in R
  <2>1. pu'[q] = pu[q] /\ q \notin Waiting /\ q \notin Waiting'
    BY <1>3, <1>4, <1>11, <1>13, <1>27
  <2>2. CASE M = {}
    <3>1. R = Drained
      BY <1>5, <2>2
    <3>2. (\A x \in Closings' : x.from = q => x.args[2] = 0) <=> (\A x \in Closings : x.from = q => x.args[2] = 0)
      BY <1>16, <1>18, <1>27, <2>2
    <3>3. QED  BY <2>1, <3>1, <3>2 DEF Drained
  <2>3. CASE M # {}
    <3>1. PICK x \in StartChildren(p), k \in Nat :
             /\ M = {Up(x, k)} /\ Up(x, k) \in Closings /\ R = Drained \cup {x}
             /\ pu[x].drained = SubtreeSize(x) /\ x \in Others
      BY <1>5, <2>3
    <3>2. PICK u : u = Up(x, k) /\ u.from = x /\ u.args[2] # 0 /\ M = {u} /\ u \in Closings
      BY <1>4, <3>1, StageIs
    <3>3. CASE q = x
      <4>1. ASSUME NEW y \in Closings', y.from = x
            PROVE  y.args[2] = 0
        <5>1. y \in Closings /\ y # u
          BY <1>16, <1>18, <1>27, <3>2, <3>3, <4>1
        <5>2. QED  BY <1>1, <3>2, <4>1, <5>1 DEF Tree
      <4>2. QED  BY <2>1, <3>1, <3>3, <4>1 DEF Drained
    <3>4. CASE q # x
      <4>1. (\A y \in Closings' : y.from = q => y.args[2] = 0) <=> (\A y \in Closings : y.from = q => y.args[2] = 0)
        BY <1>16, <1>18, <1>27, <3>2, <3>4
      <4>2. QED  BY <2>1, <3>1, <3>4, <4>1 DEF Drained
    <3>5. QED  BY <3>3, <3>4
  <2>4. QED  BY <2>2, <2>3
<1>28. Drained' = R
  <2>1. p \notin R
    BY <1>5, <1>26
  <2>2. R \subseteq Others
    <3>1. Drained \subseteq Others
      BY DEF Drained
    <3>2. CASE M = {}
      BY <1>5, <3>1, <3>2
    <3>3. CASE M # {}
      <4>1. PICK x \in Others : R = Drained \cup {x}
        BY <1>5, <3>3
      <4>2. QED  BY <3>1, <4>1
    <3>4. QED  BY <3>2, <3>3
  <2>3. Drained' \subseteq Others
    BY DEF Drained
  <2>4. QED  BY <1>26, <1>27, <2>1, <2>2, <2>3
<1>29. Tree'
  <2>1. ASSUME NEW x \in Closings'
        PROVE  \/ \E y \in Live' : x = Down(y) /\ ~IsLeader(y) /\ Parent(y) \in Shut'
               \/ \E y \in Others : /\ x = Up(y, x.args[1]) /\ x.args[1] \in Nat
                                    /\ y \notin Waiting' /\ pu'[y].drained = SubtreeSize(y)
    <3>1. CASE x \in up
      BY <1>8, <1>11, <1>13, <1>16, <3>1
    <3>2. CASE \E y \in Live : x = Down(y) /\ ~IsLeader(y) /\ Parent(y) \in Shut
      BY <1>13, <3>2
    <3>3. CASE \E y \in Others : /\ x = Up(y, x.args[1]) /\ x.args[1] \in Nat
                                 /\ pu[y].drained = SubtreeSize(y)
      <4>1. PICK y \in Others : /\ x = Up(y, x.args[1]) /\ x.args[1] \in Nat
                                /\ pu[y].drained = SubtreeSize(y)
        BY <3>3
      <4>2. y # p
        BY <1>8, <1>9, <4>1
      <4>3. QED  BY <1>4, <1>11, <1>13, <4>1, <4>2
    <3>4. QED  BY <1>1, <1>18, <3>1, <3>2, <3>3 DEF Tree
  <2>2. ASSUME NEW x \in Closings', NEW y \in Closings', x.from = y.from, x.args[2] # 0, y.args[2] # 0
        PROVE  x = y
    <3>1. CASE x \in Closings /\ y \in Closings
      BY <1>1, <2>2, <3>1 DEF Tree
    <3>2. CASE x \in up \/ y \in up
      BY <1>16, <1>18, <1>25, <2>2, <3>2
    <3>3. QED  BY <1>18, <3>1, <3>2
  <2>3. ASSUME NEW q \in PUs
        PROVE  pu'[q].drained = Cardinality(Tally(q, Shut' \ Counting', Drained'))
    <3>1. Shut' \ Counting' = U
      BY <1>14 DEF Own
    <3>2. CASE q = p
      BY <1>9, <1>11, <1>28, <3>1, <3>2
    <3>3. CASE q # p
      <4>1. pu[q].drained = Cardinality(Tally(q, Own, Drained))
        BY <1>1, <1>3 DEF Tree, Own
      <4>2. QED  BY <1>7, <1>11, <1>28, <3>1, <3>3, <4>1
    <3>4. QED  BY <3>2, <3>3
  <2>4. Counting' \subseteq Counting
    BY <1>12 DEF Counting
  <2>5. Counting' \subseteq Shut'
    BY <1>1, <1>13, <2>4 DEF Tree
  <2>6. \A x \in Shut' : ~IsLeader(x) => Parent(x) \in Shut'
    BY <1>1, <1>13 DEF Tree
  <2>7. p = 1 => Finals = {}
    BY <1>1, <1>8, <1>9, Basics DEF Tree
  <2>8. ASSUME NEW x \in Finals'
        PROVE  x = Final(0, x.args[1]) /\ x.args[1] \in Nat /\ pu'[1].drained = NumPU
    <3>1. CASE x \in Finals
      <4>1. pu'[1] = pu[1]
        BY <1>11, <2>7, <3>1, Basics
      <4>2. QED  BY <1>1, <3>1, <4>1 DEF Tree
    <3>2. CASE x \in final
      BY <1>8, <1>11, <1>16, <3>2, Basics
    <3>3. QED  BY <1>18, <3>1, <3>2
  <2>9. \A x, y \in Finals' : x = y
    BY <1>1, <1>16, <1>18, <2>7 DEF Tree
  <2>10. QED  BY <2>1, <2>2, <2>3, <2>5, <2>6, <2>8, <2>9 DEF Tree
<1>30. Draining'
  BY <1>29 DEF Draining
<1>31. QED  BY <1>19, <1>20, <1>22, <1>23, <1>24, <1>30

\* The other thread of PU1 has not handled the reports of the whole tree while
\* this one was between its last message and its count.
LEMMA CountInv ==
    ASSUME Proper, Inv, NEW p \in PUs, NEW t \in Threads, Count(p, t), ~overtaken',
           UNCHANGED <<drain, queue, adding>>
    PROVE  Inv'
<1>1. /\ OneTail /\ Tails[p] = "count" /\ p \in Counting /\ pu[p] \in Words
      /\ \A u \in Threads \ {t} : tail[p][u] = "none"
  <2>1. OneTail /\ tail[p][t] = "count" /\ pu[p] \in Words
    BY DEF Count, Inv, Typing
  <2>2. Tails[p] = "count" /\ \A u \in Threads \ {t} : tail[p][u] = "none"
    BY <2>1, TailsAre
  <2>3. QED  BY <2>1, <2>2 DEF Counting
<1>2. drain = "tree" /\ DomainSize > 1
  <2>1. drain = "tree"
    BY <1>1, SnnAssumption DEF Inv, Draining, Reverse, Typing
  <2>2. QED  BY <2>1 DEF Inv, Typing, Proper
<1>3. PICK r : /\ r = [pu[p] EXCEPT !.drained = @ + 1]
               /\ pu' = [pu EXCEPT ![p] = r] /\ net' = net \cup TreeReport(p, r)
               /\ tail' = [tail EXCEPT ![p][t] = IF p = 1 /\ r.drained = SubtreeSize(p) THEN "none" ELSE "schedule"]
               /\ UNCHANGED <<memory, notifier, window>>
               /\ halted' = IF r.drained > SubtreeSize(p) THEN "fail" ELSE halted
               /\ overtaken' = (overtaken \/ (p = 1 /\ r.drained = SubtreeSize(p) /\ DomainSize > 1))
  BY DEF Count, Continue, Fails
<1>4. pu[p].fired \in Nat /\ pu[p].drained \in Nat
  BY <1>1 DEF Words
<1>5. r = [pu[p] EXCEPT !.fired = pu[p].fired, !.drained = pu[p].drained + 1]
  BY <1>1, <1>3 DEF Words
<1>6. ~(p = 1 /\ r.drained = SubtreeSize(p))
  BY <1>2, <1>3
<1>7. TailTo(p, "schedule")
  BY <1>1, <1>3, <1>6 DEF TailTo
<1>8. net' = (net \ {}) \cup TreeReport(p, r)
  BY <1>3
<1>9. QED  BY <1>1, <1>2, <1>3, <1>4, <1>5, <1>7, <1>8, TallyInv, Zenon

\* A live core has no tail: a thread of it may have one.
LEMMA TailOf ==
    ASSUME Inv, NEW c \in Live, NEW t \in Threads, NEW rest, tail' = [tail EXCEPT ![c][t] = rest]
    PROVE  TailTo(c, rest)
<1>1. c \in PUs /\ Tails[c] = "none" /\ OneTail
  BY DEF Inv, Live, Cores, Core, Typing
<1>2. \A u \in Threads : tail[c][u] = "none"
  BY <1>1, TailsAre
<1>3. QED  BY <1>2 DEF TailTo

LEMMA IdleInv ==
    ASSUME Proper, Inv, NEW m \in Idles, NEW t \in Threads, termination_idle(m, t),
           m.to \in Live /\ ~pu'[m.to].spikeOn => Here(m.to) = {}, UNCHANGED <<drain, queue, adding>>
    PROVE  Inv'
<1>1. PICK d \in Members : m = IdleOf(d) /\ Leader(d) \in Live
  BY DEF Inv, Staged
<1>2. PICK c \in Live : c = Leader(d) /\ m.to = c /\ c \in PUs /\ m \in net
  BY <1>1, StageIs DEF Live, Idles, Of
<1>3. Here(c) = {} /\ pu[c] \in Words /\ m.args[1] = 0
  <2>1. pu[c] \in Words /\ pu \in [PUs -> Words] /\ m.args[1] = 0
    BY <1>1, <1>2, StageIs DEF Inv, Typing
  <2>2. pu'[c].spikeOn = FALSE
    <3>1. PICK f : f = IdleFired(c)
      OBVIOUS
    <3>2. \/ pu' = [pu EXCEPT ![c] = [Closed(pu[c]) EXCEPT !.fired = f]]
          \/ pu' = [pu EXCEPT ![c] = Closed(pu[c])]
      BY <1>2, <3>1 DEF termination_idle, Becomes
    <3>3. Closed(pu[c]).spikeOn = FALSE /\ [Closed(pu[c]) EXCEPT !.fired = f].spikeOn = FALSE
      BY <2>1 DEF Closed, Words
    <3>4. QED  BY <1>2, <2>1, <3>2, <3>3
  <2>3. QED  BY <1>2, <2>1, <2>2
<1>4. pu[c].fired \in Nat
  BY <1>3 DEF Words
<1>5. UNCHANGED <<memory, notifier, halted, window, drain, queue, adding>>
  BY <1>3 DEF termination_idle, Fails
<1>6. CASE drain = "reverse"
  <2>1. PICK f \in Nat : f = IdleFired(c)
    BY <1>4 DEF IdleFired
  <2>2. PICK k \in Nat : k = pu[c].fired
    BY <1>4
  <2>3. /\ Becomes(m, [Closed(pu[m.to]) EXCEPT !.fired = IdleFired(m.to)],
                   {IF DomainSize = 1 THEN DomainDone(m.to, pu[m.to].fired)
                    ELSE Drain(m.to, m.to + DomainSize - 1, pu[m.to].fired, 0)})
        /\ tail' = [tail EXCEPT ![m.to][t] = "schedule"]
    BY <1>6 DEF termination_idle, Then
  <2>4. /\ pu' = [pu EXCEPT ![c] = [Closed(pu[c]) EXCEPT !.fired = f]]
        /\ TailTo(c, "schedule")
        /\ net' = (net \ {m}) \cup {IF DomainSize = 1 THEN DomainDone(c, k)
                                    ELSE Drain(c, c + DomainSize - 1, k, 0)}
    BY <1>2, <1>3, <2>1, <2>2, <2>3, TailOf DEF Becomes
  <2>5. CASE DomainSize = 1
    BY <1>1, <1>2, <1>3, <1>5, <1>6, <2>4, <2>5, LoneInv
  <2>6. CASE DomainSize # 1
    <3>1. PICK to : to = c + DomainSize - 1
      OBVIOUS
    <3>2. net' = (net \ {m}) \cup {Drain(c, to, k, 0)}
      BY <2>4, <2>6, <3>1
    <3>3. QED  BY <1>1, <1>2, <1>3, <1>5, <1>6, <2>4, <3>1, <3>2, BackInv
  <2>7. QED  BY <2>5, <2>6
<1>7. CASE drain = "tree"
  <2>1. /\ pu' = [pu EXCEPT ![c] = Closed(pu[c])] /\ TailTo(c, "count")
        /\ net' = (net \ {m}) \cup {Drain(c, x, 0, 0) : x \in DrainChildren(c)}
    BY <1>2, <1>3, <1>7, TailOf DEF termination_idle, Becomes, Then
  <2>2. QED  BY <1>1, <1>2, <1>3, <1>5, <1>7, <2>1, FanOutInv
<1>8. QED  BY <1>6, <1>7, SnnAssumption DEF Inv, Typing

LEMMA DrainInv ==
    ASSUME Proper, Inv, NEW m \in Closings, NEW t \in Threads,
           termination_reverse(m, t) \/ termination_tree(m, t),
           m.to \in Live /\ ~pu'[m.to].spikeOn => Here(m.to) = {}, UNCHANGED <<drain, queue, adding>>
    PROVE  Inv'
<1>1. PICK c \in PUs : c = m.to /\ pu[c] \in Words /\ m \in net
  BY DEF Inv, Typing, Closings, Of
<1>2. pu' = [pu EXCEPT ![c] = Closed(pu[c])] /\ c \in Live => Here(c) = {}
  <2>1. Closed(pu[c]).spikeOn = FALSE
    BY <1>1 DEF Closed, Words
  <2>2. QED  BY <1>1, <2>1 DEF Inv, Typing
<1>3. pu[c].fired \in Nat /\ pu[c].drained \in Nat
  BY <1>1 DEF Words
<1>4. Waiting = {} /\ Typing
  BY Quiet DEF Inv, Staged
<1>5. CASE termination_reverse(m, t)
  <2>1. Reverse /\ drain = "reverse" /\ UNCHANGED <<memory, notifier, halted, window, drain, queue, adding>>
    BY <1>5 DEF termination_reverse, Inv, Draining
  <2>2. CASE IsLeader(c)
    <3>1. pu' = pu /\ net' = (net \ {m}) \cup {DomainDone(m.to, m.args[1])} /\ tail' = tail
      BY <1>1, <1>4, <1>5, <2>2 DEF termination_reverse, Becomes, Typing
    <3>2. QED  BY <1>1, <2>1, <2>2, <3>1, CollectInv
  <2>3. CASE ~IsLeader(c)
    <3>1. m.args \in Nat \X {0} /\ c \notin Shut
      <4>1. ~ (c > c)
        BY <1>1 DEF PUs
      <4>2. QED  BY <1>1, <2>1, <2>3, <4>1 DEF Reverse
    <3>2. c \in Live
      BY <1>4, <3>1 DEF Shut
    <3>3. PICK k \in Nat : k = m.args[1] + pu[c].fired
      BY <1>3, <3>1
    <3>4. Becomes(m, Closed(pu[m.to]), {Drain(m.to, m.to - 1, m.args[1] + pu[m.to].fired, 0)})
          /\ tail' = [tail EXCEPT ![m.to][t] = "schedule"]
      BY <1>1, <1>5, <2>3 DEF termination_reverse, Then
    <3>5. PICK f \in Nat : f = pu[c].fired
      BY <1>3
    <3>6. Closed(pu[c]) = [Closed(pu[c]) EXCEPT !.fired = f]
      BY <1>1, <3>5 DEF Closed, Words
    <3>7. PICK to : to = c - 1
      OBVIOUS
    <3>8. /\ pu' = [pu EXCEPT ![c] = [Closed(pu[c]) EXCEPT !.fired = f]]
          /\ TailTo(c, "schedule")
          /\ net' = (net \ {m}) \cup {Drain(c, to, k, 0)}
      BY <1>1, <3>2, <3>3, <3>4, <3>6, <3>7, TailOf DEF Becomes
    <3>9. Here(c) = {}
      BY <1>1, <1>2, <3>2, <3>4 DEF Becomes
    <3>10. QED  BY <1>1, <2>1, <2>3, <3>2, <3>7, <3>8, <3>9, BackInv
  <2>4. QED  BY <2>2, <2>3
<1>6. CASE termination_tree(m, t)
  <2>1. Tree /\ drain = "tree" /\ UNCHANGED <<memory, notifier, window, drain, queue, adding>>
    BY <1>6 DEF termination_tree, Inv, Draining
  <2>2. CASE \E x \in Live : m = Down(x) /\ ~IsLeader(x) /\ Parent(x) \in Shut
    <3>1. m = Down(c) /\ c \in Live /\ ~IsLeader(c) /\ Parent(c) \in Shut
      BY <1>1, <2>2, StageIs
    <3>2. m.args[2] = 0
      BY <3>1, StageIs
    <3>3. /\ Becomes(m, Closed(pu[m.to]), {Drain(m.to, x, 0, 0) : x \in DrainChildren(m.to)})
          /\ tail' = [tail EXCEPT ![m.to][t] = "count"] /\ halted' = halted
      BY <1>6, <3>2 DEF termination_tree, Then
    <3>4. /\ pu' = [pu EXCEPT ![c] = Closed(pu[c])] /\ TailTo(c, "count")
          /\ net' = (net \ {m}) \cup {Drain(c, x, 0, 0) : x \in DrainChildren(c)}
      BY <1>1, <3>1, <3>3, TailOf DEF Becomes
    <3>5. Here(c) = {}
      BY <1>2, <3>1, <3>4
    <3>6. QED  BY <1>1, <2>1, <3>1, <3>3, <3>4, <3>5, FanOutInv
  <2>3. CASE \E x \in Others : m = Up(x, m.args[1]) /\ m.args[1] \in Nat
    <3>1. PICK x \in Others, k \in Nat : m = Up(x, k)
      BY <2>3
    <3>2. PICK n \in Nat \ {0} : n = SubtreeSize(x) /\ m.args[2] = n /\ m.args[1] = k /\ m.to = Parent(x)
      BY <3>1, StageIs, Basics DEF Others
    <3>3. x \in StartChildren(c)
      BY <1>1, <3>2, Children
    <3>4. PICK r : r = [pu[m.to] EXCEPT !.fired = @ + m.args[1], !.drained = @ + m.args[2]]
      OBVIOUS
    <3>5. /\ Becomes(m, r, TreeReport(m.to, r)) /\ tail' = tail
          /\ halted' = IF r.drained > SubtreeSize(m.to) THEN "fail" ELSE halted
      BY <1>6, <3>2, <3>4 DEF termination_tree, Fails
    <3>6. PICK f \in Nat : f = pu[c].fired + k
      BY <1>3
    <3>7. r = [pu[c] EXCEPT !.fired = f, !.drained = pu[c].drained + n]
      BY <1>1, <3>2, <3>4, <3>6
    <3>8. pu' = [pu EXCEPT ![c] = r] /\ net' = (net \ {m}) \cup TreeReport(c, r)
      BY <1>1, <3>5 DEF Becomes
    <3>9. halted' = IF r.drained > SubtreeSize(c) THEN "fail" ELSE halted
      BY <1>1, <3>5
    <3>10. PICK M : M = {Up(x, k)} /\ M = {m}
      BY <3>1
    <3>11. QED  BY <2>1, <3>1, <3>2, <3>3, <3>5, <3>6, <3>7, <3>8, <3>9, <3>10, TallyInv, Zenon
  <2>4. QED  BY <2>1, <2>2, <2>3 DEF Tree
<1>7. QED  BY <1>5, <1>6

----------------------------------------------------------------------------
(* The end of a step *)

LEMMA MemberSet == IsFiniteSet(Members) /\ Cardinality(Members) = NumMC
<1>1. NumMC \in Nat \ {0}
  BY Basics
<1>2. PICK n \in Nat : n = NumMC - 1
  BY <1>1
<1>3. ~ (0 > n) /\ Members = 0 .. n /\ n - 0 + 1 = NumMC
  BY <1>1, <1>2 DEF Members
<1>4. IsFiniteSet(0 .. n) /\ Cardinality(0 .. n) = n - 0 + 1
  BY <1>2, <1>3, FS_Interval
<1>5. QED  BY <1>3, <1>4

\* A domain of the reverse drain that reports was not counted before.
LEMMA OneMore ==
    ASSUME Inv, drain = "reverse", NEW m \in Finals
    PROVE  \E d \in Members :
              /\ m = Final(d, m.args[1]) /\ m.args[1] \in Nat /\ m.to = 1 /\ m.from = Leader(d)
              /\ d \notin Gone /\ Leader(d) \in Shut
              /\ \A q \in PUs : Domain(q) = d => q \in Shut
              /\ \A y \in Closings : Domain(y.to) # d
              /\ \A y \in Finals : y # m => y.from # Leader(d)
              /\ IsFiniteSet(Gone) /\ Cardinality(Gone \cup {d}) = pu[1].counter + 1
              /\ pu[1].counter + 1 \in 1 .. NumMC
<1>1. Reverse /\ AllUpdated
  BY DEF Inv, Draining, Staged
<1>2. PICK d \in Members : m = Final(d, m.args[1]) /\ m.args[1] \in Nat
  BY <1>1 DEF Reverse
<1>3. m.to = 1 /\ m.from = Leader(d) /\ Leader(d) \in PUs /\ Domain(Leader(d)) = d
  BY <1>2, StageIs, Domains
<1>4. \A q \in PUs : Domain(q) = d => q \in Shut
  BY <1>1, <1>3 DEF Reverse
<1>5. \A y \in Closings : Domain(y.to) # d
  BY <1>1, <1>3 DEF Reverse
<1>6. \A y \in Finals : y # m => y.from # Leader(d)
  BY <1>1, <1>3 DEF Reverse
<1>7. d \notin Gone
  BY <1>3 DEF Gone
<1>8. Gone \subseteq Members /\ Gone \cup {d} \subseteq Members
  BY DEF Gone
<1>9. IsFiniteSet(Gone) /\ Cardinality(Gone) \in Nat
  BY <1>8, MemberSet, FS_Subset, FS_CardinalityType
<1>10. Cardinality(Gone \cup {d}) = Cardinality(Gone) + 1
  BY <1>7, <1>9, FS_AddElement
<1>11. Cardinality(Gone \cup {d}) <= NumMC
  BY <1>8, MemberSet, FS_Subset
<1>12. pu[1].counter = Cardinality(Gone)
  BY <1>1 DEF Reverse
<1>13. PICK k \in Nat : k = pu[1].counter /\ k + 1 <= NumMC
  BY <1>9, <1>10, <1>11, <1>12
<1>14. pu[1].counter + 1 \in 1 .. NumMC
  BY <1>13, Basics
<1>15. QED  BY <1>2, <1>3, <1>4, <1>5, <1>6, <1>7, <1>9, <1>10, <1>12, <1>14

\* A domain is counted, or the last one of the run.
LEMMA SumInv ==
    ASSUME Proper, Inv, NEW m \in Finals, NEW r \in Words,
           r.prep = pu[1].prep, r.spikeOn = pu[1].spikeOn, r.step = pu[1].step, r.s8 = pu[1].s8,
           r.drained = pu[1].drained, r.prepared = pu[1].prepared,
           drain = "reverse" => r.counter = pu[1].counter + 1,
           pu' = [pu EXCEPT ![1] = r], net' = net \ {m}, halted' \in {"no", "ok"},
           UNCHANGED <<memory, notifier, tail, window, drain, queue, adding>>
    PROVE  Inv'
<1> USE DEF Inv
<1>1. AllUpdated /\ Waiting = {} /\ 1 \in PUs
  BY Quiet, Basics DEF Staged
<1>2. m.handler = "termination_domain_done"
  BY DEF Finals, Of
<1>3. pu'[1] = r /\ \A q \in PUs : q # 1 => pu'[q] = pu[q]
  BY <1>1 DEF Typing
<1>4. \A q \in PUs : /\ pu'[q].prep = pu[q].prep /\ pu'[q].spikeOn = pu[q].spikeOn
                     /\ pu'[q].step = pu[q].step /\ pu'[q].s8 = pu[q].s8
                     /\ pu'[q].drained = pu[q].drained /\ pu'[q].prepared = pu[q].prepared
                     /\ q # 1 => pu'[q].counter = pu[q].counter
  BY <1>3
<1>5. /\ Now' = Now /\ Waiting' = Waiting /\ Live' = Live /\ Shut' = Shut /\ Counting' = Counting
      /\ Tails' = Tails
  BY <1>4, Still, TailsSame
<1>6. /\ Finals' = Finals \ {m}
      /\ Boots' = Boots /\ Readies' = Readies /\ Works' = Works /\ Reports' = Reports
      /\ Installs' = Installs /\ Idles' = Idles /\ Closings' = Closings /\ Prepares' = Prepares
      /\ Endings' = Endings
  BY <1>2 DEF Of, Boots, Readies, Works, Reports, Installs, Idles, Closings, Finals, Prepares, Endings
<1>7. Typing'
  BY <1>4, TailsSame DEF Typing
<1>8. Cores' /\ Booting' /\ Updating' /\ Reporting' /\ (AllUpdated' <=> AllUpdated)
  BY <1>1, <1>4, <1>5, <1>6, CoresFrame, BootingFrame, UpdatingFrame, ReportingFrame, ReportedFrame
<1>9. Staged'
  BY <1>1, <1>5, <1>6, <1>8 DEF Staged
<1>10. Preparing' /\ Spiking'
  BY <1>4, <1>5, <1>6, PreparingFrame, SpikingFrame DEF Ended
<1>11. CASE drain = "reverse"
  <2>1. Reverse
    BY <1>11 DEF Draining
  <2>2. PICK d \in Members :
              /\ m.from = Leader(d) /\ d \notin Gone /\ Leader(d) \in Shut
              /\ \A q \in PUs : Domain(q) = d => q \in Shut
              /\ \A y \in Closings : Domain(y.to) # d
              /\ \A y \in Finals : y # m => y.from # Leader(d)
              /\ Cardinality(Gone \cup {d}) = pu[1].counter + 1
    BY <1>11, OneMore
  <2>3. \A e \in Members : Leader(e) = Leader(d) <=> e = d
    BY Domains
  <2>4. Gone' = Gone \cup {d}
    <3>1. d \in Gone'
      BY <1>5, <1>6, <2>2 DEF Gone
    <3>2. ASSUME NEW e \in Members, e # d
          PROVE  e \in Gone' <=> e \in Gone
      <4>1. (\A y \in Finals' : y.from # Leader(e)) <=> (\A y \in Finals : y.from # Leader(e))
        BY <1>6, <2>2, <2>3, <3>2
      <4>2. QED  BY <1>5, <1>6, <4>1 DEF Gone
    <3>3. QED  BY <3>1, <3>2 DEF Gone
  <2>5. pu'[1].counter = Cardinality(Gone')
    BY <1>3, <1>11, <2>2, <2>4
  <2>6. \A q \in PUs : Domain(q) \in Gone' => q \in Shut'
    BY <1>5, <2>1, <2>2, <2>4 DEF Reverse
  <2>7. Reverse'
    BY <1>5, <1>6, <2>1, <2>5, <2>6 DEF Reverse
  <2>8. QED  BY <1>7, <1>8, <1>9, <1>10, <1>11, <2>7 DEF Draining
<1>12. CASE drain = "tree"
  <2>1. Tree
    BY <1>12 DEF Draining
  <2>2. Drained' = Drained
    BY <1>4, <1>5, <1>6 DEF Drained, Others
  <2>3. Tree'
    <3>1. /\ \A q \in PUs : pu'[q].drained = pu[q].drained
          /\ Finals' \subseteq Finals /\ Closings' = Closings
      BY <1>4, <1>6
    <3>2. \A x \in Closings' :
              \/ \E c \in Live' : x = Down(c) /\ ~IsLeader(c) /\ Parent(c) \in Shut'
              \/ \E c \in Others : /\ x = Up(c, x.args[1]) /\ x.args[1] \in Nat
                                   /\ c \notin Waiting' /\ pu'[c].drained = SubtreeSize(c)
      BY <1>5, <2>1, <3>1 DEF Tree, Others
    <3>3. \A p \in PUs : p \notin Waiting' =>
              pu'[p].drained = Cardinality(Tally(p, Shut' \ Counting', Drained'))
      BY <1>5, <2>1, <2>2, <3>1 DEF Tree
    <3>4. /\ \A x \in Finals' : x = Final(0, x.args[1]) /\ x.args[1] \in Nat /\ pu'[1].drained = NumPU
          /\ \A x, y \in Finals' : x = y
      <4>1. pu'[1].drained = pu[1].drained
        BY <1>1, <3>1
      <4>2. QED  BY <2>1, <3>1, <4>1 DEF Tree
    <3>5. /\ \A x, y \in Closings' : x.from = y.from /\ x.args[2] # 0 /\ y.args[2] # 0 => x = y
          /\ Counting' \subseteq Shut'
          /\ \A c \in Shut' : ~IsLeader(c) => Parent(c) \in Shut'
      BY <1>5, <2>1, <3>1 DEF Tree
    <3>6. QED  BY <3>2, <3>3, <3>4, <3>5 DEF Tree
  <2>4. QED  BY <1>7, <1>8, <1>9, <1>10, <1>12, <2>3 DEF Draining
<1>13. QED  BY <1>11, <1>12, SnnAssumption DEF Typing

\* The last report: every core is shut and nothing of the step is under way.
LEMMA AllShut ==
    ASSUME Proper, Inv, NEW m \in Finals, drain = "reverse" => pu[1].counter + 1 = NumMC
    PROVE  /\ Shut = PUs /\ Closings = {} /\ Finals \subseteq {m}
           /\ Boots = {} /\ Readies = {} /\ Works = {} /\ Reports = {}
           /\ Installs = {} /\ Idles = {} /\ notifier = {} /\ memory = {}
           /\ \A p \in PUs : Here(p) = {}
           /\ Counting = {}
<1> USE DEF Inv
<1>1. AllUpdated /\ 1 \in PUs
  BY Basics DEF Staged
<1>2. Waiting = {} /\ Works = {} /\ Reports = {}
  BY <1>1, Quiet
<1>3. Shut = PUs /\ Closings = {} /\ Finals \subseteq {m} /\ Counting = {}
  <2>1. CASE drain = "reverse"
    <3>1. Reverse
      BY <2>1 DEF Draining
    <3>2. PICK d \in Members :
              /\ m.from = Leader(d) /\ d \notin Gone
              /\ \A q \in PUs : Domain(q) = d => q \in Shut
              /\ \A y \in Closings : Domain(y.to) # d
              /\ \A y \in Finals : y # m => y.from # Leader(d)
              /\ Cardinality(Gone \cup {d}) = pu[1].counter + 1
      BY <2>1, OneMore
    <3>3. Gone \cup {d} = Members
      <4>1. Gone \cup {d} \subseteq Members
        BY DEF Gone
      <4>2. Cardinality(Gone \cup {d}) = Cardinality(Members)
        BY <2>1, <3>2, MemberSet
      <4>3. QED  BY <4>1, <4>2, MemberSet, FS_Subset
    <3>4. Shut = PUs
      <4>1. \A q \in PUs : Domain(q) \in Gone \/ Domain(q) = d
        BY <3>3, Domains
      <4>2. QED  BY <3>1, <3>2, <4>1 DEF Reverse, Shut
    <3>5. Closings = {}
      <4>1. ASSUME NEW y \in Closings
            PROVE  FALSE
        <5>1. Domain(y.to) \in Members
          BY Domains DEF Typing, Closings, Of
        <5>2. QED  BY <3>2, <3>3, <5>1 DEF Gone
      <4>2. QED  BY <4>1
    <3>6. ASSUME NEW y \in Finals, y # m
          PROVE  FALSE
      <4>1. PICK e \in Members : y = Final(e, y.args[1])
        BY <3>1 DEF Reverse
      <4>2. y.from = Leader(e)
        BY <4>1, StageIs
      <4>3. e # d /\ e \in Gone
        BY <3>2, <3>3, <3>6, <4>2
      <4>4. QED  BY <4>2, <4>3 DEF Gone
    <3>7. Counting = {}
      BY <3>1 DEF Reverse, Counting
    <3>8. QED  BY <3>4, <3>5, <3>6, <3>7
  <2>2. CASE drain = "tree"
    <3>1. Tree
      BY <2>2 DEF Draining
    <3>2. Cardinality(Tally(1, Shut \ Counting, Drained)) = NumPU
      BY <1>1, <1>2, <3>1 DEF Tree
    <3>3. \A c \in Others : c \in Drained => Cardinality(Tally(c, Shut \ Counting, Drained)) = SubtreeSize(c)
      BY <3>1 DEF Tree, Drained, Others
    <3>4. \A p \in PUs : p \in Shut \ Counting /\ (p # 1 => p \in Drained)
      BY <3>2, <3>3, AllCounted
    <3>5. Closings = {}
      <4>1. ASSUME NEW y \in Closings, NEW c \in Live, y = Down(c)
            PROVE  FALSE
        BY <3>4 DEF Shut, Live
      <4>2. ASSUME NEW y \in Closings, NEW c \in Others, y = Up(c, y.args[1])
            PROVE  FALSE
        <5>1. c \in PUs /\ c # 1
          BY DEF Others
        <5>2. y.from = c /\ y.args[2] # 0
          BY <4>2, <5>1, StageIs, Basics
        <5>3. QED  BY <3>4, <5>1, <5>2 DEF Drained
      <4>3. QED  BY <3>1, <4>1, <4>2 DEF Tree
    <3>6. Counting = {} /\ Shut = PUs
      BY <3>4 DEF Counting, Shut
    <3>7. QED  BY <3>1, <3>5, <3>6 DEF Tree
  <2>3. QED  BY <2>1, <2>2, SnnAssumption DEF Typing
<1>4. Live = {}
  BY <1>3 DEF Shut, Live
<1>5. Boots = {} /\ Readies = {}
  BY <1>2 DEF Booting
<1>6. Installs = {}
  <2>1. ASSUME NEW x \in Installs
        PROVE  FALSE
    <3>1. PICK d \in Members \ {0} : x = InstallOf(d)
      BY DEF Staged
    <3>2. d \in 1 .. d
      BY <3>1 DEF Members
    <3>3. QED  BY <1>4, <3>1, <3>2 DEF Staged
  <2>2. QED  BY <2>1
<1>7. Idles = {} /\ notifier = {}
  BY <1>4 DEF Staged
<1>8. memory = {}
  <2>1. ASSUME NEW s \in memory
        PROVE  FALSE
    <3>1. s.to[1] \in PUs
      BY NeuronOf DEF Spiking, Spike
    <3>2. Leader(Domain(s.to[1])) \in PUs
      BY <3>1, Domains
    <3>3. QED  BY <1>3, <3>2 DEF Spiking
  <2>2. QED  BY <2>1
<1>9. \A p \in PUs : Here(p) = {}
  BY <1>3 DEF Spiking
<1>10. QED  BY <1>2, <1>3, <1>5, <1>6, <1>7, <1>8, <1>9

LEMMA DoneInv ==
    ASSUME Proper, Inv, NEW m \in Finals, NEW t,
           pu'[1].spikeOn /\ ~pu[1].spikeOn => Tails[1] = "none",
           termination_domain_done(m, t), UNCHANGED <<drain, queue, adding>>
    PROVE  Inv'
<1>1. /\ m.to = 1 /\ m.args[1] \in Nat /\ m \in net /\ m.handler = "termination_domain_done"
      /\ drain = "reverse" => pu[1].counter + 1 \in 1 .. NumMC
  <2>1. m \in net /\ m.handler = "termination_domain_done"
    BY DEF Finals, Of
  <2>2. drain = "reverse" => m.to = 1 /\ m.args[1] \in Nat /\ pu[1].counter + 1 \in 1 .. NumMC
    BY OneMore
  <2>3. drain = "tree" => m.to = 1 /\ m.args[1] \in Nat
    <3>1. drain = "tree" => m = Final(0, m.args[1]) /\ m.args[1] \in Nat
      BY DEF Inv, Draining, Tree
    <3>2. QED  BY <3>1, StageIs
  <2>4. QED  BY <2>1, <2>2, <2>3, SnnAssumption DEF Inv, Typing
<1>2. /\ 1 \in PUs /\ NumMC \in 1 .. NumPU /\ NumPU \in Nat /\ pu[1] \in Words
      /\ drain \in {"reverse", "tree"} /\ Steps \in Nat \ {0} /\ halted \in {"no", "ok"}
  BY Basics, DomainSizes, SnnAssumption DEF Inv, Typing
<1>3. PICK r : r = IF drain = "tree" THEN [pu[1] EXCEPT !.counter = NumMC]
                   ELSE [pu[1] EXCEPT !.counter = @ + 1, !.fired = @ + m.args[1]]
  OBVIOUS
<1>4. /\ r \in Words
      /\ r.prep = pu[1].prep /\ r.spikeOn = pu[1].spikeOn /\ r.step = pu[1].step /\ r.s8 = pu[1].s8
      /\ r.drained = pu[1].drained /\ r.prepared = pu[1].prepared
      /\ drain = "reverse" => r.counter = pu[1].counter + 1
  <2>1. CASE drain = "tree"
    <3>1. NumMC \in 0 .. NumPU
      BY <1>2
    <3>2. QED  BY <1>2, <1>3, <2>1, <3>1 DEF Words
  <2>2. CASE drain = "reverse"
    <3>1. pu[1].counter + 1 \in 0 .. NumPU /\ pu[1].fired + m.args[1] \in Nat
      <4>1. pu[1].fired \in Nat
        BY <1>2 DEF Words
      <4>2. pu[1].counter + 1 \in 1 .. NumMC
        BY <1>1, <2>2
      <4>3. QED  BY <1>1, <1>2, <4>1, <4>2
    <3>2. r = [pu[1] EXCEPT !.counter = pu[1].counter + 1, !.fired = pu[1].fired + m.args[1]]
      BY <1>3, <2>2
    <3>3. QED  BY <1>2, <2>2, <3>1, <3>2 DEF Words
  <2>3. QED  BY <1>2, <2>1, <2>2
<1>5. CASE Becomes(m, r, {}) /\ UNCHANGED <<memory, notifier, tail, window>> /\ halted' \in {halted, "ok"}
  <2>1. pu' = [pu EXCEPT ![1] = r] /\ net' = net \ {m}
    BY <1>1, <1>5 DEF Becomes
  <2>2. halted' \in {"no", "ok"}
    BY <1>2, <1>5
  <2>3. QED  BY <1>4, <1>5, <2>1, <2>2, SumInv
<1>6. CASE r.counter = NumMC /\ r.step + 1 # Steps /\ Start(m, r.step + 1, 0)
  <2>1. /\ Shut = PUs /\ Closings = {} /\ Finals \subseteq {m}
        /\ Boots = {} /\ Readies = {} /\ Works = {} /\ Reports = {}
        /\ Installs = {} /\ Idles = {} /\ notifier = {} /\ memory = {}
        /\ \A p \in PUs : Here(p) = {}
        /\ Counting = {}
    BY <1>4, <1>6, AllShut
  <2>2. PICK s : s = Now + 1 /\ s = r.step + 1 /\ s \in 0 .. Steps - 1
    <3>1. pu[1].step \in 0 .. Steps - 1
      BY <1>2 DEF Words
    <3>2. QED  BY <1>2, <1>4, <1>6, <3>1 DEF Now
  <2>3. \A p \in PUs : Aim(p) = s /\ Tails[p] # "count" /\ pu[p].prepared = 0 /\ ~pu[p].spikeOn
    <3>1. \A p \in PUs : Aim(p) = s /\ Tails[p] # "count"
      BY <2>1, <2>2 DEF Inv, Cores, Core, Counting
    <3>2. s < Steps
      BY <1>2, <2>2
    <3>3. \A p \in PUs : pu[p].prepared = 0
      BY <2>2, <3>2 DEF Inv, Preparing
    <3>4. QED  BY <2>1, <3>1, <3>3 DEF Shut, Live
  <2>4. Endings = {}
    <3>1. ASSUME NEW x \in Endings
          PROVE  FALSE
      <4>1. PICK c \in Others : pu[c].prepared = SubtreeSize(c)
        BY DEF Inv, Preparing
      <4>2. c \in PUs
        BY DEF Others
      <4>3. QED  BY <2>3, <4>1, <4>2, Basics
    <3>2. QED  BY <3>1
  <2>5. m \notin Prepares
    BY <1>1 DEF Prepares, Of
  <2>6. Start(m, s, 0)
    BY <1>6, <2>2
  <2>7. Typing /\ Cores
    BY DEF Inv
  <2>8. Boots \cup Readies \cup Finals \subseteq {m}
    BY <2>1
  <2>9. Tails[1] = "none"
    <3>1. pu'[m.to].spikeOn
      BY <1>1, <2>2, <2>6, <2>7, Opens
    <3>2. QED  BY <1>1, <1>2, <2>3, <3>1
  <2>10. /\ \A x \in memory : x \in Spike /\ x.step = s
         /\ \A p \in PUs : \A x \in Here(p) : x \in Spike /\ x.step = s /\ x.to[1] = p
    BY <2>1
  <2>11. QED  BY <1>1, <2>1, <2>2, <2>3, <2>4, <2>5, <2>6, <2>7, <2>8, <2>9, <2>10, StartRoot
<1>7. QED  BY <1>3, <1>5, <1>6 DEF termination_domain_done

----------------------------------------------------------------------------
(* Preparing the next step *)

LEMMA SchedulePrepareInv ==
    ASSUME Proper, Inv, NEW p \in PUs, NEW t \in Threads, SchedulePrepare(p, t),
           UNCHANGED <<drain, queue, adding>>
    PROVE  /\ Inv' /\ Live' = Live /\ Waiting' = Waiting /\ Closings' = Closings /\ Finals' = Finals
           /\ \A q \in PUs : pu'[q].fired = pu[q].fired /\ pu'[q].drained = pu[q].drained
<1> USE DEF Inv
<1>1. tail[p][t] = "schedule" /\ Tails[p] = "schedule" /\ pu[p] \in Words /\ TailTo(p, "none")
  <2>1. tail[p][t] = "schedule" /\ tail' = [tail EXCEPT ![p][t] = "none"]
    BY DEF SchedulePrepare, Continue
  <2>2. Tails[p] = "schedule" /\ \A u \in Threads \ {t} : tail[p][u] = "none"
    BY <2>1, TailsAre DEF Typing
  <2>3. QED  BY <2>1, <2>2 DEF TailTo, Typing
<1>2. p \notin Live /\ p \notin Counting
  BY <1>1 DEF Live, Counting, Cores, Core
<1>4. Now \in 0 .. Steps - 1 /\ Steps \in Nat /\ 1 \in PUs
  <2>1. Steps \in Nat \ {0} /\ 1 \in PUs
    BY Basics
  <2>2. Now \in 0 .. Steps - 1
    BY <2>1 DEF Now, Typing, Words
  <2>3. QED  BY <2>1, <2>2
<1>3. PICK k \in 1 .. Steps : /\ k = pu[p].prep[1] + 1 /\ k \in {Now, Now + 1}
                              /\ pu[p].prep[2] = PrepDone /\ pu[p].prep # <<Steps, PrepDone>>
                              /\ Aim(p) = k
                              /\ p \in Shut => pu[p].step = Now /\ k = Now + 1
  <2>1. Core(p) /\ Tails[p] # "none" /\ pu[p].prep \in (0 .. Steps) \X (0 .. 2)
    BY <1>1 DEF Cores, Words
  <2>2. pu[p].prep[2] = PrepDone /\ Aim(p) = pu[p].prep[1] + 1
    BY <2>1 DEF Core, Aim
  <2>3. Aim(p) \in {Now, Now + 1} /\ (p \in Shut => pu[p].step = Now /\ Aim(p) = Now + 1)
    <3>1. CASE p \in Shut
      BY <2>1, <3>1 DEF Core
    <3>2. CASE p \notin Shut
      BY <1>2, <3>2 DEF Shut, Waiting
    <3>3. QED  BY <3>1, <3>2
  <2>4. PICK a \in 0 .. Steps, b \in 0 .. 2 : pu[p].prep = <<a, b>>
    BY <2>1
  <2>5. b = PrepDone /\ Aim(p) = a + 1
    BY <2>2, <2>4
  <2>6. a + 1 \in 1 .. Steps /\ a # Steps
    BY <1>4, <2>3, <2>5
  <2>7. pu[p].prep # <<Steps, PrepDone>> /\ pu[p].prep[1] = a
    BY <2>4, <2>6
  <2>8. QED  BY <2>2, <2>3, <2>5, <2>6, <2>7
<1>5. PICK r : r = [pu[p] EXCEPT !.prep = <<k, PrepQueued>>]
  OBVIOUS
<1>6. /\ pu' = [pu EXCEPT ![p] = r] /\ net' = net \cup {Next1(p, k, PrepQueued)}
      /\ UNCHANGED <<memory, notifier, window, halted>>
  <2>1. PICK next : next = <<pu[p].prep[1] + 1, PrepQueued>>
    OBVIOUS
  <2>2. next = <<k, PrepQueued>> /\ next[1] <= Steps
    BY <1>3, <1>4, <2>1
  <2>3. Continue(p, t, [pu[p] EXCEPT !.prep = next], {Msg("prepare_next", p, p, next)}, "none")
        /\ UNCHANGED <<halted, overtaken>>
    BY <2>1, <2>2 DEF SchedulePrepare
  <2>4. QED  BY <1>5, <2>2, <2>3 DEF Continue, Next1
<1>7. /\ r \in Words /\ r.prep = <<k, PrepQueued>>
      /\ r.spikeOn = pu[p].spikeOn /\ r.step = pu[p].step /\ r.s8 = pu[p].s8 /\ r.counter = pu[p].counter
      /\ r.drained = pu[p].drained /\ r.prepared = pu[p].prepared /\ r.fired = pu[p].fired
  <2>1. PICK y : y = <<k, PrepQueued>>
    OBVIOUS
  <2>2. y \in (0 .. Steps) \X (0 .. 2)
    BY <2>1 DEF PrepQueued
  <2>3. QED  BY <1>1, <1>5, <2>1, <2>2 DEF Words
<1>8. /\ pu'[p] = r /\ \A q \in PUs : q # p => pu'[q] = pu[q]
      /\ Tails'[p] = "none" /\ OneTail' /\ \A q \in PUs : q # p => Tails'[q] = Tails[q]
      /\ \A q \in PUs : /\ pu'[q].spikeOn = pu[q].spikeOn /\ pu'[q].step = pu[q].step
                        /\ pu'[q].counter = pu[q].counter /\ pu'[q].drained = pu[q].drained
                        /\ pu'[q].prepared = pu[q].prepared /\ pu'[q].fired = pu[q].fired
  <2>1. "none" \in Rests /\ OneTail
    BY DEF Rests, Typing
  <2>2. Tails'[p] = "none" /\ OneTail' /\ \A q \in PUs : q # p => Tails'[q] = Tails[q]
    BY <1>1, <2>1, TailStep
  <2>3. pu'[p] = r /\ \A q \in PUs : q # p => pu'[q] = pu[q]
    BY <1>6 DEF Typing
  <2>4. QED  BY <1>7, <2>2, <2>3
<1>9. Now' = Now /\ Waiting' = Waiting /\ Live' = Live /\ Shut' = Shut /\ Counting' = Counting
  <2>1. Now' = Now
    BY <1>4, <1>8 DEF Now
  <2>2. Aim(p)' = k
    BY <1>7, <1>8 DEF Aim
  <2>3. \A q \in PUs : Aim(q)' = Aim(q)
    <3>1. \A q \in PUs : q # p => Aim(q)' = Aim(q)
      BY <1>8 DEF Aim
    <3>2. Aim(p)' = Aim(p)
      BY <1>3, <2>2
    <3>3. QED  BY <3>1, <3>2
  <2>5. Waiting' = Waiting
    BY <1>8, <2>1, <2>3 DEF Waiting
  <2>6. Live' = Live
    BY <1>8 DEF Live
  <2>7. p \notin Counting' /\ \A q \in PUs : q # p => (q \in Counting' <=> q \in Counting)
    BY <1>8 DEF Counting
  <2>8. Counting' = Counting
    BY <1>2, <2>7 DEF Counting
  <2>9. QED  BY <2>1, <2>5, <2>6, <2>8 DEF Shut
<1>10. PICK x : /\ x = Next1(p, k, PrepQueued) /\ x.handler = "prepare_next" /\ x.to = p
  BY MsgIs DEF Next1
<1>11. /\ Prepares' = Prepares \cup {x}
       /\ Boots' = Boots /\ Readies' = Readies /\ Works' = Works /\ Reports' = Reports
       /\ Installs' = Installs /\ Idles' = Idles /\ Closings' = Closings /\ Finals' = Finals
       /\ Endings' = Endings
  BY <1>6, <1>10 DEF Of, Boots, Readies, Works, Reports, Installs, Idles, Closings, Finals, Prepares, Endings
<1>12. Typing'
  <2>1. pu' \in [PUs -> Words]
    BY <1>6, <1>7 DEF Typing
  <2>2. \A y \in net' : y.to \in PUs
    BY <1>6, <1>10 DEF Typing
  <2>3. QED  BY <1>6, <1>8, <2>1, <2>2 DEF Typing
<1>13. Cores'
  <2>1. Core(p)'
    <3>1. Neurons[p] \in Nat /\ pu[p].s8 = Neurons[p] + 1
      <4>1. pu[p].prep[2] = PrepDone
        BY <1>3
      <4>2. QED  BY <4>1, Basics DEF Cores, Core
    <3>2. \A i \in 1 .. Neurons[p] : window'[p][i] = k
      <4>1. Reached(pu[p]) = Neurons[p] + 1 /\ pu[p].prep[1] + 1 = k
        BY <1>3, <3>1 DEF Reached, PrepDone, PrepQueued
      <4>2. \A i \in 1 .. Neurons[p] : i < Reached(pu[p])
        BY <3>1, <4>1
      <4>3. QED  BY <1>6, <4>1, <4>2 DEF Cores, Core
    <3>3. Reached(r) = 1 /\ r.prep[1] = k /\ r.prep[2] = PrepQueued
      BY <1>7 DEF Reached
    <3>4. PrepQueued # PrepDone /\ PrepQueued # PrepRunning
      BY DEF PrepQueued, PrepDone, PrepRunning
    <3>5. \A i \in 1 .. Neurons[p] : ~ (i < 1)
      OBVIOUS
    <3>6. Aim(p)' = k
      BY <1>8, <3>3 DEF Aim
    <3>7. QED  BY <1>2, <1>3, <1>7, <1>8, <1>9, <3>1, <3>2, <3>3, <3>4, <3>5, <3>6 DEF Core
  <2>2. ASSUME NEW q \in PUs, q # p
        PROVE  Core(q)'
    <3>1. pu'[q] = pu[q] /\ window'[q] = window[q] /\ Tails'[q] = Tails[q]
      BY <1>6, <1>8, <2>2
    <3>2. QED  BY <1>9, <3>1 DEF Cores, Core, Aim
  <2>3. \A m \in Prepares' : \E q \in PUs, n \in 0 .. Steps, y \in {PrepQueued, PrepRunning} : m = Next1(q, n, y)
    <3>1. k \in 0 .. Steps
      OBVIOUS
    <3>2. QED  BY <1>10, <1>11, <3>1 DEF Cores
  <2>4. QED  BY <2>1, <2>2, <2>3 DEF Cores
<1>14. Booting' /\ Updating' /\ Reporting' /\ (AllUpdated' <=> AllUpdated)
  BY <1>4, <1>8, <1>9, <1>11, BootingFrame, UpdatingFrame, ReportingFrame, ReportedFrame
<1>15. Staged'
  BY <1>6, <1>9, <1>11, <1>14, StagedFrame
<1>16. Draining'
  <2>1. Gone' = Gone
    BY <1>9, <1>11 DEF Gone
  <2>2. pu'[1].counter = pu[1].counter /\ pu'[1].drained = pu[1].drained
    BY <1>4, <1>8
  <2>3. Reverse => Reverse'
    <3>1. (\A q \in PUs : Tails[q] # "count") => (\A q \in PUs : Tails'[q] # "count")
      BY <1>8
    <3>2. QED  BY <1>9, <1>11, <1>14, <2>1, <2>2, <3>1 DEF Reverse
  <2>4. Drained' = Drained
    BY <1>8, <1>9, <1>11 DEF Drained, Others
  <2>5. \A q \in PUs : pu'[q].drained = pu[q].drained
    BY <1>8
  <2>6. Tree => Tree'
    BY <1>4, <1>9, <1>11, <2>4, <2>5 DEF Tree, Others
  <2>7. QED  BY <2>3, <2>6 DEF Draining
<1>17. Ended' = Ended
  <2>1. p \notin Ended /\ p \notin Ended'
    <3>1. PrepQueued # PrepDone /\ pu[p].prep # <<Steps, PrepDone>>
      BY <1>3 DEF PrepQueued, PrepDone
    <3>2. pu'[p].prep # <<Steps, PrepDone>>
      BY <1>7, <1>8, <3>1
    <3>3. QED  BY <3>1, <3>2 DEF Ended
  <2>2. \A q \in PUs : q # p => (q \in Ended' <=> q \in Ended)
    BY <1>8 DEF Ended
  <2>3. QED  BY <2>1, <2>2 DEF Ended
<1>18. Preparing' /\ Spiking'
  <2>1. \A q \in PUs : pu'[q].prepared = pu[q].prepared
    BY <1>8
  <2>2. QED  BY <1>6, <1>9, <1>11, <1>17, <2>1, PreparingFrame, SpikingFrame
<1>19. QED  BY <1>8, <1>9, <1>11, <1>12, <1>13, <1>14, <1>15, <1>16, <1>18

\* The report of a subtree, or of a core itself, that it has prepared the state
\* after the last step.
LEMMA EndedTally ==
    ASSUME Typing, Preparing, NEW p \in PUs, NEW m, NEW n, NEW sum,
           \/ /\ \E x \in StartChildren(p) : m = Prepared(x) /\ m \in Endings /\ n = SubtreeSize(x)
              /\ Ended' = Ended
           \/ m \notin Endings /\ n = 1 /\ p \notin Ended /\ Ended' = Ended \cup {p},
           p \notin Waiting, ~ (Now + 1 < Steps), Now' = Now, Waiting' = Waiting,
           sum = pu[p].prepared + n, pu'[p].prepared = sum,
           \A q \in PUs : q # p => pu'[q].prepared = pu[q].prepared,
           \A x : x \in Endings' <=> \/ x \in Endings /\ x # m
                                     \/ x = Prepared(p) /\ p # 1 /\ sum = SubtreeSize(p)
    PROVE  Preparing' /\ sum \in 0 .. SubtreeSize(p)
<1>1. PICK all : all = SubtreeSize(p) /\ all \in 1 .. NumPU
  BY Basics
<1>2. \A c : Prepared(c).from = c
  BY ReportIs
<1>3. \A x \in StartChildren(p) : x \in Others /\ x \in PUs /\ x # p /\ Parent(x) = p
  <2>1. \A x \in StartChildren(p) : x \in Others /\ Parent(x) = p
    BY Children
  <2>2. QED  BY <2>1, ParentOf DEF Others, PUs
<1>4. PICK R :
        \/ /\ Ended' = Ended /\ m \in Endings
           /\ \E x \in StartChildren(p) : /\ m = Prepared(x) /\ n = SubtreeSize(x)
                                          /\ R = Told \cup {x} /\ x \notin Told
                                          /\ pu[x].prepared = SubtreeSize(x)
        \/ R = Told /\ m \notin Endings /\ n = 1 /\ p \notin Ended /\ Ended' = Ended \cup {p}
  <2>1. ASSUME NEW x \in StartChildren(p), m = Prepared(x), m \in Endings
        PROVE  x \notin Told /\ pu[x].prepared = SubtreeSize(x)
    BY <1>2, <2>1 DEF Told, Preparing
  <2>2. CASE m \in Endings
    <3>1. PICK x \in StartChildren(p) : m = Prepared(x) /\ n = SubtreeSize(x)
      BY <2>2
    <3>2. QED  BY <2>1, <2>2, <3>1
  <2>3. CASE m \notin Endings
    BY <2>3
  <2>4. QED  BY <2>2, <2>3
<1>5. n \in Nat \ {0}
  BY <1>3, <1>4, Basics
<1>6. /\ Cardinality(Tally(p, Ended', R)) = Cardinality(Tally(p, Ended, Told)) + n
      /\ \A q \in PUs : q # p => Tally(q, Ended', R) = Tally(q, Ended, Told)
  <2>1. CASE m \notin Endings
    BY <1>4, <2>1, TallyOwn, TallySame
  <2>2. CASE m \in Endings
    <3>1. PICK x \in StartChildren(p) :
             Ended' = Ended /\ n = SubtreeSize(x) /\ R = Told \cup {x} /\ x \notin Told
      BY <1>4, <2>2
    <3>2. \A q \in PUs : q # p => x \notin StartChildren(q)
      BY <3>1, Children
    <3>3. \A q \in PUs : q # p => Tally(q, Ended', R) = Tally(q, Ended, Told)
      BY <3>1, <3>2, TallySame
    <3>4. Cardinality(Tally(p, Ended, R)) = Cardinality(Tally(p, Ended, Told)) + n
      BY <3>1, TallyChild
    <3>5. QED  BY <3>1, <3>3, <3>4
  <2>3. QED  BY <2>1, <2>2
<1>7. /\ sum = Cardinality(Tally(p, Ended', R)) /\ sum \in 0 .. all
      /\ pu[p].prepared # all
  <2>1. pu[p].prepared = Cardinality(Tally(p, Ended, Told))
    BY DEF Preparing
  <2>2. Cardinality(Tally(p, Ended', R)) \in 0 .. all /\ Cardinality(Tally(p, Ended, Told)) \in 0 .. all
    BY <1>1, TallySize
  <2>3. PICK x, y : x = Cardinality(Tally(p, Ended, Told)) /\ y = Cardinality(Tally(p, Ended', R))
    OBVIOUS
  <2>4. x \in Nat /\ y \in Nat /\ all \in Nat /\ y = x + n /\ y <= all /\ pu[p].prepared = x
    BY <1>1, <1>6, <2>1, <2>2, <2>3
  <2>5. QED  BY <1>5, <2>3, <2>4
<1>8. p \notin Told /\ p \notin Told'
  <2>1. p \notin Told
    BY <1>1, <1>7 DEF Told
  <2>2. CASE sum = all /\ p # 1
    BY <1>1, <2>1, <2>2 DEF Told
  <2>3. CASE sum # all
    BY <1>1, <2>1, <2>3 DEF Told
  <2>4. CASE p = 1
    BY <2>1, <2>4 DEF Told, Others
  <2>5. QED  BY <2>1, <2>2, <2>3, <2>4
<1>9. ASSUME NEW q \in Others, q # p
      PROVE  q \in Told' <=> q \in R
  <2>1. pu'[q].prepared = pu[q].prepared
    BY <1>9 DEF Others
  <2>2. Prepared(q) \in Endings' <=> Prepared(q) \in Endings /\ Prepared(q) # m
    BY <1>2, <1>9
  <2>3. CASE m \notin Endings
    BY <1>4, <2>1, <2>2, <2>3 DEF Told
  <2>4. CASE m \in Endings
    <3>1. PICK x \in StartChildren(p) : /\ m = Prepared(x) /\ R = Told \cup {x}
                                        /\ pu[x].prepared = SubtreeSize(x)
      BY <1>4, <2>4
    <3>2. Prepared(q) = m <=> q = x
      BY <1>2, <3>1
    <3>3. QED  BY <2>1, <2>2, <3>1, <3>2 DEF Told
  <2>5. QED  BY <2>3, <2>4
<1>10. Told' = R
  <2>1. R \subseteq Others /\ p \notin R
    <3>1. Told \subseteq Others
      BY DEF Told
    <3>2. CASE m \notin Endings
      BY <1>4, <1>8, <3>1, <3>2
    <3>3. CASE m \in Endings
      <4>1. PICK x \in StartChildren(p) : R = Told \cup {x}
        BY <1>4, <3>3
      <4>2. QED  BY <1>3, <1>8, <3>1, <4>1
    <3>4. QED  BY <3>2, <3>3
  <2>2. Told' \subseteq Others
    BY DEF Told
  <2>3. QED  BY <1>8, <1>9, <2>1, <2>2
<1>11. \A x \in Endings' : \E c \in Others : x = Prepared(c) /\ pu'[c].prepared = SubtreeSize(c)
  <2>1. ASSUME NEW x \in Endings
        PROVE  \E c \in Others : x = Prepared(c) /\ pu'[c].prepared = SubtreeSize(c)
    <3>1. PICK c \in Others : x = Prepared(c) /\ pu[c].prepared = SubtreeSize(c)
      BY DEF Preparing
    <3>2. c # p
      BY <1>1, <1>7, <3>1
    <3>3. QED  BY <3>1, <3>2 DEF Others
  <2>2. p # 1 => p \in Others
    BY DEF Others
  <2>3. QED  BY <2>1, <2>2
<1>12. \A q \in PUs : pu'[q].prepared = Cardinality(Tally(q, Ended', Told'))
  BY <1>6, <1>7, <1>10 DEF Preparing
<1>13. \A q \in PUs : Now' + 1 < Steps \/ q \in Waiting' => pu'[q].prepared = 0
  BY DEF Preparing
<1>14. QED  BY <1>1, <1>7, <1>11, <1>12, <1>13 DEF Preparing

\* The step of a preparation event <<k, x>> of core p, m, that prepares neuron
\* at: r are the new words of the core, sent its next event or its report.
Prepares1(p, k, x, m, at, r, sent) ==
    /\ m \in Prepares /\ m = Next1(p, k, x) /\ pu[p].prep = <<k, x>> /\ at = Reached(pu[p])
    /\ r \in Words /\ r.s8 = at + 1
    /\ r.prep = <<k, IF at = Neurons[p] THEN PrepDone ELSE PrepRunning>>
    /\ r.counter = pu[p].counter /\ r.drained = pu[p].drained /\ r.step = pu[p].step
    /\ r.spikeOn = pu[p].spikeOn
    /\ pu' = [pu EXCEPT ![p] = r] /\ window' = [window EXCEPT ![p][at] = @ + 1]
    /\ net' = (net \ {m}) \cup sent
    /\ \A y \in sent : y = Next1(p, k, PrepRunning) \/ (y = Prepared(p) /\ p # 1)
    /\ halted' \in {"no", "ok"} /\ UNCHANGED <<memory, notifier, tail, drain, queue, adding>>

\* Such a step keeps everything but the count of prepared cores.
LEMMA PrepareStep ==
    ASSUME Proper, Inv, NEW p \in PUs, NEW k \in 0 .. Steps, NEW x \in {PrepQueued, PrepRunning},
           NEW m, NEW at, NEW r, NEW sent, Prepares1(p, k, x, m, at, r, sent)
    PROVE  /\ Typing' /\ Cores' /\ Booting' /\ Updating' /\ Reporting'
           /\ Staged' /\ Draining' /\ Spiking'
           /\ Now' = Now /\ Waiting' = Waiting /\ p \notin Live
           /\ pu'[p] = r /\ \A q \in PUs : q # p => pu'[q] = pu[q]
           /\ \A y : y \in Endings' <=> y \in Endings \/ (y \in sent /\ y = Prepared(p))
<1> USE DEF Inv, Prepares1
<1>1. pu'[p] = r /\ \A q \in PUs : q # p => pu'[q] = pu[q]
  BY DEF Typing
<1>2. \A q \in PUs : /\ pu'[q].prep[1] = pu[q].prep[1] /\ pu'[q].spikeOn = pu[q].spikeOn
                     /\ pu'[q].step = pu[q].step /\ pu'[q].counter = pu[q].counter
                     /\ pu'[q].drained = pu[q].drained
  BY <1>1
<1>3. 1 \in PUs /\ Neurons[p] \in Nat /\ Neurons[p] > 0
  BY Basics DEF Proper
<1>4. Now' = Now /\ Waiting' = Waiting /\ Live' = Live /\ Shut' = Shut /\ Counting' = Counting
  <2>1. Now' = Now
    BY <1>2, <1>3 DEF Now
  <2>2. Waiting' = Waiting /\ Live' = Live /\ Counting' = Counting
    BY <1>2, <2>1, TailsSame DEF Waiting, Live, Counting, Aim
  <2>3. QED  BY <2>1, <2>2 DEF Shut
<1>5. Core(p) /\ pu[p].prep[1] = k /\ pu[p].prep[2] = x /\ x # PrepDone
  BY DEF Cores, PrepQueued, PrepRunning, PrepDone
<1>6. p \notin Live /\ Tails[p] = "none" /\ (p \in Shut => k = Now + 1 /\ pu[p].step = Now)
  <2>1. <<k, x>> # <<Now, PrepDone>>
    BY <1>5
  <2>2. QED  BY <1>5, <2>1 DEF Core, Aim
<1>7. at \in 1 .. Neurons[p]
  <2>1. x = PrepQueued => at = 1
    BY <1>5 DEF Reached
  <2>2. x = PrepRunning => at = pu[p].s8 /\ pu[p].s8 <= Neurons[p]
    BY <1>5 DEF Reached, PrepQueued, PrepRunning, Core
  <2>3. pu[p].s8 \in 1 .. Neurons[p] + 1
    BY <1>5 DEF Core
  <2>4. QED  BY <1>3, <2>1, <2>2, <2>3
<1>8. /\ window'[p][at] = window[p][at] + 1
      /\ \A i \in 1 .. Neurons[p] : i # at => window'[p][i] = window[p][i]
      /\ DOMAIN window' = PUs /\ window'[p] \in [1 .. Neurons[p] -> Nat]
      /\ \A q \in PUs : q # p => window'[q] = window[q]
  <2>1. window[p] \in [1 .. Neurons[p] -> Nat] /\ DOMAIN window = PUs
    BY DEF Typing
  <2>2. window' = [window EXCEPT ![p] = [window[p] EXCEPT ![at] = window[p][at] + 1]]
    OBVIOUS
  <2>3. window[p][at] + 1 \in Nat
    BY <1>7, <2>1
  <2>4. window'[p] = [window[p] EXCEPT ![at] = window[p][at] + 1]
    BY <2>1, <2>2
  <2>5. [window[p] EXCEPT ![at] = window[p][at] + 1] \in [1 .. Neurons[p] -> Nat]
    BY <1>7, <2>1, <2>3
  <2>6. DOMAIN window' = PUs /\ \A q \in PUs : q # p => window'[q] = window[q]
    BY <2>1, <2>2
  <2>7. QED  BY <1>7, <2>1, <2>4, <2>5, <2>6
<1>9. m.handler = "prepare_next"
  BY MsgIs DEF Next1
<1>10. \A y \in sent : /\ y.handler \in {"prepare_next", "termination_prepare_reduce"} /\ y.to \in PUs
                       /\ y.handler = "termination_prepare_reduce" <=> y = Prepared(p)
                       /\ y.handler = "prepare_next" <=> y = Next1(p, k, PrepRunning)
  <2>1. /\ Next1(p, k, PrepRunning).handler = "prepare_next" /\ Next1(p, k, PrepRunning).to = p
        /\ Prepared(p).handler = "termination_prepare_reduce" /\ Prepared(p).to = Parent(p)
    BY MsgIs, ReportIs DEF Next1
  <2>2. p # 1 => Parent(p) \in PUs
    BY ParentOf DEF Others
  <2>3. QED  BY <2>1, <2>2
<1>11. /\ \A y \in Prepares' : y \in Prepares \/ y = Next1(p, k, PrepRunning)
       /\ \A y : y \in Endings' <=> y \in Endings \/ (y \in sent /\ y = Prepared(p))
       /\ Boots' = Boots /\ Readies' = Readies /\ Works' = Works /\ Reports' = Reports
       /\ Installs' = Installs /\ Idles' = Idles /\ Closings' = Closings /\ Finals' = Finals
  <2>1. Boots' = Boots /\ Readies' = Readies /\ Works' = Works /\ Reports' = Reports
    BY <1>9, <1>10 DEF Of, Boots, Readies, Works, Reports
  <2>2. Installs' = Installs /\ Idles' = Idles /\ Closings' = Closings /\ Finals' = Finals
    BY <1>9, <1>10 DEF Of, Installs, Idles, Closings, Finals
  <2>3. \A y \in Prepares' : y \in Prepares \/ y = Next1(p, k, PrepRunning)
    BY <1>10 DEF Of, Prepares
  <2>4. \A y : y \in Endings' <=> y \in Endings \/ (y \in sent /\ y = Prepared(p))
    BY <1>9, <1>10 DEF Of, Endings
  <2>5. QED  BY <2>1, <2>2, <2>3, <2>4
<1>12. Typing'
  <2>1. pu' \in [PUs -> Words]
    BY DEF Typing
  <2>2. \A y \in net' : y.to \in PUs
    BY <1>10 DEF Typing
  <2>2a. OneTail'
    BY TailsSame DEF Typing
  <2>3. \A q \in PUs : window'[q] \in [1 .. Neurons[q] -> Nat] /\ pu'[q].drained <= SubtreeSize(q)
    BY <1>2, <1>8 DEF Typing
  <2>4. QED  BY <1>8, <2>1, <2>2, <2>2a, <2>3 DEF Typing
<1>13. Cores'
  <2>1. Core(p)'
    <3>1. Reached(r) = at + 1 /\ r.prep[1] = k
      BY DEF Reached, PrepDone, PrepRunning, PrepQueued
    <3>2. \A i \in 1 .. Neurons[p] : window[p][i] = IF i < at THEN k + 1 ELSE k
      BY <1>5 DEF Core
    <3>3. \A i \in 1 .. Neurons[p] : window'[p][i] = IF i < at + 1 THEN k + 1 ELSE k
      BY <1>3, <1>7, <1>8, <3>2
    <3>4. at + 1 \in 1 .. Neurons[p] + 1 /\ (at = Neurons[p] => at + 1 = Neurons[p] + 1)
          /\ (at # Neurons[p] => at + 1 <= Neurons[p])
      BY <1>3, <1>7
    <3>5. r.prep[2] = IF at = Neurons[p] THEN PrepDone ELSE PrepRunning
      OBVIOUS
    <3>6. PrepDone # PrepRunning
      BY DEF PrepDone, PrepRunning
    <3>7. /\ p \in Shut => r.step = Now /\ Aim(p)' = Now + 1
          /\ Tails'[p] = "none"
      BY <1>1, <1>6, <3>1, TailsSame DEF Aim
    <3>8. QED  BY <1>1, <1>4, <1>6, <3>1, <3>3, <3>4, <3>5, <3>6, <3>7 DEF Core
  <2>2. ASSUME NEW q \in PUs, q # p
        PROVE  Core(q)'
    <3>1. pu'[q] = pu[q] /\ window'[q] = window[q]
      BY <1>1, <1>8, <2>2
    <3>2. QED  BY <1>4, <3>1, TailsSame DEF Cores, Core, Aim
  <2>3. QED  BY <1>11, <2>1, <2>2 DEF Cores
<1>14. Booting' /\ Updating' /\ Reporting' /\ (AllUpdated' <=> AllUpdated)
  BY <1>2, <1>3, <1>4, <1>11, BootingFrame, UpdatingFrame, ReportingFrame, ReportedFrame
<1>15. Staged' /\ Draining'
  BY <1>2, <1>3, <1>4, <1>11, <1>14, StagedFrame, DrainingFrame
<1>16. Spiking'
  BY <1>4, <1>11, SpikingFrame
<1>17. QED  BY <1>1, <1>4, <1>6, <1>11, <1>12, <1>13, <1>14, <1>15, <1>16

LEMMA PrepareInv ==
    ASSUME Proper, Inv, NEW m \in Prepares, NEW t, prepare_next(m, t), UNCHANGED <<drain, queue, adding>>
    PROVE  Inv'
<1> USE DEF Inv
<1>1. PICK p \in PUs, k \in 0 .. Steps, x \in {PrepQueued, PrepRunning} : m = Next1(p, k, x)
  BY DEF Cores
<1>2. m.to = p /\ m.args = <<k, x>> /\ m.args[1] = k /\ m.args[2] = x /\ m.handler = "prepare_next" /\ m \in net
  BY <1>1, MsgIs DEF Next1, Prepares, Of
<1>3. pu[p] \in Words /\ Neurons[p] \in Nat /\ Neurons[p] > 0 /\ pu \in [PUs -> Words] /\ halted \in {"no", "ok"}
  BY Basics DEF Typing, Proper
<1>4. UNCHANGED <<memory, notifier, tail, drain, queue, adding>>
  BY DEF prepare_next
<1>5. CASE Becomes(m, pu[m.to], {}) /\ UNCHANGED <<window, halted>>
  <2>1. pu' = pu /\ net' = net \ {m}
    BY <1>2, <1>3, <1>5 DEF Becomes
  <2>2. Now' = Now /\ Waiting' = Waiting /\ Live' = Live /\ Shut' = Shut
    BY <1>4, <2>1, Still
  <2>3. /\ Prepares' \subseteq Prepares
        /\ Boots' = Boots /\ Readies' = Readies /\ Works' = Works /\ Reports' = Reports
        /\ Installs' = Installs /\ Idles' = Idles /\ Closings' = Closings /\ Finals' = Finals
        /\ Endings' = Endings
    BY <1>2, <2>1 DEF Of, Boots, Readies, Works, Reports, Installs, Idles, Closings, Finals, Prepares, Endings
  <2>4. Typing'
    BY <1>4, <1>5, <2>1, TailsSame DEF Typing
  <2>5. Cores' /\ Booting' /\ Updating' /\ Reporting' /\ (AllUpdated' <=> AllUpdated)
    BY <1>4, <1>5, <2>1, <2>2, <2>3, CoresFrame, BootingFrame, UpdatingFrame, ReportingFrame, ReportedFrame
  <2>6. Staged' /\ Draining'
    BY <1>4, <2>1, <2>2, <2>3, <2>5, StagedFrame, DrainingFrame
  <2>7. Preparing' /\ Spiking'
    BY <1>4, <2>1, <2>2, <2>3, PreparingFrame, SpikingFrame DEF Ended
  <2>8. QED  BY <2>4, <2>5, <2>6, <2>7
<1> DEFINE at == IF m.args[2] = PrepQueued THEN 1 ELSE pu[m.to].s8
           last == at = Neurons[m.to]
           next == [pu[m.to] EXCEPT !.s8 = at + 1,
                                    !.prep = <<m.args[1], IF last THEN PrepDone ELSE PrepRunning>>]
<1>6. CASE ~Stale(m) /\ at <= Neurons[m.to]
  <2>0. ~Stale(m) /\ ~(at > Neurons[m.to])
    <3>1. pu[p].s8 \in Nat
      BY <1>3 DEF Words
    <3>2. at \in Nat
      BY <1>2, <3>1
    <3>3. QED  BY <1>2, <1>3, <1>6, <3>2
  <2>1. window' = [window EXCEPT ![m.to][at] = @ + 1]
    BY <2>0 DEF prepare_next
  <2>2. pu[p].prep = <<k, x>>
    BY <1>2, <1>6 DEF Stale
  <2>3. PICK a \in Nat : a = Reached(pu[p]) /\ a = at
    <3>1. pu[p].prep[2] = x
      BY <2>2
    <3>2. pu[p].s8 \in Nat
      BY <1>3 DEF Words
    <3>3. QED  BY <1>2, <3>1, <3>2 DEF Reached
  <2>4. PICK r : r = next
    OBVIOUS
  <2>5. /\ r \in Words /\ r.s8 = a + 1 /\ r.prep = <<k, IF a = Neurons[p] THEN PrepDone ELSE PrepRunning>>
        /\ r.counter = pu[p].counter /\ r.drained = pu[p].drained /\ r.step = pu[p].step
        /\ r.spikeOn = pu[p].spikeOn /\ r.prepared = pu[p].prepared
    <3>1. r = [pu[p] EXCEPT !.s8 = a + 1, !.prep = <<k, IF a = Neurons[p] THEN PrepDone ELSE PrepRunning>>]
      BY <1>2, <2>3, <2>4
    <3>2. PICK z \in 0 .. 2 : z = IF a = Neurons[p] THEN PrepDone ELSE PrepRunning
      BY DEF PrepDone, PrepRunning
    <3>3. <<k, z>> \in (0 .. Steps) \X (0 .. 2)
      OBVIOUS
    <3>4. r = [pu[p] EXCEPT !.s8 = a + 1, !.prep = <<k, z>>]
      BY <3>1, <3>2
    <3>5. PICK y : y = <<k, z>>
      OBVIOUS
    <3>6. y \in (0 .. Steps) \X (0 .. 2) /\ a + 1 \in Nat
      BY <3>3, <3>5
    <3>7. r = [pu[p] EXCEPT !.s8 = a + 1, !.prep = y]
      BY <3>4, <3>5
    <3>8. /\ r \in Words /\ r.s8 = a + 1 /\ r.prep = y
          /\ r.counter = pu[p].counter /\ r.drained = pu[p].drained /\ r.step = pu[p].step
          /\ r.spikeOn = pu[p].spikeOn /\ r.prepared = pu[p].prepared
      BY <1>3, <3>6, <3>7 DEF Words
    <3>9. QED  BY <3>2, <3>5, <3>8
  <2>6. window' = [window EXCEPT ![p][a] = @ + 1]
    BY <1>2, <2>1, <2>3
  <2>7. x # PrepDone /\ PrepRunning # PrepDone
    BY DEF PrepQueued, PrepRunning, PrepDone
  <2>8. p \notin Ended
    BY <2>2, <2>7 DEF Ended
  <2>9. \/ a # Neurons[p] /\ Becomes(m, r, {Msg("prepare_next", p, p, r.prep)}) /\ UNCHANGED halted
        \/ a = Neurons[p] /\ k # Steps /\ Becomes(m, r, {}) /\ UNCHANGED halted
        \/ a = Neurons[p] /\ k = Steps /\ PrepareReduce(m, r, 1)
    <3>1. \/ ~last /\ Becomes(m, next, {Msg("prepare_next", m.to, m.to, next.prep)}) /\ UNCHANGED halted
          \/ last /\ m.args[1] # Steps /\ Becomes(m, next, {}) /\ UNCHANGED halted
          \/ last /\ m.args[1] = Steps /\ PrepareReduce(m, next, 1)
      BY <2>0 DEF prepare_next
    <3>2. (last <=> a = Neurons[p]) /\ next = r
      BY <1>2, <2>3, <2>4
    <3> HIDE DEF at, last, next
    <3>3. QED  BY <1>2, <3>1, <3>2
  <2> HIDE DEF at, last, next
  <2>10. CASE \/ a # Neurons[p] /\ Becomes(m, r, {Msg("prepare_next", p, p, r.prep)}) /\ UNCHANGED halted
              \/ a = Neurons[p] /\ k # Steps /\ Becomes(m, r, {}) /\ UNCHANGED halted
    <3>0. PICK sent : sent = IF a # Neurons[p] THEN {Next1(p, k, PrepRunning)} ELSE {}
      OBVIOUS
    <3>1. /\ pu' = [pu EXCEPT ![p] = r] /\ net' = (net \ {m}) \cup sent
          /\ \A y \in sent : y = Next1(p, k, PrepRunning)
          /\ (a = Neurons[p] => k # Steps)
      <4>1. CASE a # Neurons[p] /\ Becomes(m, r, {Msg("prepare_next", p, p, r.prep)})
        <5>1. Msg("prepare_next", p, p, r.prep) = Next1(p, k, PrepRunning)
          BY <2>5, <4>1 DEF Next1
        <5>2. pu' = [pu EXCEPT ![p] = r] /\ net' = (net \ {m}) \cup {Next1(p, k, PrepRunning)}
          BY <1>2, <4>1, <5>1 DEF Becomes
        <5>3. QED  BY <3>0, <4>1, <5>2
      <4>2. CASE a = Neurons[p] /\ k # Steps /\ Becomes(m, r, {})
        BY <1>2, <3>0, <4>2 DEF Becomes
      <4>3. QED  BY <2>10, <4>1, <4>2
    <3>2. halted' \in {"no", "ok"}
      BY <1>3, <2>10
    <3>3. /\ Typing' /\ Cores' /\ Booting' /\ Updating' /\ Reporting'
          /\ Staged' /\ Draining' /\ Spiking'
          /\ Now' = Now /\ Waiting' = Waiting
          /\ pu'[p] = r /\ \A q \in PUs : q # p => pu'[q] = pu[q]
          /\ \A y : y \in Endings' <=> y \in Endings \/ (y \in sent /\ y = Prepared(p))
      <4>1. \A y \in sent : y = Next1(p, k, PrepRunning) \/ (y = Prepared(p) /\ p # 1)
        BY <3>1
      <4>2. m \in Prepares /\ a = Reached(pu[p]) /\ r.prep = <<k, IF a = Neurons[p] THEN PrepDone ELSE PrepRunning>>
        BY <2>3, <2>5
      <4>3. Prepares1(p, k, x, m, a, r, sent)
        BY <1>1, <1>4, <2>2, <2>5, <2>6, <3>1, <3>2, <4>1, <4>2 DEF Prepares1
      <4> HIDE DEF Inv
      <4>4. Inv
        OBVIOUS
      <4>5. QED  BY <4>3, <4>4, PrepareStep
    <3>4. Endings' = Endings
      <4>1. Next1(p, k, PrepRunning) # Prepared(p)
        <5>1. Next1(p, k, PrepRunning).handler = "prepare_next"
          BY MsgIs DEF Next1
        <5>2. Prepared(p).handler = "termination_prepare_reduce"
          BY ReportIs
        <5>3. QED  BY <5>1, <5>2
      <4>2. QED  BY <3>1, <3>3, <4>1
    <3>5. Ended' = Ended
      <4>1. r.prep # <<Steps, PrepDone>>
        BY <2>5, <2>7, <3>1
      <4>2. p \notin Ended'
        BY <3>3, <4>1 DEF Ended
      <4>3. \A q \in PUs : q # p => (q \in Ended' <=> q \in Ended)
        BY <3>3 DEF Ended
      <4>4. QED  BY <2>8, <4>2, <4>3 DEF Ended
    <3>6. \A q \in PUs : pu'[q].prepared = pu[q].prepared
      BY <2>5, <3>3
    <3>7. Preparing'
      BY <3>3, <3>4, <3>5, <3>6, PreparingFrame
    <3>8. QED  BY <3>3, <3>7
  <2>11. CASE a = Neurons[p] /\ k = Steps /\ PrepareReduce(m, r, 1)
    <3>1. PICK sum, all : sum = pu[p].prepared + 1 /\ all = SubtreeSize(p)
      OBVIOUS
    <3>2. sum \in 0 .. all /\ all \in 1 .. NumPU
      <4>1. Cardinality(Tally(p, Ended \cup {p}, Told)) = Cardinality(Tally(p, Ended, Told)) + 1
        BY <2>8, TallyOwn
      <4>2. Cardinality(Tally(p, Ended \cup {p}, Told)) \in 0 .. SubtreeSize(p)
        BY TallySize
      <4>3. pu[p].prepared = Cardinality(Tally(p, Ended, Told))
        BY DEF Preparing
      <4>4. QED  BY <3>1, <4>1, <4>2, <4>3, Basics
    <3>3. PICK q : q = [r EXCEPT !.prepared = sum]
      OBVIOUS
    <3>4. /\ q \in Words /\ q.s8 = a + 1 /\ q.prep = <<k, IF a = Neurons[p] THEN PrepDone ELSE PrepRunning>>
          /\ q.counter = pu[p].counter /\ q.drained = pu[p].drained /\ q.step = pu[p].step
          /\ q.spikeOn = pu[p].spikeOn /\ q.prepared = sum
      <4>1. sum \in 0 .. NumPU
        BY <3>2, Basics
      <4>2. QED  BY <2>5, <3>3, <4>1 DEF Words
    <3>5. PICK sent : sent = IF sum = all /\ p # 1 THEN {Prepared(p)} ELSE {}
      OBVIOUS
    <3>6. /\ pu' = [pu EXCEPT ![p] = q] /\ net' = (net \ {m}) \cup sent
          /\ halted' \in {"no", "ok"}
      <4>1. r.prepared + 1 = sum
        BY <2>5, <3>1
      <4>2. Prepared(p) = Msg("termination_prepare_reduce", p, Parent(p), <<all>>)
        BY <3>1 DEF Prepared
      <4>3. PrepareReduce(m, r, 1)
        BY <2>11
      <4>4. ~ (sum > all)
        BY <3>2
      <4>5. pu' = [pu EXCEPT ![m.to] = [r EXCEPT !.prepared = r.prepared + 1]]
        BY <4>3 DEF PrepareReduce, Becomes
      <4>6. net' = (net \ {m}) \cup sent
        BY <1>2, <3>1, <3>5, <4>1, <4>2, <4>3 DEF PrepareReduce, Becomes
      <4>7. halted' \in {halted, "ok"}
        BY <1>2, <3>1, <4>1, <4>3, <4>4 DEF PrepareReduce
      <4>8. QED  BY <1>2, <1>3, <3>3, <4>1, <4>5, <4>6, <4>7
    <3>7. \A y \in sent : y = Prepared(p) /\ p # 1
      BY <3>5
    <3>8. /\ Typing' /\ Cores' /\ Booting' /\ Updating' /\ Reporting'
          /\ Staged' /\ Draining' /\ Spiking'
          /\ Now' = Now /\ Waiting' = Waiting /\ p \notin Live
          /\ pu'[p] = q /\ \A z \in PUs : z # p => pu'[z] = pu[z]
          /\ \A y : y \in Endings' <=> y \in Endings \/ (y \in sent /\ y = Prepared(p))
      <4>1. \A y \in sent : y = Next1(p, k, PrepRunning) \/ (y = Prepared(p) /\ p # 1)
        BY <3>7
      <4>2. m \in Prepares /\ a = Reached(pu[p]) /\ q.prep = <<k, IF a = Neurons[p] THEN PrepDone ELSE PrepRunning>>
        BY <2>3, <3>4
      <4>3. Prepares1(p, k, x, m, a, q, sent)
        BY <1>1, <1>4, <2>2, <2>6, <3>4, <3>6, <4>1, <4>2 DEF Prepares1
      <4> HIDE DEF Inv
      <4>4. Inv
        OBVIOUS
      <4>5. QED  BY <4>3, <4>4, PrepareStep
    <3>9. a = Neurons[p] /\ k = Steps
      BY <2>11
    <3>10. Ended' = Ended \cup {p}
      <4>1. q.prep = <<Steps, PrepDone>>
        BY <3>4, <3>9
      <4>2. p \in Ended'
        BY <3>8, <4>1 DEF Ended
      <4>3. \A z \in PUs : z # p => (z \in Ended' <=> z \in Ended)
        BY <3>8 DEF Ended
      <4>4. QED  BY <4>2, <4>3 DEF Ended
    <3>11. Now \in 0 .. Steps - 1 /\ Steps \in Nat
      BY Basics DEF Now, Typing, Words
    <3>12. pu[p].prep[1] = Steps /\ Now # Steps
      BY <2>2, <3>9, <3>11
    <3>12a. Tails[p] = "none"
      BY <2>2, <2>7 DEF Cores, Core
    <3>13. p \notin Waiting
      BY <3>12, <3>12a DEF Waiting, Aim
    <3>14. ~ (Now + 1 < Steps)
      <4>1. p \in Shut
        BY <3>8, <3>13 DEF Shut
      <4>2. Steps = Now + 1
        BY <3>12, <3>12a, <4>1 DEF Cores, Core, Aim
      <4>3. QED  BY <3>11, <4>2
    <3>15. m \notin Endings
      BY <1>2 DEF Endings, Of
    <3>16. \A y : y \in Endings' <=> \/ y \in Endings /\ y # m
                                     \/ y = Prepared(p) /\ p # 1 /\ sum = SubtreeSize(p)
      BY <3>1, <3>5, <3>8, <3>15
    <3>17. \A z \in PUs : z # p => pu'[z].prepared = pu[z].prepared
      BY <3>8
    <3>18. pu'[p].prepared = sum /\ sum = pu[p].prepared + 1
      BY <3>1, <3>4, <3>8
    <3>19. Preparing'
      BY <2>8, <3>8, <3>10, <3>13, <3>14, <3>15, <3>16, <3>17, <3>18, EndedTally
    <3>20. QED  BY <3>8, <3>19
  <2>12. QED  BY <2>9, <2>10, <2>11
<1>7. ~Stale(m) => at <= Neurons[m.to]
  <2>1. ASSUME ~Stale(m)
        PROVE  at <= Neurons[m.to]
    <3>1. pu[p].prep = <<k, x>>
      BY <1>2, <2>1 DEF Stale
    <3>2. x = PrepRunning => pu[p].s8 <= Neurons[p]
      BY <3>1 DEF Cores, Core
    <3>3. QED  BY <1>2, <1>3, <3>2
  <2>2. QED  BY <2>1
<1>8. QED
  <2>1. CASE Stale(m)
    BY <1>5, <2>1 DEF prepare_next
  <2>2. CASE ~Stale(m)
    BY <1>6, <1>7, <2>2
  <2>3. QED  BY <2>1, <2>2

\* A subtree is prepared for the end.
LEMMA EndingInv ==
    ASSUME Proper, Inv, NEW m \in Endings, NEW t, termination_prepare_reduce(m, t), UNCHANGED <<drain, queue, adding>>
    PROVE  Inv'
<1> USE DEF Inv
<1>1. PICK x \in Others : m = Prepared(x) /\ pu[x].prepared = SubtreeSize(x)
  BY DEF Preparing
<1>2. PICK p : p = Parent(x)
  OBVIOUS
<1>3. p \in PUs /\ x \in StartChildren(p) /\ x \in PUs
  BY <1>2, ParentOf, Children DEF Others
<1>4. PICK n, sum, all : n = SubtreeSize(x) /\ sum = pu[p].prepared + n /\ all = SubtreeSize(p)
  OBVIOUS
<1>5. n \in 1 .. NumPU /\ all \in 1 .. NumPU /\ NumPU \in Nat
  BY <1>3, <1>4, Basics
<1>6. /\ m.handler = "termination_prepare_reduce" /\ m.to = p /\ m.args[1] = n /\ m \in net
      /\ m \in Endings
  BY <1>1, <1>2, <1>4, ReportIs DEF Endings, Of
<1>7. pu[p] \in Words /\ pu \in [PUs -> Words] /\ halted \in {"no", "ok"}
  BY <1>3 DEF Typing
<1>8. ~ (Now + 1 < Steps) /\ p \notin Waiting
  <2>1. ~ (Now + 1 < Steps) /\ x \notin Waiting
    BY <1>1, <1>3, <1>4, <1>5 DEF Preparing
  <2>2. QED  BY <1>2, <2>1 DEF Booting
<1>9. PICK sent : sent = IF sum = all /\ p # 1 THEN {Prepared(p)} ELSE {}
  OBVIOUS
<1>10. PrepareReduce(m, pu[p], n) /\ UNCHANGED <<memory, notifier, tail, window>>
  BY <1>6 DEF termination_prepare_reduce
<1>11. /\ pu' = [pu EXCEPT ![p] = [pu[p] EXCEPT !.prepared = sum]] /\ net' = (net \ {m}) \cup sent
       /\ sum > all \/ halted' \in {halted, "ok"}
  <2>1. Prepared(p) = Msg("termination_prepare_reduce", p, Parent(p), <<all>>)
    BY <1>4 DEF Prepared
  <2>2. pu' = [pu EXCEPT ![p] = [pu[p] EXCEPT !.prepared = sum]]
    BY <1>4, <1>6, <1>10 DEF PrepareReduce, Becomes
  <2>3. net' = (net \ {m}) \cup sent
    BY <1>4, <1>6, <1>9, <1>10, <2>1 DEF PrepareReduce, Becomes
  <2>4. sum > all \/ halted' \in {halted, "ok"}
    BY <1>4, <1>6, <1>10 DEF PrepareReduce
  <2>5. QED  BY <2>2, <2>3, <2>4
<1>12. /\ pu'[p] = [pu[p] EXCEPT !.prepared = sum] /\ \A q \in PUs : q # p => pu'[q] = pu[q]
  BY <1>3, <1>7, <1>11
<1>13. \A q \in PUs : /\ pu'[q].prep = pu[q].prep /\ pu'[q].spikeOn = pu[q].spikeOn
                      /\ pu'[q].step = pu[q].step /\ pu'[q].counter = pu[q].counter
                      /\ pu'[q].drained = pu[q].drained /\ pu'[q].s8 = pu[q].s8
  BY <1>7, <1>12 DEF Words
<1>14. pu'[p].prepared = sum /\ \A q \in PUs : q # p => pu'[q].prepared = pu[q].prepared
  BY <1>7, <1>12 DEF Words
<1>15. tail' = tail /\ window' = window /\ notifier' = notifier /\ memory' = memory
  BY <1>10
<1>16. Now' = Now /\ Waiting' = Waiting /\ Live' = Live /\ Shut' = Shut
  BY <1>13, <1>15, Still
<1>17. Ended' = Ended
  BY <1>13 DEF Ended
<1>18. \A y \in sent : /\ y.handler = "termination_prepare_reduce" /\ y.to \in PUs
                       /\ y = Prepared(p) /\ p # 1 /\ sum = all
  <2>1. Prepared(p).handler = "termination_prepare_reduce" /\ Prepared(p).to = Parent(p)
    BY ReportIs
  <2>2. p # 1 => Parent(p) \in PUs
    BY <1>3, ParentOf DEF Others
  <2>3. QED  BY <1>9, <2>1, <2>2
<1>19. /\ Boots' = Boots /\ Readies' = Readies /\ Works' = Works /\ Reports' = Reports
       /\ Installs' = Installs /\ Idles' = Idles /\ Closings' = Closings /\ Finals' = Finals
       /\ Prepares' = Prepares
  <2>1. Boots' = Boots /\ Readies' = Readies /\ Works' = Works /\ Reports' = Reports
    BY <1>6, <1>11, <1>18 DEF Of, Boots, Readies, Works, Reports
  <2>2. Installs' = Installs /\ Idles' = Idles /\ Closings' = Closings /\ Finals' = Finals /\ Prepares' = Prepares
    BY <1>6, <1>11, <1>18 DEF Of, Installs, Idles, Closings, Finals, Prepares
  <2>3. QED  BY <2>1, <2>2
<1>20. \A y : y \in Endings' <=> \/ y \in Endings /\ y # m
                                 \/ y = Prepared(p) /\ p # 1 /\ sum = SubtreeSize(p)
  <2>1. \A y : y \in Endings' <=> (y \in Endings /\ y # m) \/ y \in sent
    BY <1>11, <1>18 DEF Of, Endings
  <2>2. \A y : y \in sent <=> y = Prepared(p) /\ p # 1 /\ sum = all
    BY <1>9
  <2>3. QED  BY <1>4, <2>1, <2>2
<1>21. Preparing' /\ sum \in 0 .. SubtreeSize(p)
  <2>1. /\ \E c \in StartChildren(p) : m = Prepared(c) /\ m \in Endings /\ n = SubtreeSize(c)
        /\ Ended' = Ended
    BY <1>1, <1>3, <1>4, <1>6, <1>17
  <2>2. QED  BY <1>3, <1>4, <1>8, <1>14, <1>16, <1>20, <2>1, EndedTally
<1>22. halted' \in {"no", "ok"}
  BY <1>4, <1>5, <1>7, <1>11, <1>21
<1>23. Typing'
  <2>1. sum \in 0 .. NumPU
    BY <1>4, <1>5, <1>21
  <2>2. [pu[p] EXCEPT !.prepared = sum] \in Words
    BY <1>7, <2>1 DEF Words
  <2>3. pu' \in [PUs -> Words]
    BY <1>7, <1>11, <2>2
  <2>4. \A y \in net' : y.to \in PUs
    BY <1>11, <1>18 DEF Typing
  <2>5. \A q \in PUs : pu'[q].drained <= SubtreeSize(q)
    BY <1>13 DEF Typing
  <2>6. OneTail'
    BY <1>15, TailsSame DEF Typing
  <2>7. QED  BY <1>15, <1>22, <2>3, <2>4, <2>5, <2>6 DEF Typing
<1>24. Cores' /\ Booting' /\ Updating' /\ Reporting' /\ (AllUpdated' <=> AllUpdated)
  <2>1. 1 \in PUs
    BY Basics
  <2>2. QED  BY <1>13, <1>15, <1>16, <1>19, <2>1, CoresFrame, BootingFrame, UpdatingFrame, ReportingFrame, ReportedFrame
<1>25. Staged' /\ Draining'
  <2>1. 1 \in PUs
    BY Basics
  <2>2. QED  BY <1>13, <1>15, <1>16, <1>19, <1>24, <2>1, StagedFrame, DrainingFrame
<1>26. Spiking'
  BY <1>15, <1>16, <1>19, SpikingFrame
<1>27. QED  BY <1>21, <1>23, <1>24, <1>25, <1>26

----------------------------------------------------------------------------
(* Every step keeps the invariant *)

\* A handler that opens its core finds no tail there, one that closes it finds no
\* spike, unless a thread is overtaken.
LEMMA HandleInv ==
    ASSUME Proper, Inv, ~overtaken', Handle
    PROVE  Inv'
<1>1. PICK m \in net, t \in Threads : /\ MayRun(m, t) /\ Run(m, t) /\ UNCHANGED <<drain, queue, adding>>
                                      /\ overtaken' = (overtaken \/ Overtakes(m.to, t))
  BY DEF Handle
<1>2. m.to \in PUs /\ ~Overtakes(m.to, t) /\ tail[m.to][t] = "none" /\ adding[m.to][t] = {}
  <2>1. ~Overtakes(m.to, t)
    BY <1>1, Zenon
  <2>2. QED  BY <1>1, <2>1 DEF Inv, Typing, MayRun, Idle
<1>2a. pu'[m.to].spikeOn /\ ~pu[m.to].spikeOn => Tails[m.to] = "none"
  <2>1. ASSUME pu'[m.to].spikeOn, ~pu[m.to].spikeOn, NEW u \in Threads
        PROVE  tail[m.to][u] = "none"
    BY <1>2, <2>1 DEF Overtakes
  <2>2. QED  BY <1>2, <2>1, TailsAre DEF Inv, Typing
<1>2b. m.handler # "termination_reduce" =>
          (m.to \in Live /\ ~pu'[m.to].spikeOn => Here(m.to) = {})
  <2>1. ASSUME m.handler # "termination_reduce", m.to \in Live, ~pu'[m.to].spikeOn
        PROVE  Here(m.to) = {}
    <3>1. pu[m.to].spikeOn
      BY <2>1 DEF Live
    <3>2. queue[m.to] = {}
      BY <1>1, <2>1, <3>1 DEF MayRun, SpikeReady
    <3>3. \A u \in Threads : adding[m.to][u] = {}
      BY <1>2, <2>1, <3>1 DEF Overtakes
    <3>4. QED  BY <3>2, <3>3 DEF Here, Threads
  <2>2. QED  BY <2>1
<1>3. CASE \/ m.handler = "boot_control" /\ boot_control(m, t)
           \/ m.handler = "boot_ready" /\ boot_ready(m, t)
  BY <1>1, <1>2a, <1>3, BootInv
<1>4. CASE \/ m.handler = "work_update" /\ work_update(m, t)
           \/ m.handler = "termination_reduce" /\ termination_reduce(m, t)
  BY <1>1, <1>4, UpdateInv
<1>5. CASE m.handler = "termination_install" /\ termination_install(m, t)
  <2>1. m \in Installs
    BY <1>5 DEF Installs, Of
  <2>2. QED  BY <1>1, <1>5, <2>1, InstallInv
<1>6. CASE m.handler = "termination_idle" /\ termination_idle(m, t)
  <2>1. m \in Idles
    BY <1>6 DEF Idles, Of
  <2>2. QED  BY <1>1, <1>2b, <1>6, <2>1, IdleInv
<1>7. CASE m.handler = "termination_drain" /\ (termination_reverse(m, t) \/ termination_tree(m, t))
  <2>1. m \in Closings
    BY <1>7 DEF Closings, Of
  <2>2. QED  BY <1>1, <1>2b, <1>7, <2>1, DrainInv
<1>8. CASE m.handler = "termination_domain_done" /\ termination_domain_done(m, t)
  <2>1. m \in Finals
    BY <1>8 DEF Finals, Of
  <2>2. m.to = 1
    <3>1. drain \in {"reverse", "tree"}
      BY SnnAssumption DEF Inv, Typing
    <3>2. drain = "tree" => m.to = 1
      <4>1. drain = "tree" => m = Final(0, m.args[1])
        BY <2>1 DEF Inv, Draining, Tree
      <4>2. QED  BY <4>1, StageIs
    <3>3. QED  BY <2>1, <3>1, <3>2, OneMore
  <2>3. QED  BY <1>1, <1>2a, <1>8, <2>1, <2>2, DoneInv
<1>9. CASE m.handler = "prepare_next" /\ prepare_next(m, t)
  <2>1. m \in Prepares
    BY <1>9 DEF Prepares, Of
  <2>2. QED  BY <1>1, <1>9, <2>1, PrepareInv
<1>10. CASE m.handler = "termination_prepare_reduce" /\ termination_prepare_reduce(m, t)
  <2>1. m \in Endings
    BY <1>10 DEF Endings, Of
  <2>2. QED  BY <1>1, <1>10, <2>1, EndingInv
<1>11. QED  BY <1>1, <1>3, <1>4, <1>5, <1>6, <1>7, <1>8, <1>9, <1>10 DEF Run

LEMMA SameInv ==
    ASSUME Inv, UNCHANGED vars
    PROVE  Inv'
<1>1. /\ drain' = drain /\ net' = net /\ memory' = memory /\ notifier' = notifier /\ queue' = queue
      /\ adding' = adding /\ pu' = pu /\ tail' = tail /\ halted' = halted /\ window' = window
  BY DEF vars, handlerVars
<1> USE DEF Inv
<1>2. Now' = Now /\ Waiting' = Waiting /\ Live' = Live /\ Shut' = Shut
  BY <1>1, Still
<1>3. /\ Boots' = Boots /\ Readies' = Readies /\ Works' = Works /\ Reports' = Reports
      /\ Installs' = Installs /\ Idles' = Idles /\ Closings' = Closings /\ Finals' = Finals
      /\ Prepares' = Prepares /\ Endings' = Endings
  BY <1>1, NetSame
<1>4. 1 \in PUs
  BY Basics
<1>5. Cores' /\ Booting' /\ Updating' /\ Reporting' /\ (AllUpdated' <=> AllUpdated)
  BY <1>1, <1>2, <1>3, <1>4, CoresFrame, BootingFrame, UpdatingFrame, ReportingFrame, ReportedFrame
<1>6. Staged' /\ Draining'
  BY <1>1, <1>2, <1>3, <1>4, <1>5, StagedFrame, DrainingFrame
<1>7. Preparing' /\ Spiking'
  BY <1>1, <1>2, <1>3, PreparingFrame, SpikingFrame DEF Ended
<1>8. Typing'
  BY <1>1, TailsSame DEF Typing
<1>9. QED  BY <1>5, <1>6, <1>7, <1>8

LEMMA NextInv ==
    ASSUME Proper, Inv, ~overtaken', [Next]_vars
    PROVE  Inv'
<1>1. CASE UNCHANGED vars
  BY <1>1, SameInv
<1>2. CASE Rest
  <2>1. PICK p \in PUs, t \in Threads : Count(p, t) \/ SchedulePrepare(p, t)
    BY <1>2 DEF Rest
  <2>2. UNCHANGED <<drain, queue, adding>>
    BY <1>2 DEF Rest
  <2>3. QED  BY <2>1, <2>2, CountInv, SchedulePrepareInv
<1>3. CASE Handle
  BY <1>3, HandleInv
<1>4. CASE \E p \in PUs, t \in Threads : spike(p, t) \/ Added(p, t)
  BY <1>4, SpikeInv
<1>5. CASE \E s \in memory : Deliver(s)
  BY <1>5, DeliverInv
<1>6. CASE \E d \in notifier : Notify(d)
  BY <1>6, NotifyInv
<1>7. QED  BY <1>1, <1>2, <1>3, <1>4, <1>5, <1>6 DEF Next

\* A thread that was overtaken stays so.
LEMMA Once == [Next]_vars /\ overtaken => overtaken'
  BY DEF Next, Handle, Rest, Count, SchedulePrepare, spike, Added, Deliver, Notify, vars

LEMMA Always == Proper /\ Spec => [](overtaken \/ (Proper /\ Inv))
<1>1. Proper /\ Init => overtaken \/ (Proper /\ Inv)
  BY InitInv
<1>2. (overtaken \/ (Proper /\ Inv)) /\ [Next]_vars => (overtaken \/ (Proper /\ Inv))'
  BY NextInv, Once DEF Proper
<1>3. QED  BY <1>1, <1>2, PTL DEF Spec

\* The invariant is one of the program: it holds when the cores have set up,
\* and every handler, the rest of a drain handler, a spike and a notifier keep it,
\* whichever thread of a core they run on, until one thread overtakes the other.
THEOREM Invariant == Proper /\ Spec => [](overtaken \/ Inv)
<1>1. QED  BY Always, PTL

----------------------------------------------------------------------------
(* What it shows *)

LEMMA InvTypes ==
    ASSUME Proper, Inv, overtaken \in BOOLEAN
    PROVE  TypeOK
<1> USE DEF Inv
<1>0. halted \in {"no", "ok", "fail"} /\ halted # "fail"
  BY DEF Typing
<1>1. /\ drain \in Drains /\ halted \in {"no", "ok"}
      /\ \A m \in net : m.to \in PUs
  BY DEF Typing
<1>2. memory \subseteq [from : AllNeurons, to : AllNeurons, step : 0 .. Steps - 1]
  BY DEF Spiking, Spike
<1>3. notifier \subseteq 0 .. NumMC - 1
  BY DEF Staged, Members
<1>4. ASSUME NEW p \in PUs
      PROVE  /\ pu[p] \in [counter : 0 .. NumPU, fired : Nat, drained : Nat,
                           prepared : Nat, step : 0 .. Steps - 1,
                           prep : (0 .. Steps) \X (0 .. 2), s8 : 1 .. Neurons[p] + 1,
                           spikeOn : BOOLEAN]
             /\ pu[p].drained <= SubtreeSize(p) /\ pu[p].prepared <= SubtreeSize(p)
  <2>1. pu[p] \in Words /\ pu[p].drained <= SubtreeSize(p)
    BY DEF Typing
  <2>2. pu[p].prepared \in 0 .. SubtreeSize(p)
    BY TallySize DEF Preparing
  <2>3. pu[p].s8 \in 1 .. Neurons[p] + 1
    BY DEF Cores, Core
  <2>4. pu[p].drained \in Nat /\ pu[p].prepared \in Nat /\ pu[p].prepared <= SubtreeSize(p)
    <3>1. pu[p].drained \in 0 .. NumPU
      BY <2>1 DEF Words
    <3>2. SubtreeSize(p) \in Nat
      BY Basics
    <3>3. QED  BY <2>2, <3>1, <3>2
  <2>5. QED  BY <2>1, <2>2, <2>3, <2>4 DEF Words
<1>5. \A p \in PUs : \A t \in Threads : tail[p][t] \in {"none", "count", "schedule"}
  BY DEF Typing, OneTail, Rests
<1>6. \A p \in PUs : \A s \in queue[p] \cup adding[p][0] \cup adding[p][1] : s.to[1] = p
  BY DEF Spiking, Here
<1>7. QED  BY <1>0, <1>1, <1>2, <1>3, <1>4, <1>5, <1>6 DEF TypeOK

LEMMA InvPrepared ==
    ASSUME Proper, Inv
    PROVE  PreparedWhenOpen
<1> USE DEF Inv
<1>1. ASSUME NEW p \in PUs, pu[p].spikeOn, NEW i \in 1 .. Neurons[p]
      PROVE  window[p][i] = pu[p].step + 1
  <2>1. Core(p) /\ p \in Live
    BY <1>1 DEF Cores, Live
  <2>2. pu[p].step = Now /\ pu[p].prep[1] = Now /\ pu[p].prep[2] = PrepDone
    BY <2>1 DEF Core
  <2>3. Reached(pu[p]) = Neurons[p] + 1
    BY <2>1, <2>2 DEF Core, Reached, PrepQueued, PrepDone
  <2>4. window[p][i] = IF i < Neurons[p] + 1 THEN Now + 1 ELSE Now
    BY <2>1, <2>2, <2>3 DEF Core
  <2>5. Neurons[p] \in Nat
    BY Basics
  <2>6. QED  BY <2>2, <2>4, <2>5
<1>2. QED  BY <1>1 DEF PreparedWhenOpen, PreparedAlways, PreparedAt

LEMMA InvTimely ==
    ASSUME Proper, Inv
    PROVE  Timely
<1> USE DEF Inv
<1>1. ASSUME NEW s \in UnderWay
      PROVE  /\ s \in Spike /\ s.step = Now
             /\ s.to[1] \in PUs /\ s.to[2] \in 1 .. Neurons[s.to[1]] /\ s.to[1] \notin Shut
  <2>0. s \in memory \/ \E p \in PUs : s \in Here(p)
    BY <1>1 DEF UnderWay, Here
  <2>1. s \in Spike
    BY <2>0 DEF Spiking
  <2>2. s.to[1] \in PUs /\ s.to[2] \in 1 .. Neurons[s.to[1]]
    BY <2>1, NeuronOf DEF Spike
  <2>3. CASE s \in memory
    <3>1. s.step = Now /\ Leader(Domain(s.to[1])) \notin Shut
      BY <2>3 DEF Spiking
    <3>2. QED  BY <2>1, <2>2, <3>1 DEF Staged
  <2>4. CASE \E p \in PUs : s \in Here(p)
    BY <2>1, <2>2, <2>4 DEF Spiking
  <2>5. QED  BY <2>0, <2>3, <2>4
<1>2. ASSUME NEW s \in UnderWay, NEW p, p = s.to[1]
      PROVE  /\ window[p][s.to[2]] <= s.step + 1
             /\ pu[p].spikeOn => pu[p].step = s.step
  <2>1. /\ p \in PUs /\ s.to[2] \in 1 .. Neurons[p] /\ p \in Waiting \cup Live /\ s.step = Now
        /\ Core(p)
    BY <1>1, <1>2 DEF Shut, Cores
  <2>4. Now \in 0 .. Steps - 1 /\ Steps \in Nat
    BY Basics DEF Typing, Words, Now
  <2>2. pu[p].prep[1] \in Nat /\ pu[p].prep[1] <= Now
    <3>0. pu[p] \in Words
      BY <2>1 DEF Typing
    <3>0a. pu[p].prep \in (0 .. Steps) \X (0 .. 2)
      BY <3>0 DEF Words
    <3>1. PICK a \in 0 .. Steps, b \in 0 .. 2 : pu[p].prep = <<a, b>>
      BY <3>0a
    <3>2. p \in Live => a = Now
      BY <2>1, <3>1 DEF Core
    <3>3. p \in Waiting => a = Now \/ a + 1 = Now
      BY <3>1 DEF Waiting, Aim
    <3>4. QED  BY <2>1, <2>4, <3>1, <3>2, <3>3
  <2>3. window[p][s.to[2]] \in {pu[p].prep[1], pu[p].prep[1] + 1}
    BY <2>1 DEF Core
  <2>5. window[p][s.to[2]] <= s.step + 1
    BY <2>1, <2>2, <2>3, <2>4
  <2>6. pu[p].spikeOn => pu[p].step = s.step
    BY <2>1 DEF Core, Live
  <2>7. QED  BY <2>5, <2>6
<1>3. QED  BY <1>2 DEF Timely, InTime

LEMMA Flag == Spec => [](overtaken \in BOOLEAN)
<1>1. Init => overtaken \in BOOLEAN
  BY DEF Init
<1>2. overtaken \in BOOLEAN /\ [Next]_vars => (overtaken \in BOOLEAN)'
  BY DEF Next, Handle, Rest, Count, SchedulePrepare, spike, Added, Deliver, Notify, vars
<1>3. QED  BY <1>1, <1>2, PTL DEF Spec

\* No reduction, of updates, of the drain tree or of the end state, exceeds its
\* subtree and no notifier refuses a registration: termination_fail is never
\* called, unless a thread was overtaken.
THEOREM TypesCorrect == Proper /\ Spec => [](overtaken \/ TypeOK)
<1>1. overtaken \in BOOLEAN /\ (overtaken \/ (Proper /\ Inv)) => overtaken \/ TypeOK
  BY InvTypes
<1>2. QED  BY <1>1, Always, Flag, PTL

\* A core that accepts the spikes of a step has finished the preparation
\* of its neurons for the step, once each, unless a thread was overtaken.
THEOREM OpensPrepared == Proper /\ Spec => []PreparedWhenOpen
<1>1. overtaken \/ (Proper /\ Inv) => PreparedWhenOpen
  BY InvPrepared DEF PreparedWhenOpen
<1>2. QED  BY <1>1, Always, PTL

\* A spike on its way, or in the hands of a thread, is for a core that has not
\* begun to prepare the next step and that accepts none before the spike's own
\* step, unless a thread was overtaken.
THEOREM SpikesTimely == Proper /\ Spec => []Timely
<1>1. overtaken \/ (Proper /\ Inv) => Timely
  BY InvTimely DEF Timely
<1>2. QED  BY <1>1, Always, PTL

----------------------------------------------------------------------------
(* Sums: the number of units that the members of a finite set hold *)

Units(f, A) == UNION {{a} \X (1 .. f[a]) : a \in A}
Total(f, A) == Cardinality(Units(f, A))

LEMMA UnitsOf ==
    ASSUME NEW A, IsFiniteSet(A), NEW f, \A a \in A : f[a] \in Nat
    PROVE  IsFiniteSet(Units(f, A)) /\ Total(f, A) \in Nat
<1> DEFINE H == [a \in A |-> {a} \X (1 .. f[a])]
<1>1. ASSUME NEW a \in A
      PROVE  IsFiniteSet(H[a])
  <2>1. IsFiniteSet({a}) /\ IsFiniteSet(1 .. f[a])
    <3>1. 1 \in Int /\ f[a] \in Int
      OBVIOUS
    <3>2. QED  BY <3>1, FS_Singleton, FS_Interval
  <2>2. IsFiniteSet({a} \X (1 .. f[a]))
    BY <2>1, FS_Product
  <2>3. QED  BY <2>2
<1>2. Units(f, A) = UNION {H[a] : a \in A}
  BY DEF Units
<1> HIDE DEF H
<1>3. IsFiniteSet({H[a] : a \in A})
  <2>1. H \in Surjection(A, {H[a] : a \in A})
    BY DEF H, Surjection
  <2>2. QED  BY <2>1, FS_Surjection
<1>4. IsFiniteSet(UNION {H[a] : a \in A})
  BY <1>1, <1>3, FS_UNION
<1>5. QED  BY <1>2, <1>4, FS_CardinalityType DEF Total

\* What one member holds is part of the sum.
LEMMA TotalSplit ==
    ASSUME NEW A, IsFiniteSet(A), NEW f, \A b \in A : f[b] \in Nat, NEW a \in A
    PROVE  Total(f, A) = Total(f, A \ {a}) + f[a] /\ Total(f, A \ {a}) \in Nat
<1>1. IsFiniteSet(A \ {a})
  BY FS_RemoveElement
<1>2. IsFiniteSet(Units(f, A \ {a})) /\ Total(f, A \ {a}) \in Nat
  BY <1>1, UnitsOf
<1>3. PICK O : O = {a} \X (1 .. f[a])
  OBVIOUS
<1>4. IsFiniteSet(O) /\ Cardinality(O) = f[a]
  <2>1. IsFiniteSet({a}) /\ Cardinality({a}) = 1
    BY FS_Singleton
  <2>2. IsFiniteSet(1 .. f[a]) /\ Cardinality(1 .. f[a]) = f[a]
    <3>1. PICK k \in Nat : k = f[a]
      OBVIOUS
    <3>2. 1 \in Int /\ k \in Int
      OBVIOUS
    <3>3. IsFiniteSet(1 .. k) /\ Cardinality(1 .. k) = IF 1 > k THEN 0 ELSE k - 1 + 1
      BY <3>2, FS_Interval
    <3>4. (IF 1 > k THEN 0 ELSE k - 1 + 1) = k
      OBVIOUS
    <3>5. QED  BY <3>1, <3>3, <3>4
  <2>3. IsFiniteSet(O) /\ Cardinality(O) = Cardinality({a}) * Cardinality(1 .. f[a])
    BY <1>3, <2>1, <2>2, FS_Product
  <2>4. QED  BY <2>1, <2>2, <2>3
<1>5. Units(f, A) = Units(f, A \ {a}) \cup O /\ Units(f, A \ {a}) \cap O = {}
  <2>1. \A x : x \in Units(f, A) <=> x \in Units(f, A \ {a}) \/ x \in O
    BY <1>3 DEF Units
  <2>2. \A x \in Units(f, A \ {a}) : x \notin O
    BY <1>3 DEF Units
  <2>3. QED  BY <2>1, <2>2
<1>6. PICK U, x, y : U = Units(f, A \ {a}) /\ x = Cardinality(U) /\ y = Cardinality(U \cup O)
  OBVIOUS
<1>7. Cardinality(U \cup O) = Cardinality(U) + Cardinality(O) - Cardinality(U \cap O)
  BY <1>2, <1>4, <1>6, FS_Union
<1>8. Cardinality(U \cap O) = 0
  BY <1>5, <1>6, FS_EmptySet
<1>9. x \in Nat /\ f[a] \in Nat /\ y = x + f[a] - 0
  BY <1>2, <1>4, <1>6, <1>7, <1>8 DEF Total
<1>10. y = x + f[a]
  BY <1>9
<1>11. QED  BY <1>2, <1>5, <1>6, <1>10 DEF Total

LEMMA TotalSame ==
    ASSUME NEW A, NEW f, NEW g, \A a \in A : g[a] = f[a]
    PROVE  Total(g, A) = Total(f, A)
<1>1. Units(g, A) = Units(f, A)
  BY DEF Units
<1>2. QED  BY <1>1 DEF Total

LEMMA TotalZero ==
    ASSUME NEW A, NEW f, \A a \in A : f[a] = 0
    PROVE  Total(f, A) = 0
<1>1. Units(f, A) = {}
  BY DEF Units
<1>2. QED  BY <1>1, FS_EmptySet DEF Total

\* One member gets more or less, or takes over what another holds.
LEMMA TotalStep ==
    ASSUME NEW A, IsFiniteSet(A), NEW f, NEW g, \A b \in A : f[b] \in Nat /\ g[b] \in Nat,
           NEW a \in A, \A b \in A : b # a => g[b] = f[b]
    PROVE  Total(g, A) = Total(f, A) - f[a] + g[a]
<1>1. PICK x : x = Total(f, A \ {a})
  OBVIOUS
<1>2. Total(f, A) = x + f[a] /\ x \in Nat
  BY <1>1, TotalSplit
<1>3. Total(g, A) = Total(g, A \ {a}) + g[a]
  BY TotalSplit
<1>4. Total(g, A \ {a}) = x
  BY <1>1, TotalSame
<1>5. QED  BY <1>2, <1>3, <1>4

LEMMA TotalMove ==
    ASSUME NEW A, IsFiniteSet(A), NEW f, NEW g, \A b \in A : f[b] \in Nat /\ g[b] \in Nat,
           NEW a \in A, NEW c \in A, a # c, g[a] + g[c] = f[a] + f[c],
           \A b \in A : b # a /\ b # c => g[b] = f[b]
    PROVE  Total(g, A) = Total(f, A)
<1>1. IsFiniteSet(A \ {a})
  BY FS_RemoveElement
<1>2. PICK x, y, B : x = Total(f, B) /\ y = Total(g, B) /\ B = A \ {a}
  OBVIOUS
<1>3. Total(f, A) = x + f[a] /\ x \in Nat
  BY <1>2, TotalSplit
<1>4. Total(g, A) = y + g[a]
  <2>1. \A b \in A : g[b] \in Nat
    OBVIOUS
  <2>2. Total(g, A) = Total(g, A \ {a}) + g[a]
    BY <2>1, TotalSplit
  <2>3. QED  BY <1>2, <2>2
<1>5. y = x - f[c] + g[c]
  <2>1. IsFiniteSet(B) /\ c \in B /\ (\A b \in B : f[b] \in Nat /\ g[b] \in Nat)
        /\ (\A b \in B : b # c => g[b] = f[b])
    BY <1>1, <1>2
  <2>2. QED  BY <1>2, <2>1, TotalStep
<1>6. QED  BY <1>3, <1>4, <1>5

\* Where at most two members hold anything.
LEMMA TotalTwo ==
    ASSUME NEW A, IsFiniteSet(A), NEW f, \A b \in A : f[b] \in Nat,
           NEW a \in A, NEW c \in A, a # c, \A b \in A : b # a /\ b # c => f[b] = 0
    PROVE  Total(f, A) = f[a] + f[c]
<1>1. IsFiniteSet(A \ {a})
  BY FS_RemoveElement
<1>2. PICK B : B = A \ {a}
  OBVIOUS
<1>3. Total(f, A) = Total(f, B) + f[a]
  BY <1>2, TotalSplit
<1>4. Total(f, B) = Total(f, B \ {c}) + f[c]
  <2>1. IsFiniteSet(B) /\ c \in B /\ \A b \in B : f[b] \in Nat
    BY <1>1, <1>2
  <2>2. QED  BY <2>1, TotalSplit
<1>5. Total(f, B \ {c}) = 0
  BY <1>2, TotalZero
<1>6. QED  BY <1>3, <1>4, <1>5

----------------------------------------------------------------------------
(* The count of firings *)

\* A message with firings that core p is answerable for: in the reverse drain a
\* leader for its domain, in the tree drain a core for its subtree.
Carries(m, p) ==
    \/ /\ drain = "reverse"
       /\ (m \in Closings /\ Leader(Domain(m.to)) = p) \/ (m \in Finals /\ m.from = p)
    \/ drain = "tree" /\ m \in Closings /\ m.args[2] # 0 /\ m.from = p

\* Without such a message the core has them in its own word, or has none.
Own(p) ==
    IF drain = "reverse" THEN p \in Live
    ELSE p \notin Waiting /\ ~ (p # 1 /\ pu[p].drained = SubtreeSize(p))
Share(p) == IF Own(p) THEN pu[p].fired ELSE 0

\* In the reverse drain PU1, when it is shut, adds up the domains: holder 0.
Holders == 0 .. NumPU
Base == IF drain = "reverse" /\ 1 \in Shut THEN pu[1].fired ELSE 0
Holds(h, d) ==
    \/ h = 0 /\ d = Base
    \/ h \in PUs /\ \E m : Carries(m, h) /\ d = m.args[1]
    \/ h \in PUs /\ (\A m : ~Carries(m, h)) /\ d = Share(h)

\* The firings since the last report, each with one holder.
Counted ==
    \E due \in [Holders -> Nat] :
        (\A h \in Holders : Holds(h, due[h])) /\ fires = Total(due, Holders)

\* All steps are reported: nothing is counted any more.
Finished ==
    IF drain = "reverse" THEN Gone = Members
    ELSE 1 \notin Waiting /\ pu[1].drained = NumPU /\ Finals = {}
Summed == Finished \/ Counted

LEMMA HoldersAre ==
    IsFiniteSet(Holders) /\ 0 \in Holders /\ 0 \notin PUs /\ PUs \subseteq Holders
    /\ Holders = PUs \cup {0}
<1>1. NumPU \in Nat \ {0}
  BY Basics
<1>2. 0 \in Int /\ NumPU \in Int
  BY <1>1
<1>3. IsFiniteSet(0 .. NumPU)
  BY <1>2, FS_Interval
<1>4. QED  BY <1>1, <1>3 DEF Holders, PUs

\* A full drain count is one of shut cores, of which none has a tail to count.
LEMMA DrainedShut ==
    ASSUME Inv, drain = "tree", NEW p \in PUs, p \notin Waiting, pu[p].drained = SubtreeSize(p)
    PROVE  p \in Shut /\ p \notin Counting /\ \A c \in StartChildren(p) : c \in Drained
<1>1. Cardinality(Tally(p, Shut \ Counting, Drained)) = SubtreeSize(p)
  BY DEF Inv, Draining, Tree
<1>2. Tally(p, Shut \ Counting, Drained) = Subtree(p)
  BY <1>1, TallySize
<1>3. QED  BY <1>2, TallyFull

LEMMA CarryShut ==
    ASSUME Inv, NEW p, NEW m, Carries(m, p)
    PROVE  p \in Shut /\ p \in PUs /\ m.args[1] \in Nat /\ \A n : Carries(n, p) => n = m
<1> USE DEF Inv
<1>1. CASE drain = "reverse"
  <2>1. Reverse
    BY <1>1 DEF Draining
  <2>2. \A x \in Closings : /\ Domain(x.to) \in Members /\ Leader(Domain(x.to)) \in Shut
                            /\ x.args[1] \in Nat
    <3>1. ASSUME NEW x \in Closings
          PROVE  Domain(x.to) \in Members /\ Leader(Domain(x.to)) \in Shut /\ x.args[1] \in Nat
      <4>1. x.to \in PUs
        BY DEF Typing, Closings, Of
      <4>2. x.args \in Nat \X {0}
        BY <2>1 DEF Reverse
      <4>3. x.args[1] \in Nat
        BY <4>2
      <4>4. QED  BY <2>1, <4>1, <4>3, Domains DEF Reverse
    <3>2. QED  BY <3>1
  <2>3. \A x \in Finals : x.from \in Shut /\ x.args[1] \in Nat
    <3>1. ASSUME NEW x \in Finals
          PROVE  x.from \in Shut /\ x.args[1] \in Nat
      <4>1. PICK d \in Members : x = Final(d, x.args[1]) /\ x.args[1] \in Nat
        BY <2>1 DEF Reverse
      <4>2. x.from = Leader(d)
        BY <4>1, StageIs
      <4>3. Leader(d) \in PUs /\ Leader(Domain(Leader(d))) = x.from
        BY <4>2, Domains
      <4>4. x.from \in Shut
        BY <2>1, <4>2, <4>3 DEF Reverse
      <4>5. QED  BY <4>1, <4>4
    <3>2. QED  BY <3>1
  <2>4. \A c, d \in Members : Leader(c) = Leader(d) => c = d
    BY Domains
  <2>5. p \in Shut /\ m.args[1] \in Nat
    BY <1>1, <2>2, <2>3 DEF Carries
  <2>6. \A n : Carries(n, p) => n = m
    BY <1>1, <2>1, <2>2, <2>4 DEF Carries, Reverse
  <2>7. QED  BY <2>5, <2>6 DEF Shut
<1>2. CASE drain = "tree"
  <2>1. Tree
    BY <1>2 DEF Draining
  <2>2. m \in Closings /\ m.args[2] # 0 /\ m.from = p
    BY <1>2 DEF Carries
  <2>3. ~ \E c \in Live : m = Down(c)
    <3>1. \A c : Down(c).args[2] = 0
      BY StageIs
    <3>2. QED  BY <2>2, <3>1
  <2>4. PICK c \in Others : /\ m = Up(c, m.args[1]) /\ m.args[1] \in Nat
                            /\ c \notin Waiting /\ pu[c].drained = SubtreeSize(c)
    BY <2>1, <2>2, <2>3 DEF Tree
  <2>5. c = p
    BY <2>2, <2>4, StageIs
  <2>6. p \in PUs /\ p \in Shut
    BY <1>2, <2>4, <2>5, DrainedShut DEF Others
  <2>7. \A n : Carries(n, p) => n = m
    BY <1>2, <2>1, <2>2 DEF Carries, Tree
  <2>8. QED  BY <2>4, <2>6, <2>7
<1>3. QED  BY <1>1, <1>2 DEF Carries

\* A live core has its firings itself, one that waits has none.
LEMMA LiveShare ==
    ASSUME Inv, NEW p \in PUs, p \notin Shut
    PROVE  /\ \A m : ~Carries(m, p)
           /\ p \in Live => Share(p) = pu[p].fired
           /\ p \in Waiting => Share(p) = 0
<1>1. \A m : ~Carries(m, p)
  BY CarryShut
<1>2. p \in Live => Own(p)
  <2>1. CASE drain = "reverse"
    BY <2>1 DEF Own
  <2>2. CASE drain # "reverse"
    <3>1. drain = "tree"
      BY <2>2, SnnAssumption DEF Inv, Typing
    <3>2. p \in Live => p \notin Waiting
      BY DEF Live, Waiting
    <3>3. p \in Live => pu[p].drained # SubtreeSize(p)
      BY <3>1, <3>2, DrainedShut
    <3>4. QED  BY <2>2, <3>2, <3>3 DEF Own
  <2>3. QED  BY <2>1, <2>2
<1>3. p \in Waiting => ~Own(p)
  BY DEF Own, Live, Waiting
<1>4. QED  BY <1>1, <1>2, <1>3 DEF Share

\* When all is reported, all cores are shut and no drain message is under way.
LEMMA FinishedQuiet ==
    ASSUME Inv, Finished
    PROVE  Live = {} /\ Waiting = {} /\ Closings = {} /\ Finals = {} /\ Counting = {}
<1> USE DEF Inv
<1>1. CASE drain = "reverse"
  <2>1. Reverse /\ Gone = Members
    BY <1>1 DEF Draining, Finished
  <2>2. \A q \in PUs : q \in Shut
    BY <2>1, Domains DEF Reverse
  <2>3. \A x \in Closings : FALSE
    <3>1. ASSUME NEW x \in Closings
          PROVE  FALSE
      <4>1. x.to \in PUs
        BY DEF Typing, Closings, Of
      <4>2. Domain(x.to) \in Gone
        BY <2>1, <4>1, Domains
      <4>3. QED  BY <4>2 DEF Gone
    <3>2. QED  BY <3>1
  <2>4. \A x \in Finals : FALSE
    <3>1. ASSUME NEW x \in Finals
          PROVE  FALSE
      <4>1. PICK d \in Members : x = Final(d, x.args[1])
        BY <2>1 DEF Reverse
      <4>2. x.from = Leader(d)
        BY <4>1, StageIs
      <4>3. d \in Gone
        BY <2>1
      <4>4. QED  BY <4>2, <4>3 DEF Gone
    <3>2. QED  BY <3>1
  <2>5. Live = {} /\ Waiting = {}
    BY <2>2 DEF Shut, Live, Waiting
  <2>6. Counting = {}
    BY <2>1 DEF Reverse, Counting
  <2>7. QED  BY <2>3, <2>4, <2>5, <2>6
<1>2. CASE drain # "reverse"
  <2>1. drain = "tree"
    BY <1>2, SnnAssumption DEF Typing
  <2>2. Tree /\ 1 \notin Waiting /\ pu[1].drained = NumPU /\ Finals = {}
    BY <1>2, <2>1 DEF Draining, Finished
  <2>3. Cardinality(Tally(1, Shut \ Counting, Drained)) = NumPU
    BY <2>2, Basics DEF Tree
  <2>4. \A c \in Others : c \in Drained => Cardinality(Tally(c, Shut \ Counting, Drained)) = SubtreeSize(c)
    BY <2>2 DEF Tree, Drained, Others
  <2>5. \A q \in PUs : q \in Shut /\ q \notin Counting /\ (q # 1 => q \in Drained)
    BY <2>3, <2>4, AllCounted
  <2>6. Live = {} /\ Waiting = {} /\ Counting = {}
    BY <2>5 DEF Shut, Live, Waiting, Counting
  <2>7. \A x \in Closings : FALSE
    <3>1. ASSUME NEW x \in Closings
          PROVE  FALSE
      <4>1. PICK c \in Others : x = Up(c, x.args[1])
        BY <2>2, <2>6 DEF Tree
      <4>2. x.from = c /\ x.args[2] = SubtreeSize(c) /\ c \in PUs /\ c # 1
        BY <4>1, StageIs DEF Others
      <4>3. x.args[2] # 0
        BY <4>2, Basics
      <4>4. QED  BY <2>5, <4>2, <4>3 DEF Drained
    <3>2. QED  BY <3>1
  <2>8. QED  BY <2>2, <2>6, <2>7
<1>3. QED  BY <1>1, <1>2

\* The sum follows the holders: none changes, one gets more, or one takes over
\* what another holds.
LEMMA CountedSame ==
    ASSUME Counted, fires' = fires,
           \A h \in Holders, d \in Nat : Holds(h, d) => Holds(h, d)'
    PROVE  Counted'
<1>1. PICK due \in [Holders -> Nat] :
          (\A h \in Holders : Holds(h, due[h])) /\ fires = Total(due, Holders)
  BY DEF Counted
<1>2. \A h \in Holders : Holds(h, due[h])'
  BY <1>1
<1>3. fires' = Total(due, Holders)
  BY <1>1
<1>4. QED  BY <1>2, <1>3 DEF Counted, Holders

LEMMA CountedMore ==
    ASSUME Counted, NEW a \in Holders, NEW n \in Nat, fires' = fires + n,
           \A h \in Holders, d \in Nat : h # a /\ Holds(h, d) => Holds(h, d)',
           \A d \in Nat : Holds(a, d) => Holds(a, d + n)'
    PROVE  Counted'
<1>1. PICK due \in [Holders -> Nat] :
          (\A h \in Holders : Holds(h, due[h])) /\ fires = Total(due, Holders)
  BY DEF Counted
<1>2. PICK e \in Nat : e = due[a] + n
  BY <1>1
<1>3. PICK new \in [Holders -> Nat] : new = [due EXCEPT ![a] = e]
  BY <1>1
<1>4. \A h \in Holders : Holds(h, new[h])'
  <2>1. Holds(a, due[a] + n)'
    BY <1>1
  <2>2. Holds(a, e)'
    BY <1>2, <2>1
  <2>3. ASSUME NEW h \in Holders, h # a
        PROVE  Holds(h, due[h])'
    BY <1>1, <2>3
  <2>4. QED  BY <1>3, <2>2, <2>3
<1>5. fires' = Total(new, Holders)
  <2>1. /\ \A h \in Holders : due[h] \in Nat /\ new[h] \in Nat
        /\ \A h \in Holders : h # a => new[h] = due[h]
    BY <1>1, <1>3
  <2>2. Total(new, Holders) = Total(due, Holders) - due[a] + new[a]
    BY <2>1, HoldersAre, TotalStep
  <2>3. Total(due, Holders) \in Nat
    BY <2>1, HoldersAre, UnitsOf
  <2>4. QED  BY <1>1, <1>2, <1>3, <2>1, <2>2, <2>3
<1>6. QED  BY <1>4, <1>5 DEF Counted, Holders

LEMMA CountedMove ==
    ASSUME Counted, NEW a \in Holders, NEW c \in Holders, a # c, fires' = fires,
           \A h \in Holders, d \in Nat : h # a /\ h # c /\ Holds(h, d) => Holds(h, d)',
           \A d, e \in Nat : Holds(a, d) /\ Holds(c, e) => Holds(a, 0)' /\ Holds(c, d + e)'
    PROVE  Counted'
<1>1. PICK due \in [Holders -> Nat] :
          (\A h \in Holders : Holds(h, due[h])) /\ fires = Total(due, Holders)
  BY DEF Counted
<1>2. PICK e \in Nat : e = due[a] + due[c]
  BY <1>1
<1>3. PICK new \in [Holders -> Nat] : new = [due EXCEPT ![a] = 0, ![c] = e]
  BY <1>1
<1>4. \A h \in Holders : Holds(h, new[h])'
  <2>1. Holds(a, 0)' /\ Holds(c, due[a] + due[c])'
    BY <1>1
  <2>2. Holds(c, e)'
    BY <1>2, <2>1
  <2>3. ASSUME NEW h \in Holders, h # a, h # c
        PROVE  Holds(h, due[h])'
    BY <1>1, <2>3
  <2>4. QED  BY <1>3, <2>1, <2>2, <2>3
<1>5. fires' = Total(new, Holders)
  <2>1. /\ \A h \in Holders : due[h] \in Nat /\ new[h] \in Nat
        /\ \A h \in Holders : h # a /\ h # c => new[h] = due[h]
        /\ new[a] = 0 /\ new[c] = e
    BY <1>1, <1>3
  <2>2. new[a] + new[c] = due[a] + due[c]
    BY <1>2, <2>1
  <2>3. Total(new, Holders) = Total(due, Holders)
    BY <2>1, <2>2, HoldersAre, TotalMove
  <2>4. QED  BY <1>1, <2>3
<1>6. QED  BY <1>4, <1>5 DEF Counted, Holders

\* What the messages and the words of a core leave to it.
LEMMA HoldsSame ==
    ASSUME NEW h \in PUs, \A m : Carries(m, h)' <=> Carries(m, h), Share(h)' = Share(h)
    PROVE  \A d : Holds(h, d) => Holds(h, d)'
<1>1. h # 0
  BY HoldersAre
<1>2. (h = 0)' <=> h = 0
  OBVIOUS
<1>3. ASSUME NEW d, Holds(h, d)
      PROVE  Holds(h, d)'
  <2>1. CASE \E m : Carries(m, h) /\ d = m.args[1]
    <3>1. PICK m : Carries(m, h) /\ d = m.args[1]
      BY <2>1
    <3>2. Carries(m, h)'
      BY <3>1
    <3>3. QED  BY <3>1, <3>2 DEF Holds, PUs
  <2>2. CASE (\A m : ~Carries(m, h)) /\ d = Share(h)
    <3>1. \A m : ~Carries(m, h)'
      BY <2>2
    <3>2. QED  BY <2>2, <3>1 DEF Holds, PUs
  <2>3. QED  BY <1>1, <1>3, <2>1, <2>2 DEF Holds
<1>4. QED  BY <1>3

LEMMA ShareSame ==
    ASSUME NEW h \in PUs, drain' = drain, h \in Live' <=> h \in Live, h \in Waiting' <=> h \in Waiting,
           pu'[h].fired = pu[h].fired, pu'[h].drained = pu[h].drained
    PROVE  Share(h)' = Share(h)
<1>1. Own(h)' <=> Own(h)
  BY DEF Own
<1>2. QED  BY <1>1 DEF Share

LEMMA BaseHolds ==
    /\ \A d : Holds(0, d) <=> d = Base
    /\ (\A d : Holds(0, d) <=> d = Base)'
<1>1. \A d : Holds(0, d) <=> d = Base
  BY HoldersAre DEF Holds
<1>2. (\A d : Holds(0, d) <=> d = Base)'
  BY <1>1, PTL
<1>3. QED  BY <1>1, <1>2

\* A live core holds what it fired, one that waits nothing.
LEMMA LiveHolds ==
    ASSUME Inv, NEW p \in PUs
    PROVE  /\ p \in Live => \A d : Holds(p, d) <=> d = pu[p].fired
           /\ p \in Waiting => \A d : Holds(p, d) <=> d = 0
<1>1. p # 0
  BY HoldersAre
<1>2. p \in Live \/ p \in Waiting => p \notin Shut
  BY DEF Shut
<1>3. QED  BY <1>1, <1>2, LiveShare DEF Holds

LEMMA LiveHoldsNext ==
    Inv' => \A p \in PUs : /\ p \in Live' => \A d : Holds(p, d)' <=> d = pu'[p].fired
                           /\ p \in Waiting' => \A d : Holds(p, d)' <=> d = 0
<1>1. Inv => \A p \in PUs : /\ p \in Live => \A d : Holds(p, d) <=> d = pu[p].fired
                            /\ p \in Waiting => \A d : Holds(p, d) <=> d = 0
  BY LiveHolds
<1>2. Inv' => (\A p \in PUs : /\ p \in Live => \A d : Holds(p, d) <=> d = pu[p].fired
                              /\ p \in Waiting => \A d : Holds(p, d) <=> d = 0)'
  BY <1>1, PTL
<1>3. QED  BY <1>2

\* Holders are told apart by what they hold: one message or none.
LEMMA CarryHolds ==
    ASSUME Inv, NEW p, NEW m, Carries(m, p)
    PROVE  \A d : Holds(p, d) => d = m.args[1]
<1>1. p \in PUs /\ \A n : Carries(n, p) => n = m
  BY CarryShut
<1>2. p # 0
  BY <1>1, HoldersAre
<1>3. QED  BY <1>1, <1>2 DEF Holds

\* A step that moves no firings.
LEMMA SumFrame ==
    ASSUME Summed, drain' = drain, Live' = Live, Waiting' = Waiting, Closings' = Closings,
           Finals' = Finals, fires' = fires,
           \A p \in PUs : pu'[p].fired = pu[p].fired /\ pu'[p].drained = pu[p].drained
    PROVE  Summed'
<1>1. 1 \in PUs /\ Shut' = Shut
  BY Basics DEF Shut
<1>2. CASE Finished
  <2>1. Gone' = Gone
    BY <1>1 DEF Gone
  <2>2. Finished'
    BY <1>1, <1>2, <2>1 DEF Finished
  <2>3. QED  BY <2>2 DEF Summed
<1>3. CASE Counted
  <2>1. \A h, m : Carries(m, h)' <=> Carries(m, h)
    BY DEF Carries
  <2>2. \A h \in PUs : Share(h)' = Share(h)
    BY ShareSame
  <2>3. Base' = Base
    BY <1>1 DEF Base
  <2>4. \A h \in PUs, d \in Nat : Holds(h, d) => Holds(h, d)'
    BY <2>1, <2>2, HoldsSame
  <2>5. \A d \in Nat : Holds(0, d) => Holds(0, d)'
    BY <2>3, BaseHolds
  <2>6. Counted'
    BY <1>3, <2>4, <2>5, HoldersAre, CountedSame
  <2>7. QED  BY <2>6 DEF Summed
<1>4. QED  BY <1>2, <1>3 DEF Summed

\* A core that ends a step changes the message it handles for others.
LEMMA DrainsSame ==
    ASSUME NEW m, NEW sent, net' = (net \ {m}) \cup sent,
           \A x \in {m} \cup sent : x.handler \notin {"termination_drain", "termination_domain_done"}
    PROVE  Closings' = Closings /\ Finals' = Finals
  BY DEF Closings, Finals, Of

LEMMA SumNet ==
    ASSUME Summed, NEW m, NEW sent, net' = (net \ {m}) \cup sent,
           \A x \in {m} \cup sent : x.handler \notin {"termination_drain", "termination_domain_done"},
           \A p \in PUs : /\ pu'[p].prep[1] = pu[p].prep[1] /\ pu'[p].spikeOn = pu[p].spikeOn
                          /\ pu'[p].step = pu[p].step
                          /\ pu'[p].fired = pu[p].fired /\ pu'[p].drained = pu[p].drained,
           tail' = tail, drain' = drain, fires' = fires
    PROVE  Summed'
<1>1. Closings' = Closings /\ Finals' = Finals
  BY DrainsSame
<1>2. 1 \in PUs
  BY Basics
<1>3. Now' = Now
  BY <1>2 DEF Now
<1>4. Live' = Live /\ Waiting' = Waiting
  <2>1. Tails' = Tails
    BY TailsSame
  <2>2. \A p \in PUs : Aim(p)' = Aim(p)
    BY <2>1 DEF Aim
  <2>3. QED  BY <1>3, <2>2 DEF Live, Waiting
<1>5. QED  BY <1>1, <1>4, SumFrame

----------------------------------------------------------------------------
(* The steps that move no firings *)

LEMMA OutsideSum ==
    ASSUME Inv, Summed,
           \/ UNCHANGED vars
           \/ \E p \in PUs, t \in Threads : spike(p, t) \/ Added(p, t)
           \/ \E s \in memory : Deliver(s)
           \/ \E d \in notifier : Notify(d)
    PROVE  Summed' /\ printed' = printed
<1>1. /\ pu' = pu /\ tail' = tail /\ drain' = drain /\ fires' = fires /\ printed' = printed
      /\ \E x : net' = net \/ (net' = net \cup {x} /\ x.handler = "termination_idle")
  <2>1. CASE UNCHANGED vars
    BY <2>1 DEF vars, handlerVars
  <2>2. CASE \E p \in PUs, t \in Threads : spike(p, t) \/ Added(p, t)
    BY <2>2 DEF spike, Added, handlerVars
  <2>3. CASE \E s \in memory : Deliver(s)
    BY <2>3 DEF Deliver
  <2>4. CASE \E d \in notifier : Notify(d)
    BY <2>4, MsgIs DEF Notify, Reply
  <2>5. QED  BY <2>1, <2>2, <2>3, <2>4
<1>2. CASE net' = net
  <2>1. Closings' = Closings /\ Finals' = Finals
    BY <1>2 DEF Closings, Finals, Of
  <2>2. Live' = Live /\ Waiting' = Waiting
    BY <1>1, Still
  <2>3. QED  BY <1>1, <2>1, <2>2, SumFrame
<1>3. CASE \E x : net' = net \cup {x} /\ x.handler = "termination_idle"
  <2>1. PICK x : net' = net \cup {x} /\ x.handler = "termination_idle"
    BY <1>3
  <2>2. net' = (net \ {x}) \cup {x}
    BY <2>1
  <2>3. QED  BY <1>1, <2>1, <2>2, SumNet
<1>4. QED  BY <1>1, <1>2, <1>3

\* A core reduces the updates of its subtree.
LEMMA ReduceSum ==
    ASSUME Inv, Summed, NEW m \in net, m.handler \in {"work_update", "termination_reduce"},
           NEW n, Reduce(m, pu[m.to], n, {}), tail' = tail, drain' = drain, fires' = fires
    PROVE  Summed'
<1>1. PICK p \in PUs : p = m.to
  BY DEF Inv, Typing
<1>2. PICK c, sent : /\ pu' = [pu EXCEPT ![p] = [pu[p] EXCEPT !.counter = c]]
                     /\ net' = (net \ {m}) \cup sent
                     /\ \A x \in sent : x.handler \in {"termination_reduce", "termination_install", "termination_idle"}
  <2>1. \A c : Msg("termination_reduce", p, Parent(p), c).handler = "termination_reduce"
    BY MsgIs
  <2>2. /\ \A x \in Install(1, 0) : x.handler = "termination_install"
        /\ \A x \in Refused(0) : x.handler = "termination_idle"
    BY MsgIs DEF Install, Refused, Reply
  <2>3. CASE Becomes(m, [pu[p] EXCEPT !.counter = 0], {} \cup Install(1, 0) \cup Refused(0))
    <3>1. PICK sent : sent = {} \cup Install(1, 0) \cup Refused(0)
      OBVIOUS
    <3>2. Becomes(m, [pu[p] EXCEPT !.counter = 0], sent)
      BY <2>3, <3>1, Zenon
    <3>3. pu' = [pu EXCEPT ![p] = [pu[p] EXCEPT !.counter = 0]] /\ net' = (net \ {m}) \cup sent
      BY <1>1, <3>2 DEF Becomes
    <3>4. \A x \in sent : x.handler \in {"termination_reduce", "termination_install", "termination_idle"}
      BY <2>2, <3>1
    <3>5. QED  BY <3>3, <3>4
  <2>4. PICK c, report : /\ c = pu[p].counter + n
                         /\ report = IF c = SubtreeSize(p)
                                     THEN {Msg("termination_reduce", p, Parent(p), <<SubtreeSize(p)>>)} ELSE {}
    OBVIOUS
  <2>5. CASE Becomes(m, [pu[p] EXCEPT !.counter = c], {} \cup report)
    <3>1. PICK sent : sent = {} \cup report
      OBVIOUS
    <3>2. pu' = [pu EXCEPT ![p] = [pu[p] EXCEPT !.counter = c]] /\ net' = (net \ {m}) \cup sent
      BY <1>1, <2>5, <3>1 DEF Becomes
    <3>3. \A x \in sent : x.handler = "termination_reduce"
      BY <2>1, <2>4, <3>1
    <3>4. QED  BY <3>2, <3>3
  <2>6. QED  BY <1>1, <2>3, <2>4, <2>5 DEF Reduce
<1>3. \A q \in PUs : /\ pu'[q].prep[1] = pu[q].prep[1] /\ pu'[q].spikeOn = pu[q].spikeOn
                     /\ pu'[q].step = pu[q].step
                     /\ pu'[q].fired = pu[q].fired /\ pu'[q].drained = pu[q].drained
  <2>1. PICK r : r = [pu[p] EXCEPT !.counter = c]
    OBVIOUS
  <2>2. r.prep = pu[p].prep /\ r.spikeOn = pu[p].spikeOn /\ r.step = pu[p].step
        /\ r.fired = pu[p].fired /\ r.drained = pu[p].drained
    BY <2>1 DEF Inv, Typing, Words
  <2>3. pu'[p] = r /\ \A q \in PUs : q # p => pu'[q] = pu[q]
    BY <1>2, <2>1 DEF Inv, Typing
  <2>4. QED  BY <2>2, <2>3
<1>4. QED  BY <1>2, <1>3, SumNet

LEMMA InstallSum ==
    ASSUME Inv, Summed, NEW m \in Installs, NEW t, termination_install(m, t), drain' = drain
    PROVE  Summed' /\ printed' = printed
<1>1. m.handler = "termination_install" /\ pu[m.to] = pu[m.to] /\ m.to \in PUs
  BY DEF Installs, Of, Inv, Typing
<1>2. pu' = pu /\ tail' = tail /\ fires' = fires /\ printed' = printed
      /\ net' = (net \ {m}) \cup (Install(m.to, m.args[1]) \cup Refused(m.args[1]))
  BY <1>1 DEF termination_install, Becomes, Inv, Typing
<1>3. /\ \A x \in Install(m.to, m.args[1]) : x.handler = "termination_install"
      /\ \A x \in Refused(m.args[1]) : x.handler = "termination_idle"
  BY MsgIs DEF Install, Refused, Reply
<1>4. PICK sent : sent = Install(m.to, m.args[1]) \cup Refused(m.args[1])
  OBVIOUS
<1>5. net' = (net \ {m}) \cup sent
      /\ \A x \in {m} \cup sent : x.handler \notin {"termination_drain", "termination_domain_done"}
  BY <1>1, <1>2, <1>3, <1>4
<1>6. QED  BY <1>2, <1>5, SumNet

\* The preparation, which leaves to a core all that a holder is told by.
Prepares2(m, p, r, sent) ==
    /\ Becomes(m, r, sent)
    /\ \A x \in sent : x.handler \in {"prepare_next", "termination_prepare_reduce"}
    /\ r.prep[1] = pu[p].prep[1] /\ r.spikeOn = pu[p].spikeOn /\ r.step = pu[p].step
    /\ r.fired = pu[p].fired /\ r.drained = pu[p].drained

LEMMA EndingMoves ==
    ASSUME NEW m, NEW p, p = m.to, NEW r \in Words, NEW n, PrepareReduce(m, r, n),
           r.prep[1] = pu[p].prep[1], r.spikeOn = pu[p].spikeOn, r.step = pu[p].step,
           r.fired = pu[p].fired, r.drained = pu[p].drained
    PROVE  \E q, sent : Prepares2(m, p, q, sent)
<1>1. PICK q, sent : /\ q = [r EXCEPT !.prepared = r.prepared + n]
                     /\ sent = IF r.prepared + n = SubtreeSize(p) /\ p # 1
                        THEN {Msg("termination_prepare_reduce", p, Parent(p), <<SubtreeSize(p)>>)} ELSE {}
  OBVIOUS
<1>2. Becomes(m, q, sent)
  BY <1>1 DEF PrepareReduce
<1>3. \A x \in sent : x.handler = "termination_prepare_reduce"
  BY <1>1, MsgIs
<1>4. q.prep = r.prep /\ q.spikeOn = r.spikeOn /\ q.step = r.step /\ q.fired = r.fired
      /\ q.drained = r.drained
  BY <1>1 DEF Words
<1>5. QED  BY <1>2, <1>3, <1>4 DEF Prepares2

\* A core prepares its neurons for the next step.
LEMMA PrepareSum ==
    ASSUME Inv, Summed, NEW m \in net, NEW t, drain' = drain,
           \/ m.handler = "prepare_next" /\ prepare_next(m, t)
           \/ m.handler = "termination_prepare_reduce" /\ termination_prepare_reduce(m, t)
    PROVE  Summed' /\ printed' = printed
<1>1. PICK p \in PUs : p = m.to /\ pu[p] \in Words
  BY DEF Inv, Typing
<1>2. tail' = tail /\ fires' = fires /\ printed' = printed
  BY DEF prepare_next, termination_prepare_reduce
<1>3. \E r, sent : Prepares2(m, p, r, sent)
  <2>1. CASE termination_prepare_reduce(m, t)
    <3>1. PrepareReduce(m, pu[p], m.args[1])
      BY <1>1, <2>1 DEF termination_prepare_reduce
    <3>2. QED  BY <1>1, <3>1, EndingMoves
  <2>2. CASE prepare_next(m, t)
    <3>1. CASE Stale(m)
      <4>1. Becomes(m, pu[p], {})
        BY <1>1, <2>2, <3>1 DEF prepare_next
      <4>2. QED  BY <4>1 DEF Prepares2
    <3>2. CASE ~Stale(m)
      <4>1. m.args = pu[p].prep /\ pu[p].prep \in (0 .. Steps) \X (0 .. 2)
        BY <1>1, <3>2 DEF Stale, Words
      <4>2. PICK k \in 0 .. Steps : k = m.args[1] /\ k = pu[p].prep[1]
        BY <4>1
      <4>3. PICK at \in Nat : at = IF m.args[2] = PrepQueued THEN 1 ELSE pu[p].s8
        <5>1. pu[p].s8 \in Nat
          BY <1>1 DEF Words
        <5>2. QED  BY <5>1
      <4>4. PICK x \in 0 .. 2 : x = IF at = Neurons[p] THEN PrepDone ELSE PrepRunning
        BY DEF PrepDone, PrepRunning
      <4>5. PICK r, begun :
               /\ r = [pu[p] EXCEPT !.s8 = at + 1, !.prep = <<k, x>>]
               /\ begun = [pu[p] EXCEPT !.s8 = at, !.prep = <<k, PrepRunning>>]
        OBVIOUS
      <4>6. \A q \in {r, begun} :
               /\ q.prep[1] = pu[p].prep[1] /\ q.spikeOn = pu[p].spikeOn /\ q.step = pu[p].step
               /\ q.fired = pu[p].fired /\ q.drained = pu[p].drained
        <5>1. /\ r.prep[1] = pu[p].prep[1] /\ r.spikeOn = pu[p].spikeOn /\ r.step = pu[p].step
              /\ r.fired = pu[p].fired /\ r.drained = pu[p].drained
          BY <1>1, <4>2, <4>5 DEF Words
        <5>2. /\ begun.prep[1] = pu[p].prep[1] /\ begun.spikeOn = pu[p].spikeOn
              /\ begun.step = pu[p].step
              /\ begun.fired = pu[p].fired /\ begun.drained = pu[p].drained
          BY <1>1, <4>2, <4>5 DEF Words
        <5>3. QED  BY <5>1, <5>2
      <4>7. \/ Becomes(m, begun, {})
            \/ Becomes(m, r, {Msg("prepare_next", p, p, r.prep)})
            \/ Becomes(m, r, {})
            \/ at <= Neurons[p] /\ PrepareReduce(m, r, 1)
        BY <1>1, <2>2, <3>2, <4>2, <4>3, <4>4, <4>5 DEF prepare_next
      <4>8. CASE Becomes(m, begun, {}) \/ Becomes(m, r, {})
        BY <4>6, <4>8 DEF Prepares2
      <4>9. CASE Becomes(m, r, {Msg("prepare_next", p, p, r.prep)})
        BY <4>6, <4>9, MsgIs DEF Prepares2
      <4>10. CASE PrepareReduce(m, r, 1)
        <5>1. at + 1 \in Nat /\ <<k, x>> \in (0 .. Steps) \X (0 .. 2)
          BY <4>2, <4>3, <4>4
        <5>2. r \in Words
          BY <1>1, <4>5, <5>1 DEF Words
        <5>3. QED  BY <1>1, <4>6, <4>10, <5>2, EndingMoves
      <4>11. QED  BY <4>7, <4>8, <4>9, <4>10
    <3>3. QED  BY <3>1, <3>2
  <2>3. QED  BY <2>1, <2>2
<1>4. PICK r, sent : Prepares2(m, p, r, sent)
  BY <1>3
<1>5. \A q \in PUs : /\ pu'[q].prep[1] = pu[q].prep[1] /\ pu'[q].spikeOn = pu[q].spikeOn
                     /\ pu'[q].step = pu[q].step
                     /\ pu'[q].fired = pu[q].fired /\ pu'[q].drained = pu[q].drained
  BY <1>1, <1>4 DEF Prepares2, Becomes, Inv, Typing
<1>6. net' = (net \ {m}) \cup sent
      /\ \A x \in {m} \cup sent : x.handler \in {"prepare_next", "termination_prepare_reduce"}
  BY <1>4 DEF Prepares2, Becomes
<1>7. QED  BY <1>2, <1>5, <1>6, SumNet

LEMMA ScheduleSum ==
    ASSUME Proper, Inv, Summed, NEW p \in PUs, NEW t \in Threads, SchedulePrepare(p, t),
           UNCHANGED <<drain, queue, adding>>
    PROVE  Summed' /\ printed' = printed
<1>1. /\ Live' = Live /\ Waiting' = Waiting /\ Closings' = Closings /\ Finals' = Finals
      /\ \A q \in PUs : pu'[q].fired = pu[q].fired /\ pu'[q].drained = pu[q].drained
  BY SchedulePrepareInv
<1>2. fires' = fires /\ printed' = printed
  BY DEF SchedulePrepare, Continue
<1>3. QED  BY <1>1, <1>2, SumFrame

\* Before the first step, PU1 hears of the other cores.
LEMMA HelloSum ==
    ASSUME Inv, Summed, NEW m \in net, drain' = drain,
           \/ /\ m.handler = "boot_control"
              /\ Becomes(m, pu[m.to], {Msg("boot_ready", m.to, 1, <<>>)})
           \/ /\ m.handler = "boot_ready" /\ m.to = 1
              /\ Becomes(m, [pu[1] EXCEPT !.counter = pu[1].counter + 1], {}),
           UNCHANGED <<tail, printed, fires>>
    PROVE  Summed'
<1>1. PICK p \in PUs : p = m.to
  BY DEF Inv, Typing
<1>2. PICK c, sent : /\ pu' = pu \/ pu' = [pu EXCEPT ![p] = [pu[p] EXCEPT !.counter = c]]
                     /\ net' = (net \ {m}) \cup sent
                     /\ \A x \in sent : x.handler = "boot_ready"
  <2>1. Msg("boot_ready", m.to, 1, <<>>).handler = "boot_ready"
    BY MsgIs
  <2>2. CASE Becomes(m, pu[m.to], {Msg("boot_ready", m.to, 1, <<>>)})
    <3>1. pu' = [pu EXCEPT ![p] = pu[p]] /\ net' = (net \ {m}) \cup {Msg("boot_ready", m.to, 1, <<>>)}
      BY <1>1, <2>2 DEF Becomes
    <3>2. pu \in [PUs -> Words]
      BY DEF Inv, Typing
    <3>3. pu' = pu
      BY <3>1, <3>2
    <3>4. PICK sent : sent = {Msg("boot_ready", m.to, 1, <<>>)}
      OBVIOUS
    <3>5. net' = (net \ {m}) \cup sent /\ \A x \in sent : x.handler = "boot_ready"
      BY <2>1, <3>1, <3>4
    <3>6. QED  BY <3>3, <3>5
  <2>3. CASE m.to = 1 /\ Becomes(m, [pu[1] EXCEPT !.counter = pu[1].counter + 1], {})
    <3>1. PICK c : c = pu[p].counter + 1
      OBVIOUS
    <3>2. pu' = [pu EXCEPT ![p] = [pu[p] EXCEPT !.counter = c]] /\ net' = (net \ {m}) \cup {}
      <4>1. p = 1 /\ m.to = 1
        BY <1>1, <2>3
      <4>2. Becomes(m, [pu[1] EXCEPT !.counter = c], {})
        BY <2>3, <3>1, <4>1
      <4>3. pu' = [pu EXCEPT ![1] = [pu[1] EXCEPT !.counter = c]] /\ net' = (net \ {m}) \cup {}
        BY <4>1, <4>2 DEF Becomes
      <4>4. QED  BY <4>1, <4>3
    <3>3. PICK sent : sent = {}
      OBVIOUS
    <3>4. net' = (net \ {m}) \cup sent /\ \A x \in sent : x.handler = "boot_ready"
      BY <3>2, <3>3
    <3>5. QED  BY <3>2, <3>4
  <2>4. QED  BY <2>2, <2>3
<1>3. \A q \in PUs : /\ pu'[q].prep[1] = pu[q].prep[1] /\ pu'[q].spikeOn = pu[q].spikeOn
                     /\ pu'[q].step = pu[q].step
                     /\ pu'[q].fired = pu[q].fired /\ pu'[q].drained = pu[q].drained
  <2>1. pu[p] \in Words /\ pu \in [PUs -> Words]
    BY DEF Inv, Typing
  <2>2. CASE pu' = [pu EXCEPT ![p] = [pu[p] EXCEPT !.counter = c]]
    <3>1. PICK r : r = [pu[p] EXCEPT !.counter = c]
      OBVIOUS
    <3>2. r.prep = pu[p].prep /\ r.spikeOn = pu[p].spikeOn /\ r.step = pu[p].step
          /\ r.fired = pu[p].fired /\ r.drained = pu[p].drained
      BY <2>1, <3>1 DEF Words
    <3>3. QED  BY <2>1, <2>2, <3>1, <3>2
  <2>3. QED  BY <1>2, <2>2
<1>4. \A x \in {m} \cup sent : x.handler \in {"boot_control", "boot_ready"}
  BY <1>2
<1>5. QED  BY <1>2, <1>3, <1>4, SumNet

----------------------------------------------------------------------------
(* The steps in which a neuron may fire *)

\* The sum does not stop at a core that is live or waits.
LEMMA NotFinished ==
    ASSUME Inv, Summed, NEW c, c \in Live \/ c \in Waiting \/ c \in Closings \/ c \in Finals \/ c \in Counting
    PROVE  Counted
  BY FinishedQuiet DEF Summed

\* A core that fires has been live or becomes live; nothing else changes.
LEMMA FireSum ==
    ASSUME Inv, Inv', Summed, NEW p \in PUs, NEW r, NEW n \in Nat,
           \/ p \in Live /\ r.fired = pu[p].fired + n
           \/ p \in Waiting /\ r.fired = n,
           p \in Live', pu' = [pu EXCEPT ![p] = r], fires' = fires + n, drain' = drain,
           Closings' = Closings, Finals' = Finals,
           \A q \in PUs : q # p => (q \in Live' <=> q \in Live) /\ (q \in Waiting' <=> q \in Waiting)
    PROVE  Summed'
<1>1. Counted
  BY NotFinished
<1>2. pu'[p] = r /\ \A q \in PUs : q # p => pu'[q] = pu[q]
  BY DEF Inv, Typing
<1>3. \A h \in PUs, d \in Nat : h # p /\ Holds(h, d) => Holds(h, d)'
  <2>1. ASSUME NEW h \in PUs, h # p
        PROVE  \A d : Holds(h, d) => Holds(h, d)'
    <3>1. \A m : Carries(m, h)' <=> Carries(m, h)
      BY DEF Carries
    <3>2. Share(h)' = Share(h)
      BY <1>2, <2>1, ShareSame
    <3>3. QED  BY <3>1, <3>2, HoldsSame
  <2>2. QED  BY <2>1
<1>4. Base' = Base
  <2>1. 1 \in PUs /\ p \notin Shut /\ p \notin Shut'
    BY Basics DEF Shut
  <2>2. 1 # p => (1 \in Shut' <=> 1 \in Shut) /\ pu'[1] = pu[1]
    BY <1>2, <2>1 DEF Shut
  <2>3. QED  BY <2>1, <2>2 DEF Base
<1>5. \A d \in Nat : Holds(0, d) => Holds(0, d)'
  BY <1>4, BaseHolds
<1>6. \A d \in Nat : Holds(p, d) => Holds(p, d + n)'
  <2>1. \A d : Holds(p, d)' <=> d = r.fired
    BY <1>2, LiveHoldsNext
  <2>2. ASSUME NEW d \in Nat, Holds(p, d)
        PROVE  d + n = r.fired
    <3>1. p \in Live => d = pu[p].fired
      BY <2>2, LiveHolds
    <3>2. p \in Waiting => d = 0 /\ p \notin Live
      BY <2>2, LiveHolds DEF Waiting, Live
    <3>3. p \in Waiting /\ r.fired = n => d + n = r.fired
      BY <3>2
    <3>4. QED  BY <3>1, <3>3
  <2>3. ASSUME NEW d \in Nat, Holds(p, d)
        PROVE  Holds(p, d + n)'
    <3>1. d + n = r.fired
      BY <2>2, <2>3
    <3>2. QED  BY <2>1, <3>1
  <2>4. QED  BY <2>3
<1>7. p \in Holders
  BY HoldersAre
<1>8. Counted'
  BY <1>1, <1>3, <1>5, <1>6, <1>7, HoldersAre, CountedMore
<1>9. QED  BY <1>8 DEF Summed

\* A core that starts a step updates its first neuron.
StartFires(m, s, k, r, fire, sent) ==
    /\ pu' = [pu EXCEPT ![m.to] = r] /\ net' = (net \ {m}) \cup sent /\ tail' = tail
    /\ \A x \in sent : x.handler \in {"boot_control", "work_update"}
    /\ r.fired = fire /\ r.step = s /\ r.spikeOn = TRUE /\ r.prep[1] = s
    /\ fires' = k + fire

LEMMA FirstFires ==
    ASSUME Proper, Typing, NEW m \in net, NEW s, NEW k \in Nat, Start(m, s, k)
    PROVE  \E r, sent : \E fire \in {0, 1} : StartFires(m, s, k, r, fire, sent)
<1> DEFINE p == m.to
<1>1. p \in PUs /\ ~(1 > Neurons[p]) /\ 1 <= Neurons[p]
  BY Basics DEF Typing, Proper
<1>2. PICK sent : sent = {Msg("boot_control", p, c, <<s + 1>>) : c \in StartChildren(p)} \cup {Work(p, 2)}
  OBVIOUS
<1>3. \A x \in sent : x.handler \in {"boot_control", "work_update"}
  BY <1>2, MsgIs, WorkIs
<1>4. PICK fire \in {0, 1} :
        /\ pu' = [pu EXCEPT ![p] = [[counter |-> 0, fired |-> 0, drained |-> 0, prepared |-> 0, step |-> s,
                   prep |-> <<s, PrepDone>>, s8 |-> Neurons[p] + 1, spikeOn |-> TRUE] EXCEPT !.fired = @ + fire]]
        /\ net' = (net \ {m}) \cup sent
        /\ fires' = k + fire
  BY <1>1, <1>2 DEF Start, Update, Becomes, CounterReset, Work
<1>5. PICK r : r = [[counter |-> 0, fired |-> 0, drained |-> 0, prepared |-> 0, step |-> s,
                     prep |-> <<s, PrepDone>>, s8 |-> Neurons[p] + 1, spikeOn |-> TRUE] EXCEPT !.fired = @ + fire]
  OBVIOUS
<1>6. r.fired = fire /\ r.step = s /\ r.spikeOn = TRUE /\ r.prep[1] = s
  BY <1>5
<1>7. tail' = tail
  BY DEF Start
<1>8. pu' = [pu EXCEPT ![p] = r]
  BY <1>4, <1>5
<1>9. StartFires(m, s, k, r, fire, sent)
  BY <1>3, <1>4, <1>6, <1>7, <1>8 DEF StartFires
<1>10. QED  BY <1>9

LEMMA OtherSum ==
    ASSUME Proper, Inv, Inv', Summed, NEW c \in Others, NEW m \in Boots, m = Token(c, Now),
           c \in Waiting, NEW k \in Nat, k = fires, Start(m, Now, k), drain' = drain
    PROVE  Summed'
<1>1. m.to = c /\ m.handler = "boot_control" /\ m \in net /\ c \in PUs /\ c # 1 /\ 1 \in PUs
  BY BootIs, Basics DEF Boots, Of, Others
<1>2. PICK r, sent : \E fire \in {0, 1} : StartFires(m, Now, k, r, fire, sent)
  BY <1>1, FirstFires DEF Inv
<1>3. PICK fire \in {0, 1} : StartFires(m, Now, k, r, fire, sent)
  BY <1>2
<1>4. /\ pu' = [pu EXCEPT ![c] = r] /\ net' = (net \ {m}) \cup sent /\ tail' = tail
      /\ \A x \in {m} \cup sent : x.handler \in {"boot_control", "work_update"}
      /\ r.fired = fire /\ r.spikeOn = TRUE /\ fires' = fires + fire
  BY <1>1, <1>3 DEF StartFires
<1>5. pu'[c] = r /\ \A q \in PUs : q # c => pu'[q] = pu[q]
  BY <1>1, <1>4 DEF Inv, Typing
<1>6. Now' = Now
  BY <1>1, <1>5 DEF Now
<1>7. c \in Live' /\ \A q \in PUs : q # c => (q \in Live' <=> q \in Live) /\ (q \in Waiting' <=> q \in Waiting)
  <2>1. Tails' = Tails
    BY <1>4, TailsSame
  <2>2. \A q \in PUs : q # c => Aim(q)' = Aim(q)
    BY <1>5, <2>1 DEF Aim
  <2>3. QED  BY <1>1, <1>4, <1>5, <1>6, <2>2 DEF Live, Waiting
<1>8. Closings' = Closings /\ Finals' = Finals
  BY <1>4, DrainsSame
<1>9. QED  BY <1>1, <1>4, <1>7, <1>8, FireSum

LEMMA NeuronSum ==
    ASSUME Inv, Inv', Summed, NEW m \in Works, NEW p \in Live, NEW i, m = Work(p, i),
           NEW fire \in {0, 1}, pu' = [pu EXCEPT ![p] = [pu[p] EXCEPT !.fired = pu[p].fired + fire]],
           net' = (net \ {m}) \cup {Work(p, i + 1)}, fires' = fires + fire, tail' = tail, drain' = drain
    PROVE  Summed'
<1>1. PICK r : r = [pu[p] EXCEPT !.fired = pu[p].fired + fire]
  OBVIOUS
<1>2. p \in PUs /\ pu[p] \in Words /\ pu' = [pu EXCEPT ![p] = r]
  BY <1>1 DEF Live, Inv, Typing
<1>3. pu'[p] = r /\ \A q \in PUs : q # p => pu'[q] = pu[q]
  BY <1>2 DEF Inv, Typing
<1>4. /\ r.prep = pu[p].prep /\ r.spikeOn = pu[p].spikeOn /\ r.step = pu[p].step
      /\ r.fired = pu[p].fired + fire
  BY <1>1, <1>2 DEF Words
<1>5. \A q \in PUs : /\ pu'[q].prep = pu[q].prep /\ pu'[q].spikeOn = pu[q].spikeOn
                     /\ pu'[q].step = pu[q].step
  BY <1>3, <1>4
<1>6. Live' = Live /\ Waiting' = Waiting
  BY <1>5, Still
<1>7. \A x \in {m} \cup {Work(p, i + 1)} : x.handler = "work_update"
  BY WorkIs
<1>8. Closings' = Closings /\ Finals' = Finals
  BY <1>7, DrainsSame
<1>9. fire \in Nat /\ p \in Live'
  BY <1>6
<1>10. QED  BY <1>2, <1>4, <1>6, <1>8, <1>9, FireSum

\* PU1 starts a step: nothing fired but perhaps its first neuron.
LEMMA RootSum ==
    ASSUME Proper, Typing, Inv', NEW m \in net, NEW s \in 0 .. Steps - 1,
           m.to = 1, Start(m, s, 0), drain' = drain,
           \A p \in PUs : Aim(p) = s,
           \A p \in PUs : p # 1 => ~pu[p].spikeOn
    PROVE  Summed'
<1>1. PICK r, sent : \E fire \in {0, 1} : StartFires(m, s, 0, r, fire, sent)
  BY FirstFires
<1>2. PICK fire \in {0, 1} : StartFires(m, s, 0, r, fire, sent)
  BY <1>1
<1>3. /\ pu' = [pu EXCEPT ![1] = r] /\ tail' = tail
      /\ r.fired = fire /\ r.step = s /\ r.spikeOn = TRUE /\ r.prep[1] = s /\ fires' = fire
  BY <1>2 DEF StartFires
<1>4. 1 \in PUs /\ 1 \in Holders /\ 0 \in Holders
  BY Basics, HoldersAre
<1>5. pu'[1] = r /\ \A q \in PUs : q # 1 => pu'[q] = pu[q]
  BY <1>3, <1>4 DEF Typing
<1>6. 1 \in Live' /\ Shut' = {} /\ \A q \in PUs : q # 1 => q \in Waiting'
  <2>1. Now' = s
    BY <1>3, <1>5 DEF Now
  <2>2. Tails' = Tails
    BY <1>3, TailsSame
  <2>3. \A q \in PUs : q # 1 => Aim(q)' = s
    BY <1>5, <2>2 DEF Aim
  <2>4. 1 \in Live' /\ \A q \in PUs : q # 1 => q \in Waiting'
    BY <1>3, <1>4, <1>5, <2>1, <2>3 DEF Live, Waiting
  <2>5. QED  BY <2>4 DEF Shut
<1>7. PICK due \in [Holders -> Nat] : due = [h \in Holders |-> IF h = 1 THEN fire ELSE 0]
  <2>1. [h \in Holders |-> IF h = 1 THEN fire ELSE 0] \in [Holders -> Nat]
    BY <1>2
  <2>2. QED  BY <2>1
<1>8. ASSUME NEW h \in Holders
      PROVE  Holds(h, due[h])'
  <2>1. CASE h = 1
    <3>1. \A d : Holds(1, d)' <=> d = pu'[1].fired
      BY <1>4, <1>6, LiveHoldsNext
    <3>2. due[h] = pu'[1].fired
      BY <1>3, <1>5, <1>7, <2>1
    <3>3. QED  BY <2>1, <3>1, <3>2
  <2>2. CASE h = 0
    <3>1. Base' = 0
      BY <1>6 DEF Base
    <3>2. due[h] = 0
      BY <1>7, <2>2
    <3>3. QED  BY <2>2, <3>1, <3>2, BaseHolds
  <2>3. CASE h \in PUs /\ h # 1
    <3>1. \A d : Holds(h, d)' <=> d = 0
      BY <1>6, <2>3, LiveHoldsNext
    <3>2. due[h] = 0
      BY <1>7, <2>3
    <3>3. QED  BY <3>1, <3>2
  <2>4. QED  BY <2>1, <2>2, <2>3, HoldersAre
<1>9. fires' = Total(due, Holders)
  <2>1. \A h \in Holders : due[h] \in Nat /\ (h # 1 /\ h # 0 => due[h] = 0)
    BY <1>7
  <2>2. Total(due, Holders) = due[1] + due[0]
    BY <1>4, <2>1, HoldersAre, TotalTwo
  <2>3. due[1] = fire /\ due[0] = 0
    BY <1>4, <1>7
  <2>4. QED  BY <1>3, <2>2, <2>3
<1>10. Counted'
  BY <1>8, <1>9 DEF Counted, Holders
<1>11. QED  BY <1>10 DEF Summed

LEMMA UpdateSum ==
    ASSUME Inv, Inv', Summed, NEW m \in net, NEW t, drain' = drain,
           \/ m.handler = "work_update" /\ work_update(m, t)
           \/ m.handler = "termination_reduce" /\ termination_reduce(m, t)
    PROVE  Summed' /\ printed' = printed
<1>1. CASE m.handler = "termination_reduce" /\ termination_reduce(m, t)
  <2>1. PICK n : n = m.args[1] /\ Reduce(m, pu[m.to], n, {})
    BY <1>1 DEF termination_reduce
  <2>2. tail' = tail /\ fires' = fires /\ printed' = printed
    BY <1>1 DEF termination_reduce
  <2>3. QED  BY <1>1, <2>1, <2>2, ReduceSum
<1>2. CASE m.handler = "work_update" /\ work_update(m, t)
  <2>1. m \in Works /\ tail' = tail /\ printed' = printed
    BY <1>2 DEF Works, Of, work_update
  <2>2. PICK p \in Live : \E i \in 1 .. Neurons[p] + 1 : m = Work(p, i)
    BY <2>1 DEF Inv, Updating
  <2>3. PICK i \in 1 .. Neurons[p] + 1 : m = Work(p, i)
    BY <2>2
  <2>4. m.to = p /\ m.args[1] = i
    BY <2>3, WorkIs
  <2>5. CASE Reduce(m, pu[m.to], 1, {}) /\ fires' = fires
    BY <1>2, <2>1, <2>5, ReduceSum
  <2>6. CASE \E fire \in {0, 1} :
             /\ Becomes(m, [pu[m.to] EXCEPT !.fired = @ + fire],
                        {} \cup {Msg("work_update", m.to, m.to, <<i + 1>>)})
             /\ fires' = fires + fire
    <3>1. PICK fire \in {0, 1} :
             /\ Becomes(m, [pu[m.to] EXCEPT !.fired = @ + fire],
                        {} \cup {Msg("work_update", m.to, m.to, <<i + 1>>)})
             /\ fires' = fires + fire
      BY <2>6
    <3>2. pu' = [pu EXCEPT ![p] = [pu[p] EXCEPT !.fired = pu[p].fired + fire]]
      BY <2>4, <3>1 DEF Becomes
    <3>3. net' = (net \ {m}) \cup {Work(p, i + 1)}
      BY <2>4, <3>1 DEF Becomes, Work
    <3>4. QED  BY <2>1, <2>3, <3>1, <3>2, <3>3, NeuronSum
  <2>7. QED  BY <1>2, <2>1, <2>4, <2>5, <2>6 DEF work_update, Update
<1>3. QED  BY <1>1, <1>2

LEMMA BootZero ==
    ASSUME Inv, Counted, Waiting = PUs
    PROVE  fires = 0
<1>1. PICK due \in [Holders -> Nat] :
          (\A h \in Holders : Holds(h, due[h])) /\ fires = Total(due, Holders)
  BY DEF Counted
<1>2. Base = 0
  <2>1. Shut = {}
    BY DEF Shut
  <2>2. QED  BY <2>1 DEF Base
<1>3. \A h \in Holders : due[h] = 0
  BY <1>1, <1>2, BaseHolds, LiveHolds, HoldersAre
<1>4. QED  BY <1>1, <1>3, TotalZero

LEMMA FirstSum ==
    ASSUME Proper, Inv, Inv', Summed, 1 \in Waiting, NEW m \in net, m.to = 1,
           Start(m, 0, fires), drain' = drain
    PROVE  Summed'
<1>1. Now = 0 /\ Waiting = PUs /\ 0 \in 0 .. Steps - 1
  BY Basics DEF Inv, Booting
<1>2. Counted
  BY NotFinished
<1>3. fires = 0
  BY <1>1, <1>2, BootZero
<1>4. \A p \in PUs : Aim(p) = 0 /\ ~pu[p].spikeOn
  BY <1>1 DEF Waiting
<1>5. Start(m, 0, 0)
  BY <1>3
<1>6. QED  BY <1>1, <1>4, <1>5, RootSum DEF Inv

LEMMA BootSum ==
    ASSUME Proper, Inv, Inv', Summed, fires \in Nat, NEW m \in net, NEW t, drain' = drain,
           \/ m.handler = "boot_control" /\ boot_control(m, t)
           \/ m.handler = "boot_ready" /\ boot_ready(m, t)
    PROVE  Summed' /\ printed' = printed
<1>1. printed' = printed
  BY DEF boot_control, boot_ready
<1>2. CASE m.handler = "boot_control" /\ boot_control(m, t)
  <2>1. m \in Boots
    BY <1>2 DEF Boots, Of
  <2>2. Now \in Nat
    BY Basics DEF Inv, Now, Typing, Words
  <2>3. CASE \E p \in PUs : 1 \in Waiting /\ m = Hello(p)
    <3>1. PICK p \in PUs : 1 \in Waiting /\ m = Hello(p)
      BY <2>3
    <3>2. m.to = p /\ m.args[1] = 0
      BY <3>1, BootIs
    <3>3. CASE p # 1
      <4>1. /\ Becomes(m, pu[m.to], {Msg("boot_ready", m.to, 1, <<>>)})
            /\ UNCHANGED <<tail, printed, fires>>
        BY <1>2, <3>2, <3>3 DEF boot_control
      <4>2. QED  BY <1>1, <1>2, <4>1, HelloSum
    <3>4. CASE p = 1
      <4>1. Start(m, 0, fires)
        BY <1>2, <3>2, <3>4 DEF boot_control
      <4>2. QED  BY <1>1, <3>1, <3>2, <3>4, <4>1, FirstSum
    <3>5. QED  BY <3>3, <3>4
  <2>4. CASE \E c \in Others : m = Token(c, Now) /\ c \in Waiting
    <3>1. PICK c \in Others : m = Token(c, Now) /\ c \in Waiting
      BY <2>4
    <3>2. m.to = c /\ m.args[1] = Now + 1
      BY <3>1, BootIs
    <3>3. PICK k \in Nat : k = fires
      OBVIOUS
    <3>4. Start(m, Now, k)
      <4>1. Start(m, Now, fires)
        BY <1>2, <2>2, <3>2 DEF boot_control
      <4>2. QED  BY <3>3, <4>1
    <3>5. QED  BY <1>1, <2>1, <3>1, <3>3, <3>4, OtherSum
  <2>5. QED  BY <1>1, <2>1, <2>3, <2>4 DEF Inv, Booting
<1>3. CASE m.handler = "boot_ready" /\ boot_ready(m, t)
  <2>1. m \in Readies
    BY <1>3 DEF Readies, Of
  <2>2. 1 \in Waiting /\ m.to = 1
    BY <2>1, BootIs DEF Inv, Booting
  <2>3. CASE Start(m, 0, fires)
    BY <1>1, <2>2, <2>3, FirstSum
  <2>4. CASE /\ Becomes(m, [pu[1] EXCEPT !.counter = pu[1].counter + 1], {})
             /\ UNCHANGED <<tail, printed, fires>>
    BY <1>1, <1>3, <2>2, <2>4, HelloSum
  <2>5. QED  BY <1>3, <2>3, <2>4 DEF boot_ready
<1>4. QED  BY <1>1, <1>2, <1>3

----------------------------------------------------------------------------
(* The reverse drain hands the firings on *)

LEMMA Closes ==
    ASSUME Inv, NEW c \in Live, NEW r, NEW rest \in Rests \ {"none"}, pu' = [pu EXCEPT ![c] = r],
           r.spikeOn = FALSE, r.step = pu[c].step, r.prep = pu[c].prep, TailTo(c, rest)
    PROVE  /\ c \in PUs /\ pu'[c] = r /\ \A q \in PUs : q # c => pu'[q] = pu[q]
           /\ Live' = Live \ {c} /\ Waiting' = Waiting /\ Shut' = Shut \cup {c} /\ c \notin Shut
<1>1. c \in PUs /\ pu[c].spikeOn /\ 1 \in PUs
  BY Basics DEF Live
<1>2. /\ pu'[c] = r /\ \A q \in PUs : q # c => pu'[q] = pu[q]
      /\ Tails'[c] = rest /\ \A q \in PUs : q # c => Tails'[q] = Tails[q]
  BY <1>1, TailStep DEF Inv, Typing
<1>3. Now' = Now
  BY <1>1, <1>2 DEF Now
<1>4. Live' = Live \ {c}
  BY <1>1, <1>2 DEF Live
<1>5. Waiting' = Waiting
  <2>1. pu[c].prep[1] = Now /\ Now + 1 # Now
    <3>1. pu[c].prep = <<Now, PrepDone>>
      BY DEF Inv, Cores, Core, Live
    <3>2. Now \in 0 .. Steps - 1
      BY <1>1 DEF Now, Inv, Typing, Words
    <3>3. QED  BY <3>1, <3>2, Sizes
  <2>2. Aim(c)' = Now + 1
    BY <1>2, <2>1 DEF Aim
  <2>3. c \notin Waiting /\ c \notin Waiting'
    BY <1>1, <1>3, <2>1, <2>2 DEF Waiting
  <2>4. \A q \in PUs : q # c => (q \in Waiting' <=> q \in Waiting)
    BY <1>2, <1>3 DEF Waiting, Aim
  <2>5. QED  BY <2>3, <2>4 DEF Waiting
<1>6. Shut' = Shut \cup {c} /\ c \notin Shut
  BY <1>1, <1>4, <1>5 DEF Shut, Waiting
<1>7. QED  BY <1>1, <1>2, <1>4, <1>5, <1>6

\* The token of a domain: its leader L is answerable for the firings it carries.
LEMMA TokenCarries ==
    ASSUME drain = "reverse", drain' = drain, NEW m \in net, NEW x, NEW L,
           net' = (net \ {m}) \cup {x},
           \/ x.handler = "termination_drain" /\ Leader(Domain(x.to)) = L
           \/ x.handler = "termination_domain_done" /\ x.from = L,
           m.handler = "termination_idle" \/ Carries(m, L)
    PROVE  Carries(x, L)' /\ \A h, y : h # L => (Carries(y, h)' <=> Carries(y, h))
<1>1. /\ \A y : y \in Closings <=> y \in net /\ y.handler = "termination_drain"
      /\ \A y : y \in Closings' <=> ((y \in net /\ y # m) \/ y = x) /\ y.handler = "termination_drain"
      /\ \A y : y \in Finals <=> y \in net /\ y.handler = "termination_domain_done"
      /\ \A y : y \in Finals' <=> ((y \in net /\ y # m) \/ y = x) /\ y.handler = "termination_domain_done"
  BY DEF Closings, Finals, Of
<1>2. Carries(x, L)'
  BY <1>1 DEF Carries
<1>3. ASSUME NEW h, NEW y, h # L
      PROVE  Carries(y, h)' <=> Carries(y, h)
  <2>1. ~Carries(m, h)
    BY <1>1, <1>3 DEF Carries
  <2>2. ~Carries(x, h)'
    BY <1>1, <1>3 DEF Carries
  <2>3. ~Carries(x, h)
    BY <1>1, <1>3 DEF Carries
  <2>4. CASE y # m /\ y # x
    BY <1>1, <2>4 DEF Carries
  <2>5. CASE y = x
    BY <2>2, <2>3, <2>5
  <2>6. CASE y = m /\ y # x
    <3>1. y \notin Closings' /\ y \notin Finals'
      BY <1>1, <2>6
    <3>2. QED  BY <2>1, <2>6, <3>1 DEF Carries
  <2>7. QED  BY <2>4, <2>5, <2>6
<1>4. QED  BY <1>2, <1>3

\* A leader that hears of the idle domain puts its own firings in the token.
LEMMA BackSum ==
    ASSUME Inv, Summed, drain = "reverse", NEW c \in Live, NEW m \in net, m.handler = "termination_idle",
           NEW x, NEW f, pu' = [pu EXCEPT ![c] = [Closed(pu[c]) EXCEPT !.fired = f]], c = 1 => f = 0,
           TailTo(c, "schedule"), net' = (net \ {m}) \cup {x},
           \/ x.handler = "termination_drain" /\ Leader(Domain(x.to)) = c
           \/ x.handler = "termination_domain_done" /\ x.from = c,
           x.args[1] = pu[c].fired, fires' = fires, drain' = drain
    PROVE  Summed'
<1>1. PICK r : r = [Closed(pu[c]) EXCEPT !.fired = f]
  OBVIOUS
<1>2. c \in PUs /\ pu[c] \in Words
  BY DEF Live, Inv, Typing
<1>3. r.spikeOn = FALSE /\ r.prep = pu[c].prep /\ r.step = pu[c].step /\ r.fired = f
  BY <1>1, <1>2 DEF Closed, Words
<1>3a. "schedule" \in Rests \ {"none"}
  BY DEF Rests
<1>4. /\ pu'[c] = r /\ \A q \in PUs : q # c => pu'[q] = pu[q]
      /\ Live' = Live \ {c} /\ Waiting' = Waiting /\ Shut' = Shut \cup {c} /\ c \notin Shut
  BY <1>1, <1>3, <1>3a, Closes
<1>5. Carries(x, c)' /\ \A h, y : h # c => (Carries(y, h)' <=> Carries(y, h))
  BY TokenCarries
<1>6. \A d \in Nat : Holds(c, d) => Holds(c, d)'
  <2>1. \A d : Holds(c, d) => d = x.args[1]
    BY <1>2, LiveHolds
  <2>2. Holds(c, x.args[1])'
    BY <1>2, <1>5 DEF Holds, PUs
  <2>3. QED  BY <2>1, <2>2
<1>7. ASSUME NEW h \in PUs, h # c
      PROVE  \A d : Holds(h, d) => Holds(h, d)'
  <2>1. Share(h)' = Share(h)
    BY <1>4, <1>7, ShareSame
  <2>2. QED  BY <1>5, <1>7, <2>1, HoldsSame
<1>8. Base' = Base
  <2>1. CASE c = 1
    BY <1>3, <1>4, <2>1 DEF Base
  <2>2. CASE c # 1
    BY <1>4, <2>2, Basics DEF Base
  <2>3. QED  BY <2>1, <2>2
<1>9. \A d \in Nat : Holds(0, d) => Holds(0, d)'
  BY <1>8, BaseHolds
<1>10. Counted
  BY NotFinished
<1>11. Counted'
  BY <1>6, <1>7, <1>9, <1>10, HoldersAre, CountedSame
<1>12. QED  BY <1>11 DEF Summed

\* A token that is back at the leader goes to PU1 as it is.
LEMMA CollectSum ==
    ASSUME Inv, Summed, drain = "reverse", NEW m \in Closings, IsLeader(m.to), pu' = pu, tail' = tail,
           net' = (net \ {m}) \cup {DomainDone(m.to, m.args[1])}, fires' = fires, drain' = drain
    PROVE  Summed'
<1>1. PICK L \in PUs : L = m.to /\ L = Leader(Domain(m.to)) /\ m \in net
  BY Domains DEF Inv, Typing, Closings, Of
<1>2. PICK x : /\ x = DomainDone(m.to, m.args[1]) /\ x.handler = "termination_domain_done"
               /\ x.from = L /\ x.args[1] = m.args[1]
  BY <1>1, MsgIs DEF DomainDone
<1>3. Carries(m, L)
  BY <1>1 DEF Carries
<1>4. Carries(x, L)' /\ \A h, y : h # L => (Carries(y, h)' <=> Carries(y, h))
  BY <1>1, <1>2, <1>3, TokenCarries
<1>5. Now' = Now /\ Live' = Live /\ Waiting' = Waiting /\ Shut' = Shut
  BY Still
<1>6. \A d \in Nat : Holds(L, d) => Holds(L, d)'
  <2>1. \A d : Holds(L, d) => d = x.args[1]
    BY <1>2, <1>3, CarryHolds
  <2>2. Holds(L, x.args[1])'
    BY <1>1, <1>4 DEF Holds, PUs
  <2>3. QED  BY <2>1, <2>2
<1>7. ASSUME NEW h \in PUs, h # L
      PROVE  \A d : Holds(h, d) => Holds(h, d)'
  <2>1. Share(h)' = Share(h)
    BY <1>5, ShareSame
  <2>2. QED  BY <1>4, <1>7, <2>1, HoldsSame
<1>8. Base' = Base
  BY <1>5 DEF Base
<1>9. \A d \in Nat : Holds(0, d) => Holds(0, d)'
  BY <1>8, BaseHolds
<1>10. Counted
  BY NotFinished
<1>11. Counted'
  BY <1>1, <1>6, <1>7, <1>9, <1>10, HoldersAre, CountedSame
<1>12. QED  BY <1>11 DEF Summed

LEMMA RootLeads == IsLeader(1) /\ Leader(Domain(1)) = 1
<1>1. Leader(Domain(1)) \in PUs /\ Leader(Domain(1)) <= 1
  BY Basics, Domains
<1>2. Leader(Domain(1)) = 1
  BY <1>1 DEF PUs
<1>3. QED  BY <1>2, Basics, Domains

\* The token passes a core, which adds its firings.
LEMMA PassSum ==
    ASSUME Inv, Summed, drain = "reverse", NEW m \in Closings, NEW c \in Live, c = m.to, ~IsLeader(c),
           pu' = [pu EXCEPT ![c] = Closed(pu[c])], TailTo(c, "schedule"),
           net' = (net \ {m}) \cup {Drain(c, c - 1, m.args[1] + pu[c].fired, 0)},
           fires' = fires, drain' = drain
    PROVE  Summed'
<1>1. PICK r : r = Closed(pu[c])
  OBVIOUS
<1>2. c \in PUs /\ pu[c] \in Words /\ c # 1 /\ m \in net
  BY RootLeads DEF Live, Inv, Typing, Closings, Of
<1>3. r.spikeOn = FALSE /\ r.prep = pu[c].prep /\ r.step = pu[c].step
  BY <1>1, <1>2 DEF Closed, Words
<1>3a. "schedule" \in Rests \ {"none"}
  BY DEF Rests
<1>4. /\ pu'[c] = r /\ \A q \in PUs : q # c => pu'[q] = pu[q]
      /\ Live' = Live \ {c} /\ Waiting' = Waiting /\ Shut' = Shut \cup {c} /\ c \notin Shut
  BY <1>1, <1>3, <1>3a, Closes
<1>5. PICK L \in PUs : L = Leader(Domain(c)) /\ L # c
  BY <1>2, Domains
<1>6. PICK x : /\ x = Drain(c, c - 1, m.args[1] + pu[c].fired, 0)
               /\ x.handler = "termination_drain" /\ x.to = c - 1
               /\ x.args[1] = m.args[1] + pu[c].fired
  BY MsgIs DEF Drain
<1>7. Leader(Domain(x.to)) = L
  BY <1>2, <1>5, <1>6, SameDomain
<1>8. Carries(m, L)
  BY <1>5 DEF Carries
<1>9. Carries(x, L)' /\ \A h, y : h # L => (Carries(y, h)' <=> Carries(y, h))
  BY <1>2, <1>6, <1>7, <1>8, TokenCarries
<1>10. \A d, e \in Nat : Holds(c, d) /\ Holds(L, e) => Holds(c, 0)' /\ Holds(L, d + e)'
  <2>1. \A y : ~Carries(y, c)'
    BY <1>2, <1>4, <1>5, <1>9, CarryShut
  <2>2. Share(c)' = 0
    BY <1>4 DEF Share, Own
  <2>3. Holds(c, 0)'
    BY <1>2, <2>1, <2>2 DEF Holds, PUs
  <2>4. Holds(L, x.args[1])'
    BY <1>5, <1>9 DEF Holds, PUs
  <2>5. \A d, e \in Nat : Holds(c, d) /\ Holds(L, e) => d + e = x.args[1]
    <3>1. \A d : Holds(c, d) => d = pu[c].fired
      BY <1>2, LiveHolds
    <3>2. \A e : Holds(L, e) => e = m.args[1]
      BY <1>8, CarryHolds
    <3>3. QED  BY <1>6, <3>1, <3>2
  <2>6. QED  BY <2>3, <2>4, <2>5
<1>11. ASSUME NEW h \in PUs, h # c, h # L
       PROVE  \A d : Holds(h, d) => Holds(h, d)'
  <2>1. Share(h)' = Share(h)
    BY <1>4, <1>11, ShareSame
  <2>2. QED  BY <1>9, <1>11, <2>1, HoldsSame
<1>12. Base' = Base
  BY <1>2, <1>4, Basics DEF Base
<1>13. \A d \in Nat : Holds(0, d) => Holds(0, d)'
  BY <1>12, BaseHolds
<1>14. Counted
  BY NotFinished
<1>15. \A h \in Holders, d \in Nat : h # c /\ h # L /\ Holds(h, d) => Holds(h, d)'
  BY <1>11, <1>13, HoldersAre
<1>16. Counted'
  BY <1>2, <1>5, <1>10, <1>14, <1>15, HoldersAre, CountedMove
<1>17. QED  BY <1>16 DEF Summed

----------------------------------------------------------------------------
(* The tree drain hands the firings on *)

\* A core that tells its children to drain passes no firings.
LEMMA FanOutSum ==
    ASSUME Inv, Summed, drain = "tree", NEW c \in Live, NEW m \in net,
           m.handler = "termination_idle" \/ (m \in Closings /\ m.args[2] = 0),
           NEW to, pu' = [pu EXCEPT ![c] = Closed(pu[c])], TailTo(c, "count"),
           net' = (net \ {m}) \cup {Drain(c, x, 0, 0) : x \in to}, fires' = fires, drain' = drain
    PROVE  Summed'
<1>1. PICK r : r = Closed(pu[c])
  OBVIOUS
<1>2. c \in PUs /\ pu[c] \in Words
  BY DEF Live, Inv, Typing
<1>3. /\ r.spikeOn = FALSE /\ r.prep = pu[c].prep /\ r.step = pu[c].step
      /\ r.fired = pu[c].fired /\ r.drained = pu[c].drained
  BY <1>1, <1>2 DEF Closed, Words
<1>3a. "count" \in Rests \ {"none"}
  BY DEF Rests
<1>4. /\ pu'[c] = r /\ \A q \in PUs : q # c => pu'[q] = pu[q]
      /\ Live' = Live \ {c} /\ Waiting' = Waiting
  BY <1>1, <1>3, <1>3a, Closes
<1>5. PICK sent : sent = {Drain(c, x, 0, 0) : x \in to}
  OBVIOUS
<1>6. \A y \in sent : y.handler = "termination_drain" /\ y.args[2] = 0
  BY <1>5, MsgIs DEF Drain
<1>7. \A y, h : Carries(y, h)' <=> Carries(y, h)
  <2>1. \A y : y.args[2] # 0 => (y \in Closings' <=> y \in Closings)
    <3>1. \A y : y \in Closings <=> y \in net /\ y.handler = "termination_drain"
      BY DEF Closings, Of
    <3>2. \A y : y \in Closings' <=> ((y \in net /\ y # m) \/ y \in sent) /\ y.handler = "termination_drain"
      BY <1>5 DEF Closings, Of
    <3>3. m.handler = "termination_idle" \/ m.args[2] = 0
      OBVIOUS
    <3>4. QED  BY <1>6, <3>1, <3>2, <3>3
  <2>2. QED  BY <2>1 DEF Carries
<1>8. \A h \in PUs : Share(h)' = Share(h)
  BY <1>3, <1>4 DEF Share, Own
<1>9. \A h \in PUs, d \in Nat : Holds(h, d) => Holds(h, d)'
  BY <1>7, <1>8, HoldsSame
<1>10. Base' = Base
  BY DEF Base
<1>11. \A d \in Nat : Holds(0, d) => Holds(0, d)'
  BY <1>10, BaseHolds
<1>12. Counted
  BY NotFinished
<1>13. Counted'
  BY <1>9, <1>11, <1>12, HoldersAre, CountedSame
<1>14. QED  BY <1>13 DEF Summed

\* A core whose count is not full has the firings of what it counted; with a
\* full count it sends them to its parent, but PU1 keeps them.
LEMMA ReportHolds ==
    ASSUME drain = "tree", drain' = drain, NEW p \in PUs, NEW r, pu'[p] = r, p \notin Waiting',
           NEW M, net' = (net \ M) \cup TreeReport(p, r), \A y : Carries(y, p) => y \in M,
           SubtreeSize(p) # 0, 0 \notin PUs
    PROVE  /\ Holds(p, r.fired)'
           /\ \A h, y : h # p => (Carries(y, h)' <=> (Carries(y, h) /\ y \notin M))
<1>1. PICK x, z : x = Drain(p, Parent(p), r.fired, r.drained) /\ z = DomainDone(1, r.fired)
  OBVIOUS
<1>2. /\ x.handler = "termination_drain" /\ x.from = p /\ x.args[1] = r.fired /\ x.args[2] = r.drained
      /\ z.handler = "termination_domain_done"
  BY <1>1, MsgIs DEF Drain, DomainDone
<1>3. /\ \A y : y \in Closings <=> y \in net /\ y.handler = "termination_drain"
      /\ \A y : y \in Closings' <=> ((y \in net /\ y \notin M) \/ y \in TreeReport(p, r)) /\ y.handler = "termination_drain"
  BY DEF Closings, Of
<1>4. \A h, y : Carries(y, h) <=> y \in Closings /\ y.args[2] # 0 /\ y.from = h
  BY DEF Carries
<1>5. \A h, y : Carries(y, h)' <=> y \in Closings' /\ y.args[2] # 0 /\ y.from = h
  BY DEF Carries
<1>6. CASE p # 1 /\ r.drained = SubtreeSize(p)
  <2>1. TreeReport(p, r) = {x}
    BY <1>1, <1>6 DEF TreeReport
  <2>2. Carries(x, p)'
    BY <1>2, <1>3, <1>5, <1>6, <2>1
  <2>3. Holds(p, r.fired)'
    BY <1>2, <2>2 DEF Holds, PUs
  <2>4. ASSUME NEW h, NEW y, h # p
        PROVE  Carries(y, h)' <=> (Carries(y, h) /\ y \notin M)
    BY <1>2, <1>3, <1>4, <1>5, <2>1, <2>4
  <2>5. QED  BY <2>3, <2>4
<1>7. CASE p = 1 \/ r.drained # SubtreeSize(p)
  <2>1. TreeReport(p, r) \subseteq {z}
    BY <1>1, <1>7 DEF TreeReport
  <2>2. \A h, y : Carries(y, h)' <=> Carries(y, h) /\ y \notin M
    BY <1>2, <1>3, <1>4, <1>5, <2>1
  <2>3. Share(p)' = r.fired
    BY <1>7 DEF Share, Own
  <2>4. Holds(p, r.fired)'
    BY <2>2, <2>3 DEF Holds, PUs
  <2>5. QED  BY <2>2, <2>4
<1>8. QED  BY <1>6, <1>7

\* A core counts itself (k is 0) or the subtree of child x, with k firings.
Tallies(p, k, M) ==
    \/ /\ \E x \in StartChildren(p) : M = {Up(x, k)} /\ Up(x, k) \in Closings
       /\ tail' = tail
    \/ /\ M = {} /\ k = 0 /\ p \in Counting /\ TailTo(p, "schedule")

LEMMA TallySum ==
    ASSUME Inv, Summed, drain = "tree", NEW p \in PUs, NEW n, NEW f, NEW k \in Nat, NEW r, NEW M,
           f = pu[p].fired + k, r = [pu[p] EXCEPT !.fired = f, !.drained = pu[p].drained + n],
           Tallies(p, k, M),
           pu' = [pu EXCEPT ![p] = r], net' = (net \ M) \cup TreeReport(p, r),
           fires' = fires, drain' = drain
    PROVE  Summed'
<1>1. Waiting = {} /\ Counted /\ Tree /\ pu[p] \in Words
  <2>1. Tree
    BY DEF Inv, Draining
  <2>2. p \in Counting \/ Closings # {}
    BY DEF Tallies
  <2>3. AllUpdated
    BY <2>1, <2>2 DEF Inv, Staged, Tree
  <2>4. Waiting = {}
    BY <2>3, Quiet DEF Inv
  <2>5. Counted
    BY <2>2, NotFinished
  <2>6. QED  BY <2>1, <2>4, <2>5 DEF Inv, Typing
<1>2. r.spikeOn = pu[p].spikeOn /\ r.step = pu[p].step /\ r.prep = pu[p].prep /\ r.fired = f
  BY <1>1 DEF Words
<1>3. /\ pu'[p] = r /\ \A q \in PUs : q # p => pu'[q] = pu[q]
  BY DEF Inv, Typing
<1>4. Waiting' = {}
  <2>1. 1 \in PUs
    BY Basics
  <2>2. Now' = Now
    BY <1>2, <1>3, <2>1 DEF Now
  <2>3. \A q \in PUs : Tails'[q] = "none" <=> Tails[q] = "none"
    <3>1. CASE tail' = tail
      BY <3>1, TailsSame
    <3>2. CASE p \in Counting /\ TailTo(p, "schedule")
      <4>1. "schedule" \in Rests /\ OneTail /\ Tails[p] = "count"
        BY <3>2 DEF Rests, Counting, Inv, Typing
      <4>2. Tails'[p] = "schedule" /\ \A q \in PUs : q # p => Tails'[q] = Tails[q]
        BY <3>2, <4>1, TailStep
      <4>3. QED  BY <4>1, <4>2
    <3>3. QED  BY <3>1, <3>2 DEF Tallies
  <2>4. \A q \in PUs : pu'[q].prep = pu[q].prep /\ pu'[q].spikeOn = pu[q].spikeOn
    BY <1>2, <1>3
  <2>5. \A q \in PUs : Aim(q)' = Aim(q)
    BY <2>3, <2>4 DEF Aim
  <2>6. QED  BY <1>1, <2>2, <2>4, <2>5 DEF Waiting
<1>5. pu[p].drained # SubtreeSize(p)
  <2>1. CASE p \in Counting
    BY <1>1, <2>1, DrainedShut
  <2>2. CASE \E x \in StartChildren(p) : Up(x, k) \in Closings
    <3>1. PICK x \in StartChildren(p) : Up(x, k) \in Closings
      BY <2>2
    <3>2. x \in PUs
      BY Children DEF Others
    <3>3. Up(x, k).from = x /\ Up(x, k).args[2] # 0
      BY <3>2, StageIs, Basics
    <3>4. x \notin Drained
      BY <3>1, <3>3 DEF Drained
    <3>5. QED  BY <1>1, <3>1, <3>4, DrainedShut
  <2>3. QED  BY <2>1, <2>2 DEF Tallies
<1>6. \A y : ~Carries(y, p)
  <2>1. ASSUME NEW y, Carries(y, p)
        PROVE  FALSE
    <3>1. y \in Closings /\ y.args[2] # 0 /\ y.from = p
      BY <2>1 DEF Carries
    <3>2. \A c \in Live : Down(c).args[2] = 0
      BY StageIs
    <3>3. PICK c \in Others : y = Up(c, y.args[1]) /\ pu[c].drained = SubtreeSize(c)
      BY <1>1, <3>1, <3>2 DEF Tree
    <3>4. c = p
      BY <3>1, <3>3, StageIs
    <3>5. QED  BY <1>5, <3>3, <3>4
  <2>2. QED  BY <2>1
<1>7. \A e : Holds(p, e) => e = pu[p].fired
  <2>1. Share(p) = pu[p].fired
    BY <1>1, <1>5 DEF Share, Own
  <2>2. p # 0
    BY HoldersAre
  <2>3. QED  BY <1>6, <2>1, <2>2 DEF Holds
<1>8. /\ Holds(p, f)' /\ SubtreeSize(p) # 0
      /\ \A h, y : h # p => (Carries(y, h)' <=> (Carries(y, h) /\ y \notin M))
  <2>1. SubtreeSize(p) # 0 /\ 0 \notin PUs /\ p \notin Waiting'
    BY <1>4, Basics, HoldersAre
  <2>2. \A y : Carries(y, p) => y \in M
    BY <1>6
  <2>3. /\ Holds(p, r.fired)'
        /\ \A h, y : h # p => (Carries(y, h)' <=> (Carries(y, h) /\ y \notin M))
    <3>1. pu'[p] = r
      BY <1>3
    <3>2. net' = (net \ M) \cup TreeReport(p, r) /\ drain = "tree" /\ drain' = drain
      OBVIOUS
    <3>3. QED  BY <2>1, <2>2, <3>1, <3>2, ReportHolds
  <2>4. QED  BY <1>2, <2>1, <2>3
<1>9. Base' = Base
  BY DEF Base
<1>10. \A d \in Nat : Holds(0, d) => Holds(0, d)'
  BY <1>9, BaseHolds
<1>11. \A h \in PUs : h # p => Share(h)' = Share(h)
  BY <1>1, <1>3, <1>4 DEF Share, Own
<1>12. pu[p].fired \in Nat
  BY <1>1 DEF Words
<1>13. CASE M = {} /\ k = 0
  <2>1. f = pu[p].fired
    BY <1>12, <1>13
  <2>2. \A d \in Nat : Holds(p, d) => Holds(p, d)'
    BY <1>7, <1>8, <2>1
  <2>3. ASSUME NEW h \in PUs, h # p
        PROVE  \A d : Holds(h, d) => Holds(h, d)'
    <3>1. \A y : Carries(y, h)' <=> Carries(y, h)
      BY <1>8, <1>13, <2>3
    <3>2. QED  BY <1>11, <2>3, <3>1, HoldsSame
  <2>4. Counted'
    BY <1>1, <1>10, <2>2, <2>3, HoldersAre, CountedSame
  <2>5. QED  BY <2>4 DEF Summed
<1>14. CASE \E x \in StartChildren(p) : M = {Up(x, k)} /\ Up(x, k) \in Closings
  <2>1. PICK x \in StartChildren(p) : M = {Up(x, k)} /\ Up(x, k) \in Closings
    BY <1>14
  <2>2. x \in PUs /\ x # p /\ x # 1
    <3>1. x \in Others /\ Parent(x) = p
      BY <2>1, Children
    <3>2. Parent(x) < x
      BY <3>1, ParentOf
    <3>3. QED  BY <3>1, <3>2 DEF Others, PUs
  <2>3. PICK m : m = Up(x, k) /\ m.from = x /\ m.args[1] = k /\ m.args[2] # 0
    BY <2>2, StageIs, Basics
  <2>4. Carries(m, x)
    BY <2>1, <2>3 DEF Carries
  <2>5. \A y : ~Carries(y, x)'
    BY <1>8, <2>1, <2>2, <2>3, <2>4, CarryShut
  <2>6. pu[x].drained = SubtreeSize(x)
    <3>1. \A c \in Live : Down(c).args[2] = 0
      BY StageIs
    <3>2. PICK c \in Others : m = Up(c, m.args[1]) /\ pu[c].drained = SubtreeSize(c)
      BY <1>1, <2>1, <2>3, <3>1 DEF Tree
    <3>3. c = x
      BY <2>3, <3>2, StageIs
    <3>4. QED  BY <3>2, <3>3
  <2>7. Share(x)' = 0
    BY <1>3, <2>2, <2>6 DEF Share, Own
  <2>8. Holds(x, 0)'
    BY <2>2, <2>5, <2>7 DEF Holds, PUs
  <2>9. \A d, e \in Nat : Holds(x, d) /\ Holds(p, e) => Holds(x, 0)' /\ Holds(p, d + e)'
    <3>1. \A d : Holds(x, d) => d = k
      BY <2>3, <2>4, CarryHolds
    <3>2. ASSUME NEW d \in Nat, NEW e \in Nat, Holds(x, d), Holds(p, e)
          PROVE  Holds(p, d + e)'
      <4>1. d + e = f
        BY <1>7, <1>12, <3>1, <3>2
      <4>2. QED  BY <1>8, <4>1
    <3>3. QED  BY <2>8, <3>2
  <2>10. ASSUME NEW h \in PUs, h # p, h # x
         PROVE  \A d : Holds(h, d) => Holds(h, d)'
    <3>1. ~Carries(m, h)
      BY <2>3, <2>10 DEF Carries
    <3>2. \A y : Carries(y, h)' <=> Carries(y, h)
      BY <1>8, <2>1, <2>3, <2>10, <3>1
    <3>3. QED  BY <1>11, <2>10, <3>2, HoldsSame
  <2>11. \A h \in Holders, d \in Nat : h # x /\ h # p /\ Holds(h, d) => Holds(h, d)'
    BY <1>10, <2>10, HoldersAre
  <2>12. Counted'
    BY <1>1, <2>2, <2>9, <2>11, HoldersAre, CountedMove
  <2>13. QED  BY <2>12 DEF Summed
<1>15. QED  BY <1>13, <1>14 DEF Tallies

\* Every step of the drain keeps the sum.
LEMMA IdleSum ==
    ASSUME Proper, Inv, Summed, NEW m \in Idles, NEW t \in Threads, termination_idle(m, t), drain' = drain
    PROVE  Summed' /\ printed' = printed
<1>1. PICK d \in Members : m = IdleOf(d) /\ Leader(d) \in Live
  BY DEF Inv, Staged
<1>2. PICK c \in Live : c = Leader(d) /\ m.to = c /\ m \in net /\ m.handler = "termination_idle"
  BY <1>1, StageIs DEF Idles, Of
<1>3. fires' = fires /\ printed' = printed
  BY DEF termination_idle
<1>3a. \A rest : tail' = [tail EXCEPT ![c][t] = rest] => TailTo(c, rest)
  BY TailOf
<1>4. CASE drain = "reverse"
  <2>1. PICK f, k, to, x : /\ f = IdleFired(c) /\ k = pu[c].fired /\ to = c + DomainSize - 1
                           /\ x = IF DomainSize = 1 THEN DomainDone(c, k) ELSE Drain(c, to, k, 0)
    OBVIOUS
  <2>2. /\ Becomes(m, [Closed(pu[m.to]) EXCEPT !.fired = IdleFired(m.to)],
                   {IF DomainSize = 1 THEN DomainDone(m.to, pu[m.to].fired)
                    ELSE Drain(m.to, m.to + DomainSize - 1, pu[m.to].fired, 0)})
        /\ tail' = [tail EXCEPT ![m.to][t] = "schedule"]
    BY <1>4 DEF termination_idle, Then
  <2>3. /\ pu' = [pu EXCEPT ![c] = [Closed(pu[c]) EXCEPT !.fired = f]]
        /\ tail' = [tail EXCEPT ![c][t] = "schedule"]
        /\ net' = (net \ {m}) \cup {x}
    BY <1>2, <2>1, <2>2 DEF Becomes
  <2>3a. TailTo(c, "schedule")
    BY <1>3a, <2>3
  <2>4. c = 1 => f = 0
    BY <2>1 DEF IdleFired
  <2>5. Leader(Domain(to)) = c
    <3>1. PICK D \in Nat \ {0} : D = DomainSize
      BY DomainSizes
    <3>2. c \in Nat
      BY DEF Live, PUs
    <3>3. to \in Leader(d) .. Leader(d) + DomainSize - 1
      BY <1>2, <2>1, <3>1, <3>2
    <3>4. QED  BY <1>2, <3>3, Domains
  <2>6. /\ \/ x.handler = "termination_drain" /\ Leader(Domain(x.to)) = c
           \/ x.handler = "termination_domain_done" /\ x.from = c
        /\ x.args[1] = pu[c].fired
    <3>1. /\ Drain(c, to, k, 0).handler = "termination_drain" /\ Drain(c, to, k, 0).to = to
          /\ Drain(c, to, k, 0).args[1] = k
      BY MsgIs DEF Drain
    <3>2. /\ DomainDone(c, k).handler = "termination_domain_done" /\ DomainDone(c, k).from = c
          /\ DomainDone(c, k).args[1] = k
      BY MsgIs DEF DomainDone
    <3>3. QED  BY <2>1, <2>5, <3>1, <3>2
  <2>7. QED  BY <1>2, <1>3, <1>4, <2>3, <2>3a, <2>4, <2>6, BackSum
<1>5. CASE drain = "tree"
  <2>1. /\ pu' = [pu EXCEPT ![c] = Closed(pu[c])] /\ tail' = [tail EXCEPT ![c][t] = "count"]
        /\ net' = (net \ {m}) \cup {Drain(c, x, 0, 0) : x \in DrainChildren(c)}
    BY <1>2, <1>5 DEF termination_idle, Becomes, Then
  <2>2. TailTo(c, "count")
    BY <1>3a, <2>1
  <2>3. QED  BY <1>2, <1>3, <1>5, <2>1, <2>2, FanOutSum
<1>6. QED  BY <1>4, <1>5, SnnAssumption DEF Inv, Typing

LEMMA DrainSum ==
    ASSUME Proper, Inv, Summed, NEW m \in Closings, NEW t \in Threads,
           termination_reverse(m, t) \/ termination_tree(m, t), drain' = drain
    PROVE  Summed' /\ printed' = printed
<1>1. PICK c \in PUs : c = m.to /\ pu[c] \in Words /\ m \in net
  BY DEF Inv, Typing, Closings, Of
<1>2. Waiting = {} /\ fires' = fires /\ printed' = printed
  <2>1. AllUpdated
    BY DEF Inv, Staged
  <2>2. QED  BY <2>1, Quiet DEF Inv, termination_reverse, termination_tree
<1>2a. \A rest : c \in Live /\ tail' = [tail EXCEPT ![c][t] = rest] => TailTo(c, rest)
  BY TailOf
<1>3. CASE termination_reverse(m, t)
  <2>1. Reverse /\ drain = "reverse"
    BY <1>3 DEF termination_reverse, Inv, Draining
  <2>2. CASE IsLeader(c)
    <3>1. pu' = pu /\ net' = (net \ {m}) \cup {DomainDone(m.to, m.args[1])} /\ tail' = tail
      BY <1>1, <1>3, <2>2 DEF termination_reverse, Becomes, Inv, Typing
    <3>2. QED  BY <1>1, <1>2, <2>1, <2>2, <3>1, CollectSum
  <2>3. CASE ~IsLeader(c)
    <3>1. c \in Live
      <4>1. ~ (c > c)
        BY <1>1 DEF PUs
      <4>2. c \notin Shut
        BY <1>1, <2>1, <2>3, <4>1 DEF Reverse
      <4>3. QED  BY <1>2, <4>2 DEF Shut
    <3>2. Becomes(m, Closed(pu[m.to]), {Drain(m.to, m.to - 1, m.args[1] + pu[m.to].fired, 0)})
          /\ tail' = [tail EXCEPT ![m.to][t] = "schedule"]
      BY <1>1, <1>3, <2>3 DEF termination_reverse, Then
    <3>3. /\ pu' = [pu EXCEPT ![c] = Closed(pu[c])] /\ TailTo(c, "schedule")
          /\ net' = (net \ {m}) \cup {Drain(c, c - 1, m.args[1] + pu[c].fired, 0)}
      BY <1>1, <1>2a, <3>1, <3>2 DEF Becomes
    <3>4. QED  BY <1>1, <1>2, <2>1, <2>3, <3>1, <3>3, PassSum
  <2>4. QED  BY <2>2, <2>3
<1>4. CASE termination_tree(m, t)
  <2>1. Tree /\ drain = "tree"
    BY <1>4 DEF termination_tree, Inv, Draining
  <2>2. CASE \E x \in Live : m = Down(x)
    <3>1. c \in Live /\ m.args[2] = 0
      BY <1>1, <2>2, StageIs
    <3>2. /\ Becomes(m, Closed(pu[m.to]), {Drain(m.to, x, 0, 0) : x \in DrainChildren(m.to)})
          /\ tail' = [tail EXCEPT ![m.to][t] = "count"]
      BY <1>4, <3>1 DEF termination_tree, Then
    <3>3. /\ pu' = [pu EXCEPT ![c] = Closed(pu[c])] /\ TailTo(c, "count")
          /\ net' = (net \ {m}) \cup {Drain(c, x, 0, 0) : x \in DrainChildren(c)}
      BY <1>1, <1>2a, <3>1, <3>2 DEF Becomes
    <3>4. QED  BY <1>1, <1>2, <2>1, <3>1, <3>3, FanOutSum
  <2>3. CASE \E x \in Others : m = Up(x, m.args[1]) /\ m.args[1] \in Nat
    <3>1. PICK x \in Others, k \in Nat : m = Up(x, k)
      BY <2>3
    <3>2. PICK n \in Nat \ {0} : n = SubtreeSize(x) /\ m.args[2] = n /\ m.args[1] = k /\ m.to = Parent(x)
      BY <3>1, StageIs, Basics DEF Others
    <3>3. x \in StartChildren(c)
      BY <1>1, <3>2, Children
    <3>4. PICK r : r = [pu[m.to] EXCEPT !.fired = @ + m.args[1], !.drained = @ + m.args[2]]
      OBVIOUS
    <3>5. Becomes(m, r, TreeReport(m.to, r)) /\ tail' = tail
      BY <1>4, <3>2, <3>4 DEF termination_tree
    <3>6. PICK f : f = pu[c].fired + k
      OBVIOUS
    <3>7. r = [pu[c] EXCEPT !.fired = f, !.drained = pu[c].drained + n]
      BY <1>1, <3>2, <3>4, <3>6
    <3>8. pu' = [pu EXCEPT ![c] = r] /\ net' = (net \ {m}) \cup TreeReport(c, r)
      BY <1>1, <3>5 DEF Becomes
    <3>9. PICK M : M = {Up(x, k)} /\ M = {m}
      BY <3>1
    <3>10. \E y \in StartChildren(c) : M = {Up(y, k)} /\ Up(y, k) \in Closings
      BY <3>1, <3>3, <3>9
    <3>11. QED  BY <1>2, <2>1, <3>5, <3>6, <3>7, <3>8, <3>9, <3>10, TallySum, Zenon DEF Tallies
  <2>4. QED  BY <2>1, <2>2, <2>3 DEF Tree
<1>5. QED  BY <1>3, <1>4

LEMMA CountSum ==
    ASSUME Proper, Inv, Summed, NEW p \in PUs, NEW t \in Threads, Count(p, t), ~overtaken', drain' = drain
    PROVE  Summed' /\ printed' = printed
<1>1. p \in Counting /\ pu[p] \in Words /\ \A u \in Threads \ {t} : tail[p][u] = "none"
  <2>1. OneTail /\ tail[p][t] = "count" /\ pu[p] \in Words
    BY DEF Count, Inv, Typing
  <2>2. Tails[p] = "count" /\ \A u \in Threads \ {t} : tail[p][u] = "none"
    BY <2>1, TailsAre
  <2>3. QED  BY <2>1, <2>2 DEF Counting
<1>2. drain = "tree" /\ DomainSize > 1
  <2>1. drain = "tree"
    BY <1>1, SnnAssumption DEF Inv, Draining, Reverse, Counting, Typing
  <2>2. QED  BY <2>1 DEF Inv, Typing, Proper
<1>3. PICK r : /\ r = [pu[p] EXCEPT !.drained = @ + 1]
               /\ pu' = [pu EXCEPT ![p] = r] /\ net' = net \cup TreeReport(p, r)
               /\ tail' = [tail EXCEPT ![p][t] = IF p = 1 /\ r.drained = SubtreeSize(p) THEN "none" ELSE "schedule"]
               /\ fires' = fires /\ printed' = printed
               /\ overtaken' = (overtaken \/ (p = 1 /\ r.drained = SubtreeSize(p) /\ DomainSize > 1))
  BY DEF Count, Continue
<1>4. PICK f : f = pu[p].fired + 0
  OBVIOUS
<1>5. r = [pu[p] EXCEPT !.fired = f, !.drained = pu[p].drained + 1]
  <2>1. f = pu[p].fired
    BY <1>1, <1>4 DEF Words
  <2>2. QED  BY <1>1, <1>3, <2>1 DEF Words
<1>6. TailTo(p, "schedule")
  <2>1. ~(p = 1 /\ r.drained = SubtreeSize(p))
    BY <1>2, <1>3
  <2>2. QED  BY <1>1, <1>3, <2>1 DEF TailTo
<1>7. PICK M, k : M = {} /\ k = 0
  OBVIOUS
<1>8. /\ net' = (net \ M) \cup TreeReport(p, r) /\ f = pu[p].fired + k /\ k \in Nat
      /\ pu' = [pu EXCEPT ![p] = r] /\ fires' = fires /\ printed' = printed
  BY <1>3, <1>4, <1>7
<1>9. Summed'
  BY <1>1, <1>2, <1>5, <1>6, <1>7, <1>8, TallySum, Zenon DEF Tallies
<1>10. QED  BY <1>8, <1>9

----------------------------------------------------------------------------
(* The report *)

\* With the last word of the domains PU1 has all firings of the step.
LEMMA LastCount ==
    ASSUME Proper, Inv, Counted, NEW m \in Finals, drain = "reverse" => pu[1].counter + 1 = NumMC
    PROVE  fires = IF drain = "reverse" THEN pu[1].fired + m.args[1] ELSE pu[1].fired
<1>1. PICK due \in [Holders -> Nat] :
          (\A h \in Holders : Holds(h, due[h])) /\ fires = Total(due, Holders)
  BY DEF Counted
<1>2. Shut = PUs /\ Closings = {} /\ Finals \subseteq {m} /\ 1 \in PUs
  BY AllShut, Basics
<1>3. \A h \in Holders : due[h] \in Nat
  BY <1>1
<1>4. due[0] = Base
  BY <1>1, BaseHolds, HoldersAre
<1>5. \A h \in PUs : h \notin Live /\ h \notin Waiting /\ h # 0 /\ h \in Holders
  BY <1>2, HoldersAre DEF Shut
<1>6. CASE drain = "reverse"
  <2>1. PICK L \in PUs : m.from = L
    BY <1>6, OneMore, Domains
  <2>2. Carries(m, L)
    BY <1>6, <2>1 DEF Carries
  <2>3. due[L] = m.args[1]
    BY <1>1, <1>5, <2>2, CarryHolds
  <2>4. ASSUME NEW h \in Holders, h # 0, h # L
        PROVE  due[h] = 0
    <3>1. h \in PUs
      BY <2>4, HoldersAre
    <3>2. \A y : ~Carries(y, h)
      BY <1>2, <1>6, <2>1, <2>4 DEF Carries
    <3>3. Share(h) = 0
      BY <1>5, <1>6, <3>1 DEF Share, Own
    <3>4. QED  BY <1>1, <2>4, <3>2, <3>3 DEF Holds
  <2>5. Total(due, Holders) = due[0] + due[L]
    BY <1>3, <1>5, <2>4, HoldersAre, TotalTwo
  <2>6. Base = pu[1].fired
    BY <1>2, <1>6 DEF Base
  <2>7. QED  BY <1>1, <1>4, <1>6, <2>3, <2>5, <2>6
<1>7. CASE drain # "reverse"
  <2>1. drain = "tree"
    BY <1>7, SnnAssumption DEF Inv, Typing
  <2>2. Tree
    BY <2>1 DEF Inv, Draining
  <2>3. pu[1].drained = NumPU /\ 1 \notin Waiting
    BY <1>2, <1>5, <2>2 DEF Tree
  <2>4. Cardinality(Tally(1, Shut \ Counting, Drained)) = NumPU
    BY <1>2, <2>2, <2>3 DEF Tree
  <2>5. \A c \in Others : c \in Drained => Cardinality(Tally(c, Shut \ Counting, Drained)) = SubtreeSize(c)
    BY <2>2 DEF Tree, Drained, Others
  <2>6. \A q \in PUs : q # 1 => q \in Drained
    BY <2>4, <2>5, AllCounted
  <2>7. \A h, y : ~Carries(y, h)
    BY <1>2, <1>7 DEF Carries
  <2>8. due[1] = pu[1].fired
    <3>1. Share(1) = pu[1].fired
      BY <1>7, <2>3 DEF Share, Own
    <3>2. QED  BY <1>1, <1>2, <1>5, <2>7, <3>1 DEF Holds
  <2>9. ASSUME NEW h \in Holders, h # 0, h # 1
        PROVE  due[h] = 0
    <3>1. h \in PUs
      BY <2>9, HoldersAre
    <3>2. Share(h) = 0
      BY <1>7, <2>6, <2>9, <3>1 DEF Share, Own, Drained
    <3>3. QED  BY <1>1, <2>7, <2>9, <3>2 DEF Holds
  <2>10. Total(due, Holders) = due[0] + due[1]
    BY <1>2, <1>3, <1>5, <2>9, HoldersAre, TotalTwo
  <2>11. Base = 0
    BY <1>7 DEF Base
  <2>12. QED  BY <1>1, <1>2, <1>3, <1>4, <1>5, <1>7, <2>8, <2>10, <2>11
<1>8. QED  BY <1>6, <1>7

\* The reverse drain: a domain that is not the last is added to the word of PU1.
LEMMA GatherSum ==
    ASSUME Inv, Counted, drain = "reverse", NEW m \in Finals, NEW r, pu' = [pu EXCEPT ![1] = r],
           r.prep = pu[1].prep, r.spikeOn = pu[1].spikeOn, r.step = pu[1].step,
           r.fired = pu[1].fired + m.args[1], net' = net \ {m}, tail' = tail, fires' = fires, drain' = drain
    PROVE  Summed'
<1>1. Waiting = {} /\ 1 \in PUs
  <2>1. AllUpdated
    BY DEF Inv, Staged
  <2>2. QED  BY <2>1, Quiet, Basics DEF Inv
<1>2. pu'[1] = r /\ \A q \in PUs : q # 1 => pu'[q] = pu[q]
  BY <1>1 DEF Inv, Typing
<1>3. Now' = Now /\ Waiting' = Waiting /\ Live' = Live /\ Shut' = Shut
  <2>1. \A q \in PUs : pu'[q].prep = pu[q].prep /\ pu'[q].spikeOn = pu[q].spikeOn /\ pu'[q].step = pu[q].step
    BY <1>2
  <2>2. QED  BY <2>1, Still
<1>4. Closings' = Closings /\ Finals' = Finals \ {m}
  <2>1. m.handler = "termination_domain_done"
    BY DEF Finals, Of
  <2>2. QED  BY <2>1 DEF Closings, Finals, Of
<1>5. PICK L \in PUs : m.from = L /\ L \in Shut
  BY OneMore DEF Shut
<1>6. Carries(m, L) /\ \A h, y : Carries(y, h)' <=> (Carries(y, h) /\ y # m)
  BY <1>4, <1>5 DEF Carries, Closings, Finals, Of
<1>7. PICK c \in Holders : c = IF 1 \in Shut THEN 0 ELSE 1
  BY <1>1, HoldersAre
<1>8. 1 \notin Shut => 1 \in Live
  BY <1>1 DEF Shut
<1>9. L # c /\ L # 0
  BY <1>5, <1>7, HoldersAre
<1>10. Holds(L, 0)'
  <2>1. \A y : ~Carries(y, L)'
    BY <1>6, CarryShut
  <2>2. Share(L)' = 0
    BY <1>3, <1>5 DEF Share, Own, Shut
  <2>3. QED  BY <2>1, <2>2 DEF Holds, PUs
<1>11. \A e : Holds(c, e) => e = pu[1].fired
  BY <1>1, <1>7, <1>8, BaseHolds, LiveHolds DEF Base
<1>12. Holds(c, r.fired)'
  <2>1. CASE 1 \in Shut
    <3>1. Base' = r.fired
      BY <1>2, <1>3, <2>1 DEF Base
    <3>2. QED  BY <1>7, <2>1, <3>1, BaseHolds
  <2>2. CASE 1 \notin Shut
    <3>1. \A y : ~Carries(y, 1)'
      BY <1>6, <2>2, CarryShut
    <3>2. Share(1)' = r.fired
      BY <1>2, <1>3, <1>8, <2>2 DEF Share, Own
    <3>3. Holds(1, r.fired)'
      BY <1>1, <3>1, <3>2 DEF Holds, PUs
    <3>4. QED  BY <1>7, <2>2, <3>3
  <2>3. QED  BY <2>1, <2>2
<1>13. \A d, e \in Nat : Holds(L, d) /\ Holds(c, e) => Holds(L, 0)' /\ Holds(c, d + e)'
  <2>1. \A d : Holds(L, d) => d = m.args[1]
    BY <1>6, CarryHolds
  <2>2. ASSUME NEW d \in Nat, NEW e \in Nat, Holds(L, d), Holds(c, e)
        PROVE  d + e = r.fired
    BY <1>11, <2>1, <2>2
  <2>3. QED  BY <1>10, <1>12, <2>2
<1>14. ASSUME NEW h \in Holders, h # L, h # c
       PROVE  \A d : Holds(h, d) => Holds(h, d)'
  <2>1. CASE h = 0
    <3>1. Base = 0 /\ Base' = 0
      BY <1>3, <1>7, <1>14, <2>1 DEF Base
    <3>2. QED  BY <2>1, <3>1, BaseHolds
  <2>2. CASE h # 0
    <3>1. h \in PUs
      BY <2>2, HoldersAre
    <3>2. \A y : Carries(y, h)' <=> Carries(y, h)
      <4>1. ~Carries(m, h)
        BY <1>5, <1>14 DEF Carries, Closings, Finals, Of
      <4>2. QED  BY <1>6, <4>1
    <3>3. Share(h)' = Share(h)
      BY <1>2, <1>3, <1>7, <1>14, <3>1 DEF Share, Own, Shut
    <3>4. QED  BY <3>1, <3>2, <3>3, HoldsSame
  <2>3. QED  BY <2>1, <2>2
<1>15. L \in Holders
  BY HoldersAre
<1>16. Counted'
  BY <1>9, <1>13, <1>14, <1>15, CountedMove
<1>17. QED  BY <1>16 DEF Summed

\* The report of the last step ends the sum, any other starts the next step.
LEMMA DoneSum ==
    ASSUME Proper, Inv, Inv', Summed, NEW m \in Finals, NEW t,
           termination_domain_done(m, t), drain' = drain
    PROVE  Summed' /\ (printed' # printed => printed'.count = fires)
<1>1. /\ Counted /\ 1 \in PUs /\ m.to = 1 /\ m \in net /\ pu[1] \in Words /\ drain \in {"reverse", "tree"}
      /\ m.handler = "termination_domain_done"
  <2>1. m \in net /\ m.handler = "termination_domain_done"
    BY DEF Finals, Of
  <2>2. drain = "reverse" => m.to = 1
    BY OneMore
  <2>3. drain = "tree" => m.to = 1
    <3>1. drain = "tree" => m = Final(0, m.args[1])
      BY DEF Inv, Draining, Tree
    <3>2. QED  BY <3>1, StageIs
  <2>4. QED  BY <2>1, <2>2, <2>3, NotFinished, Basics, SnnAssumption DEF Inv, Typing
<1>2. PICK r : r = IF drain = "tree" THEN [pu[1] EXCEPT !.counter = NumMC]
                   ELSE [pu[1] EXCEPT !.counter = @ + 1, !.fired = @ + m.args[1]]
  OBVIOUS
<1>3. /\ r.prep = pu[1].prep /\ r.spikeOn = pu[1].spikeOn /\ r.step = pu[1].step
      /\ r.drained = pu[1].drained
      /\ r.counter = IF drain = "reverse" THEN pu[1].counter + 1 ELSE NumMC
      /\ r.fired = IF drain = "reverse" THEN pu[1].fired + m.args[1] ELSE pu[1].fired
  <2>1. CASE drain = "tree"
    BY <1>1, <1>2, <2>1 DEF Words
  <2>2. CASE drain = "reverse"
    <3>1. r = [pu[1] EXCEPT !.counter = pu[1].counter + 1, !.fired = pu[1].fired + m.args[1]]
      BY <1>2, <2>2
    <3>2. QED  BY <1>1, <2>2, <3>1 DEF Words
  <2>3. QED  BY <1>1, <2>1, <2>2
<1>4. CASE r.counter # NumMC
  <2>1. Becomes(m, r, {}) /\ UNCHANGED <<tail, printed, fires>>
    BY <1>2, <1>4 DEF termination_domain_done
  <2>2. drain = "reverse" /\ r.fired = pu[1].fired + m.args[1]
    BY <1>1, <1>3, <1>4
  <2>3. pu' = [pu EXCEPT ![1] = r] /\ net' = net \ {m}
    BY <1>1, <2>1 DEF Becomes
  <2>4. Summed'
    BY <1>1, <1>3, <2>1, <2>2, <2>3, GatherSum
  <2>5. QED  BY <2>1, <2>4
<1>5. CASE r.counter = NumMC
  <2>1. drain = "reverse" => pu[1].counter + 1 = NumMC
    BY <1>3, <1>5
  <2>2. r.fired = fires
    BY <1>1, <1>3, <2>1, LastCount
  <2>3. printed' = [steps |-> printed.steps + 1, count |-> r.fired]
    BY <1>2, <1>5 DEF termination_domain_done
  <2>4. printed'.count = fires
    BY <2>2, <2>3
  <2>5. Shut = PUs /\ Closings = {} /\ Finals \subseteq {m}
    BY <2>1, AllShut
  <2>6. CASE Becomes(m, r, {}) /\ UNCHANGED tail
    <3>1. pu' = [pu EXCEPT ![1] = r] /\ net' = net \ {m}
      BY <1>1, <2>6 DEF Becomes
    <3>2. pu'[1] = r /\ \A q \in PUs : q # 1 => pu'[q] = pu[q]
      BY <1>1, <3>1 DEF Inv, Typing
    <3>3. Shut' = Shut /\ Waiting' = Waiting
      <4>1. \A q \in PUs : pu'[q].prep = pu[q].prep /\ pu'[q].spikeOn = pu[q].spikeOn /\ pu'[q].step = pu[q].step
        BY <1>3, <3>2
      <4>2. QED  BY <2>6, <4>1, Still
    <3>4. Closings' = {} /\ Finals' = {}
      BY <2>5, <3>1 DEF Closings, Finals, Of
    <3>5. CASE drain = "reverse"
      <4>1. \A d \in Members : d \in Gone'
        BY <2>5, <3>3, <3>4, Domains DEF Gone
      <4>2. Gone' = Members
        BY <4>1 DEF Gone
      <4>3. QED  BY <2>4, <3>5, <4>2 DEF Summed, Finished, Members
    <3>6. CASE drain = "tree"
      <4>1. 1 \notin Waiting' /\ pu[1].drained = NumPU
        BY <1>1, <2>5, <3>3, <3>6 DEF Shut, Inv, Draining, Tree
      <4>2. pu'[1].drained = NumPU
        BY <1>3, <3>2, <4>1
      <4>3. QED  BY <2>4, <3>4, <3>6, <4>1, <4>2 DEF Summed, Finished
    <3>7. QED  BY <1>1, <3>5, <3>6
  <2>7. CASE r.step + 1 # Steps /\ Start(m, r.step + 1, 0)
    <3>1. PICK s : s = Now + 1 /\ s = r.step + 1 /\ s \in 0 .. Steps - 1
      <4>1. pu[1].step \in 0 .. Steps - 1 /\ Steps \in Nat \ {0}
        BY <1>1, Basics DEF Words
      <4>2. QED  BY <1>3, <2>7, <4>1 DEF Now
    <3>2. \A p \in PUs : Aim(p) = s /\ ~pu[p].spikeOn
      <4>1. \A p \in PUs : Aim(p) = s
        BY <2>5, <3>1 DEF Inv, Cores, Core
      <4>2. QED  BY <2>5, <4>1 DEF Shut, Live
    <3>3. Start(m, s, 0) /\ Typing
      BY <2>7, <3>1 DEF Inv
    <3>4. Summed'
      BY <1>1, <3>1, <3>2, <3>3, RootSum
    <3>5. QED  BY <2>4, <3>4
  <2>8. QED  BY <1>2, <1>5, <2>6, <2>7 DEF termination_domain_done
<1>6. QED  BY <1>4, <1>5

----------------------------------------------------------------------------
(* Every step keeps the sum *)

LEMMA InitSum ==
    ASSUME Proper, Init
    PROVE  Summed
<1>1. Inv /\ fires = 0 /\ 1 \in PUs
  BY InitInv, Basics DEF Init
<1>2. Waiting = PUs /\ Shut = {}
  <2>1. Now = 0
    BY <1>1 DEF Init, Now
  <2>2. \A p \in PUs : Tails[p] = "none"
    BY DEF Init, Tails, Threads
  <2>3. \A p \in PUs : p \in Waiting
    BY <2>1, <2>2 DEF Init, Waiting, Aim
  <2>4. QED  BY <2>3 DEF Waiting, Shut
<1>3. PICK due \in [Holders -> Nat] : due = [h \in Holders |-> 0]
  OBVIOUS
<1>4. Base = 0
  BY <1>2 DEF Base
<1>5. \A h \in Holders : Holds(h, due[h])
  BY <1>1, <1>2, <1>3, <1>4, HoldersAre, BaseHolds, LiveHolds
<1>6. Total(due, Holders) = 0
  BY <1>3, TotalZero
<1>7. Counted
  BY <1>1, <1>5, <1>6 DEF Counted
<1>8. QED  BY <1>7 DEF Summed

LEMMA CountType ==
    ASSUME Inv, Summed, NEW m \in Boots \cup Readies
    PROVE  fires \in Nat
<1>1. \E c : c \in Waiting
  BY DEF Inv, Booting
<1>2. Counted
  BY <1>1, NotFinished
<1>3. PICK due \in [Holders -> Nat] : fires = Total(due, Holders)
  BY <1>2 DEF Counted
<1>4. QED  BY <1>3, HoldersAre, UnitsOf

LEMMA HandleSum ==
    ASSUME Proper, Inv, Inv', Summed, Handle
    PROVE  Summed' /\ (printed' # printed => printed'.count = fires)
<1>1. PICK m \in net, t \in Threads : Run(m, t) /\ drain' = drain
  BY DEF Handle
<1>2. CASE \/ m.handler = "boot_control" /\ boot_control(m, t)
           \/ m.handler = "boot_ready" /\ boot_ready(m, t)
  <2>1. m \in Boots \cup Readies
    BY <1>2 DEF Boots, Readies, Of
  <2>2. fires \in Nat
    BY <2>1, CountType
  <2>3. QED  BY <1>1, <1>2, <2>2, BootSum
<1>3. CASE \/ m.handler = "work_update" /\ work_update(m, t)
           \/ m.handler = "termination_reduce" /\ termination_reduce(m, t)
  BY <1>1, <1>3, UpdateSum
<1>4. CASE m.handler = "termination_install" /\ termination_install(m, t)
  <2>1. m \in Installs
    BY <1>4 DEF Installs, Of
  <2>2. QED  BY <1>1, <1>4, <2>1, InstallSum
<1>5. CASE m.handler = "termination_idle" /\ termination_idle(m, t)
  <2>1. m \in Idles
    BY <1>5 DEF Idles, Of
  <2>2. QED  BY <1>1, <1>5, <2>1, IdleSum
<1>6. CASE m.handler = "termination_drain" /\ (termination_reverse(m, t) \/ termination_tree(m, t))
  <2>1. m \in Closings
    BY <1>6 DEF Closings, Of
  <2>2. QED  BY <1>1, <1>6, <2>1, DrainSum
<1>7. CASE m.handler = "termination_domain_done" /\ termination_domain_done(m, t)
  <2>1. m \in Finals
    BY <1>7 DEF Finals, Of
  <2>2. QED  BY <1>1, <1>7, <2>1, DoneSum
<1>8. CASE \/ m.handler = "prepare_next" /\ prepare_next(m, t)
           \/ m.handler = "termination_prepare_reduce" /\ termination_prepare_reduce(m, t)
  BY <1>1, <1>8, PrepareSum
<1>9. QED  BY <1>1, <1>2, <1>3, <1>4, <1>5, <1>6, <1>7, <1>8 DEF Run

LEMMA NextSum ==
    ASSUME Proper, Inv, Inv', Summed, ~overtaken', [Next]_vars
    PROVE  Summed' /\ (printed' # printed => printed'.count = fires)
<1>1. CASE \/ UNCHANGED vars
           \/ \E p \in PUs, t \in Threads : spike(p, t) \/ Added(p, t)
           \/ \E s \in memory : Deliver(s)
           \/ \E d \in notifier : Notify(d)
  BY <1>1, OutsideSum
<1>2. CASE Rest
  <2>1. PICK p \in PUs, t \in Threads : Count(p, t) \/ SchedulePrepare(p, t)
    BY <1>2 DEF Rest
  <2>2. UNCHANGED <<drain, queue, adding>>
    BY <1>2 DEF Rest
  <2>3. QED  BY <2>1, <2>2, CountSum, ScheduleSum
<1>3. CASE Handle
  BY <1>3, HandleSum
<1>4. QED  BY <1>1, <1>2, <1>3 DEF Next

LEMMA AlwaysSummed == Proper /\ Spec => [](overtaken \/ (Proper /\ Inv /\ Summed))
<1>1. Proper /\ Init => overtaken \/ (Proper /\ Inv /\ Summed)
  BY InitInv, InitSum
<1>2. (overtaken \/ (Proper /\ Inv /\ Summed)) /\ [Next]_vars
         => (overtaken \/ (Proper /\ Inv /\ Summed))'
  <2>1. overtaken /\ [Next]_vars => overtaken'
    BY Once
  <2>2. Proper /\ Inv /\ Summed /\ ~overtaken' /\ [Next]_vars => Inv' /\ Summed'
    BY NextInv, NextSum
  <2>3. QED  BY <2>1, <2>2 DEF Proper
<1>3. QED  BY <1>1, <1>2, PTL DEF Spec

\* Each report has the number of neurons that fired since the one before: it is
\* the sum of what the holders have, wherever the drain has brought it.
THEOREM ReportsRight ==
    Proper /\ Spec => FiringsReported
<1>1. (overtaken \/ (Proper /\ Inv /\ Summed)) /\ [Next]_vars
         => [~overtaken' => (printed' # printed => printed'.count = fires)]_vars
  <2>1. overtaken /\ [Next]_vars => overtaken'
    BY Once
  <2>2. Proper /\ Inv /\ Summed /\ ~overtaken' /\ [Next]_vars => (printed' # printed => printed'.count = fires)
    BY NextInv, NextSum
  <2>3. QED  BY <2>1, <2>2
<1>2. QED  BY <1>1, AlwaysSummed, PTL DEF Spec, FiringsReported

=============================================================================
