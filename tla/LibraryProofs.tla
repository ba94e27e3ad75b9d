---------------------------- MODULE LibraryProofs -----------------------------
(***************************************************************************)
(* What Library says of its parts, for every value of their constants, and *)
(* two modules of the parts that MCLibrary adds: the ring that consistent  *)
(* hashing implements, and the md5 digest.  The parts share no state, so   *)
(* each section proves its part alone; the last one puts them together, as *)
(* the properties of Library.  EShmProofs and ELogProofs are about the     *)
(* specifications of two parts, and cited here as instances.               *)
(***************************************************************************)
EXTENDS Library, FiniteSets, SequenceTheorems, FiniteSetTheorems,
        WellFoundedInduction, TLAPS

CONSTANTS
  Point, Member,                                           \* Ring
  BlockSize, LenSize, ByteBits, WordSize, Pieces, MaxBytes \* Md5

VARIABLES circle, lo, hi, abcd, buf, len, digested

R == INSTANCE Ring WITH ring <- circle
D == INSTANCE Md5

-----------------------------------------------------------------------------
(* The well-founded relation of the library theorem is <, as pairs.        *)
LEMMA LessThan == OpToRel(<, Nat) = {ss \in Nat \X Nat : ss[1] < ss[2]}
BY Zenon DEF OpToRel

(* There is a least among natural numbers.                                 *)
LEMMA Least ==
  ASSUME NEW S, S \subseteq Nat, S # {}
  PROVE  \E m \in S : \A k \in S : m <= k
<1>. DEFINE Less == {ss \in Nat \X Nat : ss[1] < ss[2]}
<1>1. IsWellFoundedOn(Less, Nat)
  BY NatLessThanWellFounded, LessThan
<1>2. \A k, m \in Nat : k < m => <<k, m>> \in Less
  OBVIOUS
<1>. HIDE DEF Less
<1>3. PICK m \in S : \A k \in S : <<k, m>> \notin Less
  BY <1>1, WFMin
<1>4. \A k \in S : ~(k < m)
  BY <1>2, <1>3
<1>5. QED BY <1>4

(* And a greatest, when they are bounded.                                  *)
LEMMA Greatest ==
  ASSUME NEW S, S \subseteq Nat, S # {}, NEW n \in Nat, \A k \in S : k <= n
  PROVE  \E m \in S : \A k \in S : k <= m
<1>. DEFINE T == {d \in Nat : n - d \in S}
<1>1. T # {}
  <2>1. PICK k \in S : TRUE
    OBVIOUS
  <2>2. n - k \in T
    BY <2>1
  <2>3. QED BY <2>2
<1>2. PICK d \in T : \A e \in T : d <= e
  BY <1>1, Least
<1>3. \A k \in S : k <= n - d
  <2>1. SUFFICES ASSUME NEW k \in S PROVE k <= n - d
    OBVIOUS
  <2>2. n - k \in T
    OBVIOUS
  <2>3. QED BY <1>2, <2>2
<1>4. QED BY <1>2, <1>3

(* Products of natural numbers.                                            *)
LEMMA Times ==
  ASSUME NEW n \in Nat, NEW q \in Nat
  PROVE  n * q \in Nat /\ n * (q + 1) = n * q + n
OBVIOUS

(* A greater factor makes a product greater by the other at least.         *)
LEMMA TimesMore ==
  ASSUME NEW n \in Nat, NEW q \in Nat, NEW p \in Nat, q < p
  PROVE  n * q + n <= n * p
<1>1. PICK d \in Nat : p = q + 1 + d
  <2>1. p - q - 1 \in Nat /\ p = q + 1 + (p - q - 1)
    OBVIOUS
  <2>2. QED BY <2>1
<1>2. n * d \in Nat
  OBVIOUS
<1>3. n * p = n * q + n + n * d
  BY <1>1
<1>4. n * q \in Nat
  OBVIOUS
<1>5. QED BY <1>2, <1>3, <1>4

(* Quotient and remainder, and that they are the only ones.                *)
LEMMA Divides ==
  ASSUME NEW n \in Nat \ {0}, NEW a \in Nat
  PROVE  /\ a \div n \in Nat /\ a % n \in Nat /\ a % n \in 0..(n - 1)
         /\ a = n * (a \div n) + (a % n)
<1>. a \div n \in Int /\ a % n \in Int
  OBVIOUS
<1>1. a = n * (a \div n) + (a % n)
  <2>1. a - (a \div n) * n = a % n
    BY Z3
  <2>. DEFINE q == a \div n
              r == a % n
  <2>2. q \in Int /\ r \in Int /\ a - q * n = r
    BY <2>1
  <2>. HIDE DEF q, r
  <2>3. a = n * q + r
    BY <2>2
  <2>4. QED BY <2>3 DEF q, r
<1>2. a % n \in 0..(n - 1)
  OBVIOUS
<1>3. a \div n \in Int
  OBVIOUS
<1>4. a \div n >= 0
  <2>. DEFINE q == a \div n
              r == a % n
  <2>1. q \in Int /\ r \in 0..(n - 1) /\ a = n * q + r
    BY <1>1, <1>2, <1>3
  <2>. HIDE DEF q, r
  <2>2. SUFFICES ASSUME q < 0 PROVE FALSE
    BY <2>1 DEF q
  <2>3. -q - 1 \in Nat /\ n * (-q - 1) \in Nat
    BY <2>1, <2>2
  <2>4. n * q = -(n * (-q - 1)) - n
    BY <2>1
  <2>5. QED BY <2>1, <2>3, <2>4
<1>5. QED BY <1>1, <1>2, <1>3, <1>4

(* There is one quotient and one remainder.                                *)
LEMMA OneRest ==
  ASSUME NEW n \in Nat \ {0}, NEW q \in Nat, NEW r \in 0..(n - 1)
  PROVE  (n * q + r) % n = r /\ ((n * q + r) \div n) = q
<1>. DEFINE a == n * q + r
<1>1. a \in Nat
  BY Times
<1>. DEFINE p == a \div n
            t == a % n
<1>2. p \in Nat /\ t \in 0..(n - 1) /\ a = n * p + t
  BY <1>1, Divides
<1>. HIDE DEF p, t
<1>3. ~(p < q)
  <2>. SUFFICES ASSUME p < q PROVE FALSE
    OBVIOUS
  <2>1. n * p + n <= n * q /\ n * p \in Nat /\ n * q \in Nat
    BY <1>2, TimesMore, Times
  <2>2. QED BY <1>2, <2>1
<1>4. ~(q < p)
  <2>. SUFFICES ASSUME q < p PROVE FALSE
    OBVIOUS
  <2>1. n * q + n <= n * p /\ n * p \in Nat /\ n * q \in Nat
    BY <1>2, TimesMore, Times
  <2>2. QED BY <1>2, <2>1
<1>5. p = q
  BY <1>2, <1>3, <1>4
<1>6. t = r
  <2>1. n * q \in Nat
    BY Times
  <2>2. QED BY <1>2, <1>5, <2>1
<1>7. QED BY <1>5, <1>6 DEF p, t

(* Of less than twice the divisor.                                         *)
LEMMA RestOfLittle ==
  ASSUME NEW n \in Nat \ {0}, NEW a \in Nat, a < n + n
  PROVE  a % n = IF a < n THEN a ELSE a - n
<1>1. CASE a < n
  <2>1. a \in 0..(n - 1) /\ 0 \in Nat /\ n * 0 + a = a
    BY <1>1
  <2>2. (n * 0 + a) % n = a
    BY <2>1, OneRest
  <2>3. QED BY <1>1, <2>1, <2>2
<1>2. CASE ~(a < n)
  <2>1. a - n \in 0..(n - 1) /\ 1 \in Nat /\ n * 1 + (a - n) = a
    BY <1>2
  <2>2. (n * 1 + (a - n)) % n = a - n
    BY <2>1, OneRest
  <2>3. QED BY <1>2, <2>1, <2>2
<1>3. QED BY <1>1, <1>2

(* Of a sum.                                                               *)
LEMMA RestOfSum ==
  ASSUME NEW n \in Nat \ {0}, NEW a \in Nat, NEW k \in Nat
  PROVE  /\ ((a % n) + (k % n)) % n = (a + k) % n
         /\ ((a % n) + k) % n = (a + k) % n
         /\ (a + k) \div n = (a \div n) + (k \div n) + (IF (a % n) + (k % n) < n THEN 0 ELSE 1)
<1>. DEFINE p == a \div n
            q == k \div n
            r == a % n
            t == k % n
<1>1. p \in Nat /\ q \in Nat /\ r \in 0..(n - 1) /\ t \in 0..(n - 1)
      /\ a = n * p + r /\ k = n * q + t
  BY Divides
<1>. HIDE DEF p, q, r, t
<1>2. n * p \in Nat /\ n * q \in Nat /\ n * (p + q) = n * p + n * q
      /\ n * (p + q + 1) = n * p + n * q + n
  BY <1>1
<1>3. CASE r + t < n
  <2>1. r + t \in 0..(n - 1) /\ p + q \in Nat /\ a + k = n * (p + q) + (r + t)
    BY <1>1, <1>2, <1>3
  <2>2. (a + k) % n = r + t /\ (a + k) \div n = p + q
    BY <2>1, OneRest
  <2>3. r + t = n * 0 + (r + t) /\ r + k = n * q + (r + t)
    BY <1>1, <1>2
  <2>4. (r + t) % n = r + t
    BY <2>1, <2>3, OneRest
  <2>5. (r + k) % n = r + t
    BY <1>1, <2>1, <2>3, OneRest
  <2>6. QED BY <1>1, <1>3, <2>2, <2>4, <2>5 DEF p, q, r, t
<1>4. CASE ~(r + t < n)
  <2>1. r + t - n \in 0..(n - 1) /\ p + q + 1 \in Nat /\ q + 1 \in Nat
        /\ a + k = n * (p + q + 1) + (r + t - n)
    BY <1>1, <1>2, <1>4
  <2>2. (a + k) % n = r + t - n /\ (a + k) \div n = p + q + 1
    BY <2>1, OneRest
  <2>3. r + t = n * 1 + (r + t - n) /\ r + k = n * (q + 1) + (r + t - n)
    BY <1>1, <1>2
  <2>4. (r + t) % n = r + t - n
    BY <2>1, <2>3, OneRest
  <2>5. (r + k) % n = r + t - n
    BY <2>1, <2>3, OneRest
  <2>6. QED BY <1>1, <1>4, <2>2, <2>4, <2>5 DEF p, q, r, t
<1>5. QED BY <1>3, <1>4

(* Of a multiple of both, and of a remainder.                              *)
LEMMA RestOfMultiple ==
  ASSUME NEW n \in Nat \ {0}, NEW b \in Nat \ {0}, NEW a \in Nat
  PROVE  (b * a) % (b * n) = b * (a % n) /\ (b * a) \div (b * n) = a \div n
<1>. DEFINE p == a \div n
            r == a % n
<1>1. p \in Nat /\ r \in 0..(n - 1) /\ a = n * p + r
  BY Divides
<1>. HIDE DEF p, r
<1>2. b * n \in Nat \ {0} /\ b * r \in Nat
  BY <1>1
<1>3. b * a = (b * n) * p + b * r
  BY <1>1
<1>4. b * r + b <= b * n
  BY <1>1, TimesMore
<1>5. b * r \in 0..(b * n - 1)
  BY <1>2, <1>4
<1>6. (b * a) % (b * n) = b * r /\ ((b * a) \div (b * n)) = p
  <2>. DEFINE m == b * n
              t == b * r
  <2>1. m \in Nat \ {0} /\ t \in 0..(m - 1) /\ b * a = m * p + t
    BY <1>2, <1>3, <1>5
  <2>. HIDE DEF m, t
  <2>2. (m * p + t) % m = t /\ ((m * p + t) \div m) = p
    BY <1>1, <2>1, OneRest
  <2>3. (b * a) % m = t /\ ((b * a) \div m) = p
    BY <2>1, <2>2
  <2>4. QED BY <2>3 DEF m, t
<1>7. QED BY <1>6 DEF p, r

(* Of a remainder by a multiple.                                           *)
LEMMA RestOfRest ==
  ASSUME NEW n \in Nat \ {0}, NEW k \in Nat \ {0}, NEW a \in Nat
  PROVE  (a % (n * k)) % n = a % n
<1>. DEFINE p == a \div (n * k)
            r == a % (n * k)
            q == r \div n
            t == r % n
<1>0. n * k \in Nat \ {0}
  OBVIOUS
<1>1. p \in Nat /\ r \in Nat /\ a = (n * k) * p + r
  <2>. DEFINE m == n * k
  <2>1. m \in Nat \ {0}
    BY <1>0
  <2>. HIDE DEF m
  <2>2. (a \div m) \in Nat /\ a % m \in 0..(m - 1) /\ a = m * (a \div m) + (a % m)
    BY <2>1, Divides
  <2>3. a % m \in Nat
    BY <2>1, <2>2
  <2>4. QED BY <2>2, <2>3 DEF m
<1>. HIDE DEF p, r
<1>2. q \in Nat /\ t \in 0..(n - 1) /\ r = n * q + t
  BY <1>1, Divides
<1>. HIDE DEF q, t
<1>3. k * p + q \in Nat /\ a = n * (k * p + q) + t
  <2>1. (n * k) * p = n * (k * p) /\ n * (k * p + q) = n * (k * p) + n * q
        /\ k * p \in Nat /\ n * (k * p) \in Nat /\ n * q \in Nat
    BY <1>1, <1>2
  <2>2. QED BY <1>1, <1>2, <2>1
<1>4. a % n = t
  BY <1>2, <1>3, OneRest
<1>5. QED BY <1>4 DEF t, r

(* A sum of two words is below either exactly when it does not fit one.    *)
LEMMA SumCarries ==
  ASSUME NEW n \in Nat \ {0}, NEW b \in Nat \ {0}, NEW c \in 0..(n - 1),
         NEW e \in 0..(n - 1)
  PROVE  /\ (b * c + b * e) % (b * n) = b * ((c + e) % n)
         /\ b * ((c + e) % n) < b * e <=> ~(c + e < n)
<1>. DEFINE x == c + e
            f == x % n
<1>1. x \in Nat /\ x < n + n /\ b * c + b * e = b * x
  OBVIOUS
<1>2. c \in Nat /\ e \in Nat /\ c = x - e /\ c < n /\ e < n
  OBVIOUS
<1>. HIDE DEF x
<1>3. f = IF x < n THEN x ELSE x - n
  BY <1>1, RestOfLittle
<1>4. (b * x) % (b * n) = b * f
  BY <1>1, RestOfMultiple
<1>. HIDE DEF f
<1>5. f \in Nat
  BY <1>1, <1>3
<1>6. CASE x < n
  <2>1. f = e + c
    BY <1>1, <1>2, <1>3, <1>6
  <2>2. b * f = b * e + b * c /\ b * e \in Nat /\ b * c \in Nat
    BY <1>2, <2>1
  <2>3. ~(b * f < b * e)
    BY <2>2
  <2>4. QED BY <1>1, <1>4, <1>6, <2>3 DEF f, x
<1>7. CASE ~(x < n)
  <2>1. f < e
    BY <1>1, <1>2, <1>3, <1>7
  <2>2. b * f + b <= b * e /\ b * f \in Nat /\ b * e \in Nat
    BY <1>2, <1>5, <2>1, TimesMore, Times
  <2>3. b * f < b * e
    BY <2>2
  <2>4. QED BY <1>1, <1>4, <1>7, <2>3 DEF f, x
<1>8. QED BY <1>6, <1>7

(* Of any integer.                                                         *)
LEMMA RestOfInt ==
  ASSUME NEW n \in Nat \ {0}, NEW a \in Int
  PROVE  a % n \in 0..(n - 1) /\ \E q \in Int : a = n * q + (a % n)
<1>. DEFINE q == a \div n
            r == a % n
<1>1. q \in Int /\ r \in 0..(n - 1)
  OBVIOUS
<1>2. a - (a \div n) * n = a % n
  BY Z3
<1>3. a - q * n = r
  BY <1>2
<1>. HIDE DEF q, r
<1>4. a = n * q + r
  BY <1>1, <1>3
<1>5. QED BY <1>1, <1>4 DEF r

(* What fills up: a is counted modulo a multiple of n.                     *)
LEMMA FillsUp ==
  ASSUME NEW n \in Nat \ {0}, NEW k \in Nat \ {0}, NEW a \in Nat, NEW l \in Nat
  PROVE  /\ (n - l - 1 - (a % (n * k))) % n \in 0..(n - 1)
         /\ (a + ((n - l - 1 - (a % (n * k))) % n) + 1 + l) % n = 0
<1>. DEFINE v == n * k
            h == a \div v
            c == a % v
            x == n - l - 1 - c
            z == x % n
<1>1. v \in Nat \ {0}
  OBVIOUS
<1>2. h \in Nat /\ c \in Nat /\ a = v * h + c
  <2>. HIDE DEF v
  <2>1. QED BY <1>1, Divides
<1>. HIDE DEF h, c
<1>3. x \in Int
  BY <1>2
<1>4. z \in 0..(n - 1) /\ \E q \in Int : x = n * q + z
  <2>. HIDE DEF x
  <2>1. QED BY <1>3, RestOfInt
<1>. HIDE DEF z
<1>5. PICK q \in Int : x = n * q + z
  BY <1>4
<1>. DEFINE b == a + z + 1 + l
            w == k * h - q + 1
<1>6. b \in Nat /\ b >= 1
  BY <1>4
<1>7. b = n * w
  <2>1. v * h = n * (k * h)
    BY <1>2
  <2>2. z = n - l - 1 - c - n * q
    <3>1. n * q \in Int
      BY <1>5
    <3>2. QED BY <1>2, <1>4, <1>5, <3>1
  <2>. DEFINE y == k * h
  <2>3. y \in Nat
    BY <1>2
  <2>. HIDE DEF y, v
  <2>4. a = n * y + c
    BY <1>2, <2>1 DEF y
  <2>5. n * (y - q + 1) = n * y - n * q + n /\ n * y \in Nat /\ n * q \in Int
    BY <1>5, <2>3
  <2>6. b = n * (y - q + 1)
    BY <1>2, <1>4, <2>2, <2>4, <2>5
  <2>7. QED BY <2>6 DEF y
<1>8. w \in Int
  BY <1>2, <1>5
<1>. HIDE DEF b, w
<1>9. w \in Nat
  <2>1. SUFFICES ASSUME w < 0 PROVE FALSE
    BY <1>8
  <2>2. -w \in Nat /\ n * (-w) \in Nat
    BY <1>8, <2>1
  <2>3. n * w = -(n * (-w))
    BY <1>8
  <2>4. QED BY <1>6, <1>7, <2>2, <2>3
<1>10. b % n = 0
  <2>1. 0 \in 0..(n - 1) /\ n * w + 0 = b
    BY <1>6, <1>7
  <2>2. (n * w + 0) % n = 0
    BY <1>9, <2>1, OneRest
  <2>3. QED BY <2>1, <2>2
<1>11. QED BY <1>4, <1>10 DEF b, z, c

(* A function on the numbers up to n is a sequence.                        *)
LEMMA FunctionIsSeq ==
  ASSUME NEW S, NEW n \in Nat, NEW f \in [1..n -> S]
  PROVE  f \in Seq(S) /\ Len(f) = n
BY SeqDef

(* The n - m elements behind the first m.                                  *)
LEMMA Piece ==
  ASSUME NEW S, NEW s \in Seq(S), NEW m \in Nat, NEW n \in Nat, m <= n, n <= Len(s)
  PROVE  /\ SubSeq(s, m + 1, n) \in Seq(S) /\ Len(SubSeq(s, m + 1, n)) = n - m
         /\ \A i \in 1..(n - m) : SubSeq(s, m + 1, n)[i] = s[m + i]
<1>1. \A i \in (m + 1)..n : s[i] \in S
  BY ElementOfSeq, LenProperties
<1>2. QED BY <1>1, SubSeqProperties

(* A piece of a piece behind its first k elements.                         *)
LEMMA PieceOfPiece ==
  ASSUME NEW S, NEW s \in Seq(S), NEW m \in Nat, NEW n \in Nat, m <= n, n <= Len(s),
         NEW k \in 0..(n - m)
  PROVE  SubSeq(SubSeq(s, m + 1, n), k + 1, n - m) = SubSeq(s, m + k + 1, n)
<1>. DEFINE t == SubSeq(s, m + 1, n)
<1>1. t \in Seq(S) /\ Len(t) = n - m /\ \A i \in 1..(n - m) : t[i] = s[m + i]
  BY Piece
<1>. HIDE DEF t
<1>2. /\ SubSeq(t, k + 1, n - m) \in Seq(S) /\ Len(SubSeq(t, k + 1, n - m)) = n - m - k
      /\ \A i \in 1..(n - m - k) : SubSeq(t, k + 1, n - m)[i] = t[k + i]
  BY <1>1, Piece
<1>3. /\ SubSeq(s, m + k + 1, n) \in Seq(S) /\ Len(SubSeq(s, m + k + 1, n)) = n - m - k
      /\ \A i \in 1..(n - m - k) : SubSeq(s, m + k + 1, n)[i] = s[m + k + i]
  <2>1. m + k \in Nat /\ m + k <= n /\ n - (m + k) = n - m - k
    OBVIOUS
  <2>2. QED BY <2>1, Piece
<1>4. \A i \in 1..(n - m - k) : SubSeq(t, k + 1, n - m)[i] = SubSeq(s, m + k + 1, n)[i]
  <2>. SUFFICES ASSUME NEW i \in 1..(n - m - k)
                PROVE  SubSeq(t, k + 1, n - m)[i] = SubSeq(s, m + k + 1, n)[i]
    OBVIOUS
  <2>1. k + i \in 1..(n - m) /\ m + k + i = m + (k + i)
    OBVIOUS
  <2>2. QED BY <1>1, <1>2, <1>3, <2>1
<1>5. QED BY <1>2, <1>3, <1>4, SeqEqual DEF t

(* A sequence is its first k elements and the others.                      *)
LEMMA TwoPieces ==
  ASSUME NEW S, NEW s \in Seq(S), NEW k \in 0..Len(s)
  PROVE  /\ SubSeq(s, 1, k) \in Seq(S) /\ Len(SubSeq(s, 1, k)) = k
         /\ \A i \in 1..k : SubSeq(s, 1, k)[i] = s[i]
         /\ SubSeq(s, k + 1, Len(s)) \in Seq(S)
         /\ Len(SubSeq(s, k + 1, Len(s))) = Len(s) - k
         /\ SubSeq(s, 1, k) \o SubSeq(s, k + 1, Len(s)) = s
<1>1. Len(s) \in Nat
  BY LenProperties
<1>2. SubSeq(s, 1, k) \o SubSeq(s, k + 1, Len(s)) = SubSeq(s, 1, Len(s))
  <2>1. /\ 1 \in 1..(Len(s) + 1) /\ k \in (1 - 1)..Len(s) /\ Len(s) \in k..Len(s)
    BY <1>1
  <2>2. QED BY <2>1, ConcatAdjacentSubSeq
<1>3. /\ SubSeq(s, 1, k) \in Seq(S) /\ Len(SubSeq(s, 1, k)) = k
      /\ \A i \in 1..k : SubSeq(s, 1, k)[i] = s[i]
  <2>1. \A i \in 1..k : s[i] \in S
    BY <1>1, ElementOfSeq
  <2>2. QED BY <1>1, <2>1, SubSeqProperties
<1>4. /\ SubSeq(s, k + 1, Len(s)) \in Seq(S)
      /\ Len(SubSeq(s, k + 1, Len(s))) = Len(s) - k
  BY <1>1, Piece
<1>5. QED BY <1>2, <1>3, <1>4, SubSeqFull

-----------------------------------------------------------------------------
(* Consistent hashing moves little, for all sets of points and members.    *)
(* Of the points in T, those at or behind place x, or all.                 *)
From(T, x) == IF {q \in T : q >= x} = {} THEN T ELSE {q \in T : q >= x}

(* There is one least element.                                             *)
LEMMA LeastIsOne ==
  ASSUME NEW S, S \subseteq Int, NEW p, NEW q, R!IsLeast(p, S), R!IsLeast(q, S)
  PROVE  p = q
BY DEF R!IsLeast

(* A first point from x on is still the first when there are fewer.        *)
LEMMA FirstOfFewer ==
  ASSUME NEW T, NEW U, T \subseteq U, U \subseteq Int, NEW x \in Int, NEW p \in T,
         R!IsLeast(p, From(U, x))
  PROVE  R!IsLeast(p, From(T, x))
<1>1. CASE {q \in U : q >= x} = {}
  BY <1>1 DEF R!IsLeast, From
<1>2. CASE {q \in U : q >= x} # {}
  <2>1. p \in {q \in T : q >= x}
    BY <1>2 DEF R!IsLeast, From
  <2>2. QED BY <1>2, <2>1 DEF R!IsLeast, From
<1>3. QED BY <1>1, <1>2

(* A member that joins or leaves keeps the ring a ring.                    *)
THEOREM RingTyped == R!Spec => []R!TypeOK
<1>1. R!Start => R!TypeOK
  BY DEF R!Start, R!TypeOK, R!Taken
<1>2. R!TypeOK /\ [R!Change]_circle => R!TypeOK'
  <2>. SUFFICES ASSUME R!TypeOK, [R!Change]_circle PROVE R!TypeOK'
    OBVIOUS
  <2>1. ASSUME NEW m \in Member, R!Join(m) PROVE R!TypeOK'
    BY <2>1 DEF R!Join, R!TypeOK, R!Taken
  <2>2. ASSUME NEW m \in Member, R!Leave(m) PROVE R!TypeOK'
    BY <2>2 DEF R!Leave, R!TypeOK, R!Taken
  <2>3. CASE UNCHANGED circle
    BY <2>3 DEF R!TypeOK, R!Taken
  <2>4. QED BY <2>1, <2>2, <2>3 DEF R!Change
<1>3. QED BY <1>1, <1>2, PTL DEF R!Spec

(* Who joins takes objects for itself only.                                *)
LEMMA JoinMoves ==
  ASSUME Point \subseteq Int, R!TypeOK, R!TypeOK' PROVE R!JoinTakesForItself
<1>. SUFFICES ASSUME NEW m \in Member, R!Join(m), NEW x \in Point,
                     NEW n \in Member, NEW k \in Member,
                     R!Belongs(x, n), R!Belongs(x, k)'
              PROVE  k \in {n, m}
  BY DEF R!JoinTakesForItself
<1>1. PICK p \in R!Taken : R!IsFirstFrom(x, p) /\ circle[p] = n
  BY DEF R!Belongs
<1>2. PICK q \in R!Taken' : R!IsFirstFrom(x, q)' /\ circle'[q] = k
  BY DEF R!Belongs
<1>3. PICK S \in SUBSET (Point \ R!Taken) :
        circle' = [r \in R!Taken \cup S |-> IF r \in S THEN m ELSE circle[r]]
  BY DEF R!Join
<1>4. R!Taken' = R!Taken \cup S
  BY <1>3 DEF R!Taken
<1>5. CASE q \in S
  BY <1>2, <1>3, <1>5
<1>6. CASE q \notin S
  <2>1. q \in R!Taken
    BY <1>2, <1>4, <1>6
  <2>2. R!IsLeast(q, From(R!Taken', x))
    BY <1>2 DEF R!IsFirstFrom, R!IsLeast, From
  <2>3. R!Taken \subseteq R!Taken' /\ R!Taken' \subseteq Int /\ x \in Int
    BY <1>4 DEF R!TypeOK
  <2>4. R!IsLeast(q, From(R!Taken, x))
    BY <2>1, <2>2, <2>3, FirstOfFewer
  <2>5. R!IsLeast(p, From(R!Taken, x))
    BY <1>1 DEF R!IsFirstFrom, From
  <2>6. From(R!Taken, x) \subseteq Int
    BY <2>3 DEF From
  <2>7. p = q
    BY <2>4, <2>5, <2>6, LeastIsOne
  <2>8. QED BY <1>1, <1>2, <1>3, <1>6, <2>1, <2>7
<1>7. QED BY <1>5, <1>6

(* Who leaves gives away its own objects only.                             *)
LEMMA LeaveMoves ==
  ASSUME Point \subseteq Int, R!TypeOK PROVE R!LeaveGivesItsOwn
<1>. SUFFICES ASSUME NEW m \in Member, R!Leave(m), NEW x \in Point,
                     NEW n \in Member, R!Belongs(x, n), n # m
              PROVE  R!Belongs(x, n)'
  BY DEF R!LeaveGivesItsOwn
<1>1. PICK p \in R!Taken : R!IsFirstFrom(x, p) /\ circle[p] = n
  BY DEF R!Belongs
<1>2. R!Taken' \subseteq R!Taken /\ p \in R!Taken' /\ circle'[p] = n
  BY <1>1 DEF R!Leave, R!Taken
<1>3. R!IsLeast(p, From(R!Taken, x))
  BY <1>1 DEF R!IsFirstFrom, From
<1>4. R!Taken \subseteq Int /\ x \in Int
  BY DEF R!TypeOK
<1>5. R!IsLeast(p, From(R!Taken', x))
  BY <1>2, <1>3, <1>4, FirstOfFewer
<1>6. R!IsFirstFrom(x, p)'
  BY <1>5 DEF R!IsFirstFrom, R!IsLeast, From
<1>7. QED BY <1>2, <1>6 DEF R!Belongs

(* conhash.h:75-80: as the ring changes, an object moves to who joins, or  *)
(* away from who leaves, and never between two others.                     *)
THEOREM RingMovesLittle ==
  ASSUME Point \subseteq Int PROVE R!Spec => R!MovesLittle
<1>1. R!TypeOK /\ R!TypeOK' => R!JoinTakesForItself /\ R!LeaveGivesItsOwn
  BY JoinMoves, LeaveMoves
<1>2. QED BY <1>1, RingTyped, PTL DEF R!MovesLittle

-----------------------------------------------------------------------------
(* What the proofs ask of the paths: sequences of names, none of the files *)
(* without a name.                                                         *)
PathsAreNames(Name) ==
  Cut \in [Paths -> Seq(Name)] /\ Files \subseteq Seq(Name) \ {<<>>}

(* What can bear a name in the file system.                                *)
States == {"absent", "dir", "empty", "data", "hidden"}

FilesTyped ==
  /\ file \in [F!Entries -> States] /\ call \in [Procs -> F!Calls]
  /\ pc \in [Procs -> {"idle", "next", "tested", "opened", "yes", "no"}]
  /\ depth \in [Procs -> Nat \ {0}] /\ during \in [Procs -> SUBSET States]

IsMaker(p) == F!Fn(p) = "create_dir"

(* The entries above the component that maker p is at are directories; the *)
(* last of them may be a file, which p met if it was to be the last of all.*)
Above(p) ==
  \A n \in 1..(depth[p] - 1) :
    \/ file[F!Prefix(F!Target(p), n)] = "dir"
    \/ n = depth[p] - 1 /\ (n = Len(F!Target(p)) => F!MetFile(p))

(* d was made or met by a maker that has gone on since.                    *)
HasMaker(d) ==
  \E p \in Procs : \E n \in Nat \ {0} :
    /\ IsMaker(p) /\ n < depth[p] /\ n <= Len(F!Target(p))
    /\ d = F!Prefix(F!Target(p), n)

(* A maker that found its component missing, and one that gave up because  *)
(* of a directory of that name, has another to thank for the directory.    *)
MakerInv(p) ==
  IsMaker(p) =>
    /\ Above(p) /\ pc[p] # "opened" /\ depth[p] <= Len(F!Target(p)) + 1
    /\ pc[p] = "tested" => depth[p] <= Len(F!Target(p))
    /\ pc[p] = "yes" => depth[p] > Len(F!Target(p))
    /\ pc[p] = "no" /\ ~refused =>
         depth[p] <= Len(F!Target(p)) /\ file[F!Component(p)] = "dir"
    /\ pc[p] = "tested" \/ (pc[p] = "no" /\ ~refused) =>
         (file[F!Component(p)] = "dir" => HasMaker(F!Component(p)))

(* What a call has seen so far supports what it is about to answer or do.  *)
Saw(p, S) == during[p] \cap S # {}
SeenInv(p) ==
  /\ pc[p] = "opened" => F!Fn(p) = "create_file"
  /\ pc[p] = "next" => IsMaker(p)
  /\ F!Fn(p) = "create_if" =>
       /\ pc[p] = "tested" => Saw(p, {"absent", "hidden"})
       /\ pc[p] = "yes" => Saw(p, F!Regular \cup {"dir"})
  /\ F!Fn(p) = "create_file" /\ pc[p] \in {"opened", "yes"} => Saw(p, F!Regular)
  /\ F!Fn(p) = "remove" /\ pc[p] = "yes" => Saw(p, {"absent", "hidden"})

FilesInv ==
  /\ FilesTyped /\ F!IsTree(file)
  /\ \A p \in Procs : MakerInv(p) /\ SeenInv(p)

LEMMA FilesInit == F!Init => FilesInv
<1>. SUFFICES ASSUME F!Init PROVE FilesInv
  OBVIOUS
<1>1. FilesTyped /\ F!IsTree(file)
  BY DEF F!Init, FilesTyped, States
<1>2. ASSUME NEW p \in Procs PROVE MakerInv(p) /\ SeenInv(p)
  <2>1. pc[p] = "idle" /\ depth[p] = 1
    BY DEF F!Init
  <2>2. 1 <= Len(F!Target(p)) + 1
    OBVIOUS
  <2>3. QED BY <2>1, <2>2 DEF MakerInv, Above, SeenInv
<1>3. QED BY <1>1, <1>2 DEF FilesInv

(* Beginnings of paths.                                                    *)
LEMMA PrefixIs ==
  ASSUME NEW Name, NEW s \in Seq(Name), NEW n \in 1..Len(s)
  PROVE  /\ F!Prefix(s, n) \in Seq(Name) /\ Len(F!Prefix(s, n)) = n
         /\ \A m \in 1..n : F!Prefix(F!Prefix(s, n), m) = F!Prefix(s, m)
         /\ F!Prefix(s, Len(s)) = s
BY DEF F!Prefix

LEMMA PrefixIsEntry ==
  ASSUME NEW s, s \in Files \/ (\E path \in Paths : s = Cut[path]), NEW n \in 1..Len(s)
  PROVE  F!Prefix(s, n) \in F!Entries
BY DEF F!Entries, F!Prefixes

LEMMA EntryTyped ==
  ASSUME NEW Name, PathsAreNames(Name), NEW d \in F!Entries
  PROVE  /\ d \in Seq(Name) /\ Len(d) \in Nat \ {0}
         /\ \A n \in 1..Len(d) : F!Prefix(d, n) \in F!Entries
<1>1. PICK s \in Seq(Name) : (s \in Files \/ (\E path \in Paths : s = Cut[path]))
                             /\ d \in F!Prefixes(s)
  <2>1. PICK s \in {Cut[path] : path \in Paths} \cup Files : d \in F!Prefixes(s)
    BY DEF F!Entries
  <2>2. s \in Seq(Name) /\ (s \in Files \/ (\E path \in Paths : s = Cut[path]))
    BY DEF PathsAreNames
  <2>3. QED BY <2>1, <2>2
<1>2. PICK k \in 1..Len(s) : d = F!Prefix(s, k)
  BY <1>1 DEF F!Prefixes
<1>3. d \in Seq(Name) /\ Len(d) = k
  BY <1>2, PrefixIs
<1>4. ASSUME NEW n \in 1..Len(d) PROVE F!Prefix(d, n) \in F!Entries
  <2>1. F!Prefix(d, n) = F!Prefix(s, n) /\ n \in 1..Len(s)
    BY <1>2, <1>3, PrefixIs
  <2>2. F!Prefix(s, n) \in F!Entries
    BY <1>1, <2>1, PrefixIsEntry
  <2>3. QED BY <2>1, <2>2
<1>5. QED BY <1>3, <1>4

LEMMA TargetTyped ==
  ASSUME FilesTyped, NEW Name, PathsAreNames(Name), NEW p \in Procs
  PROVE  /\ F!Target(p) \in Seq(Name) /\ Len(F!Target(p)) \in Nat
         /\ depth[p] \in Nat \ {0}
         /\ \A n \in 1..Len(F!Target(p)) : F!Prefix(F!Target(p), n) \in F!Entries
         /\ Len(F!Target(p)) > 0 => F!Target(p) \in F!Entries
         /\ ~IsMaker(p) => /\ F!Target(p) \in Files /\ F!Target(p) # <<>>
                           /\ F!Fn(p) \in {"create_if", "create_file", "remove"}
<1>1. call[p] \in F!Calls /\ depth[p] \in Nat \ {0}
  BY DEF FilesTyped
<1>2. CASE IsMaker(p)
  <2>1. call[p].arg \in Paths /\ F!Target(p) = Cut[call[p].arg]
    BY <1>1, <1>2 DEF F!Calls, F!Target, F!Fn, IsMaker
  <2>2. F!Target(p) \in Seq(Name) /\ Len(F!Target(p)) \in Nat
    BY <2>1 DEF PathsAreNames
  <2>3. ASSUME NEW n \in 1..Len(F!Target(p)) PROVE F!Prefix(F!Target(p), n) \in F!Entries
    BY <2>1, PrefixIsEntry
  <2>4. Len(F!Target(p)) > 0 => F!Target(p) \in F!Entries
    BY <2>2, <2>3, PrefixIs
  <2>5. QED BY <1>1, <1>2, <2>2, <2>3, <2>4
<1>3. CASE ~IsMaker(p)
  <2>1. /\ call[p].arg \in Files /\ F!Target(p) = call[p].arg
        /\ F!Fn(p) \in {"create_if", "create_file", "remove"}
    BY <1>1, <1>3 DEF F!Calls, F!Target, F!Fn, IsMaker
  <2>2. F!Target(p) \in Seq(Name) /\ Len(F!Target(p)) \in Nat /\ F!Target(p) # <<>>
    BY <2>1 DEF PathsAreNames
  <2>3. ASSUME NEW n \in 1..Len(F!Target(p)) PROVE F!Prefix(F!Target(p), n) \in F!Entries
    BY <2>1, PrefixIsEntry
  <2>4. Len(F!Target(p)) > 0 => F!Target(p) \in F!Entries
    BY <2>2, <2>3, PrefixIs
  <2>5. QED BY <1>1, <2>1, <2>2, <2>3, <2>4
<1>4. QED BY <1>2, <1>3

(* Every step goes through Watch, which only adds, and shows a running     *)
(* call its target before and after the step.                              *)
LEMMA Watched ==
  ASSUME FilesTyped, F!Watch, file' \in [F!Entries -> States],
         NEW Name, PathsAreNames(Name)
  PROVE  /\ during' \in [Procs -> SUBSET States]
         /\ \A p \in Procs : during[p] \subseteq during'[p]
         /\ \A p \in Procs :
              ~F!Returned(p) /\ pc'[p] # "idle" /\ F!Target(p) # <<>> =>
                {file[F!Target(p)], file'[F!Target(p)]} \subseteq during'[p]
<1>1. \A p \in Procs : F!Target(p) # <<>> => F!Target(p) \in F!Entries
  <2>1. SUFFICES ASSUME NEW p \in Procs, F!Target(p) # <<>> PROVE Len(F!Target(p)) > 0
    BY TargetTyped
  <2>2. F!Target(p) \in Seq(Name)
    BY TargetTyped
  <2>3. QED BY <2>1, <2>2, EmptySeq, LenProperties
<1>2. \A p \in Procs : during[p] \subseteq States
  BY DEF FilesTyped
<1>3. \A p \in Procs : during'[p] =
        IF F!Returned(p) \/ pc'[p] = "idle" \/ F!Target(p) = <<>> THEN during[p]
        ELSE during[p] \cup {file[F!Target(p)], file'[F!Target(p)]}
  BY DEF F!Watch
<1>4. during' = [p \in Procs |-> during'[p]]
  BY DEF F!Watch
<1>5. ASSUME NEW p \in Procs PROVE during'[p] \subseteq States
  <2>1. F!Target(p) # <<>> => file[F!Target(p)] \in States /\ file'[F!Target(p)] \in States
    BY <1>1 DEF FilesTyped
  <2>2. QED BY <1>2, <1>3, <2>1
<1>6. QED BY <1>3, <1>4, <1>5

(* One entry that is no directory changes: the tree remains one, and no    *)
(* directory goes.                                                         *)
DirsKept == \A d \in F!Entries : file[d] = "dir" => file'[d] = "dir"

LEMMA TreeKept ==
  ASSUME NEW Name, PathsAreNames(Name), FilesTyped, F!IsTree(file),
         NEW d \in F!Entries, NEW c, file' = [file EXCEPT ![d] = c],
         file[d] # "dir", c = "absent" \/ F!InDir(d)
  PROVE  F!IsTree(file') /\ DirsKept
<1>1. \A e \in F!Entries : file'[e] = IF e = d THEN c ELSE file[e]
  BY DEF FilesTyped
<1>2. ASSUME NEW e \in F!Entries, file'[e] # "absent", NEW n \in 1..(Len(e) - 1)
      PROVE  file'[F!Prefix(e, n)] = "dir"
  <2>1. Len(e) \in Nat /\ n \in 1..Len(e)
    BY EntryTyped
  <2>2. F!Prefix(e, n) \in F!Entries /\ Len(F!Prefix(e, n)) = n /\ n # Len(e)
    BY <2>1, EntryTyped, PrefixIs
  <2>3. file[F!Prefix(e, n)] = "dir"
    <3>1. CASE e = d
      BY <1>1, <1>2, <3>1 DEF F!InDir
    <3>2. CASE e # d
      BY <1>1, <1>2, <3>2 DEF F!IsTree
    <3>3. QED BY <3>1, <3>2
  <2>4. QED BY <1>1, <2>2, <2>3
<1>3. QED BY <1>1, <1>2 DEF F!IsTree, DirsKept

(* What is the same in every step of one process.                          *)
StepOf(p) ==
  /\ call' = call /\ F!Watch /\ file' \in [F!Entries -> States]
  /\ \A q \in Procs \ {p} : pc'[q] = pc[q] /\ depth'[q] = depth[q]
  /\ DirsKept /\ (refused => refused')
  /\ depth' \in [Procs -> Nat \ {0}] /\ depth'[p] \in {depth[p], depth[p] + 1}

LEMMA SameTarget ==
  ASSUME call' = call, NEW p
  PROVE  /\ F!Fn(p)' = F!Fn(p) /\ F!Target(p)' = F!Target(p) /\ IsMaker(p)' = IsMaker(p)
         /\ \A n : F!Prefix(F!Target(p), n)' = F!Prefix(F!Target(p), n)
BY DEF F!Fn, F!Target, F!Prefix, IsMaker

(* What had a maker has one still.                                         *)
LEMMA MakersStay ==
  ASSUME FilesTyped, NEW p \in Procs, StepOf(p), NEW d, HasMaker(d) PROVE HasMaker(d)'
<1>1. PICK q \in Procs, n \in Nat \ {0} :
        /\ IsMaker(q) /\ n < depth[q] /\ n <= Len(F!Target(q))
        /\ d = F!Prefix(F!Target(q), n)
  BY DEF HasMaker
<1>2. n < depth'[q]
  <2>1. depth[q] \in Nat /\ depth'[q] \in {depth[q], depth[q] + 1}
    BY DEF StepOf, FilesTyped
  <2>2. QED BY <1>1, <2>1
<1>3. call' = call
  BY DEF StepOf
<1>4. QED BY <1>1, <1>2, <1>3, SameTarget DEF HasMaker

(* The others, when what becomes a directory has a maker.                  *)
NewHaveMakers ==
  \A d \in F!Entries : file[d] # "dir" /\ file'[d] = "dir" => HasMaker(d)'

LEMMA ThisMakerRests ==
  ASSUME NEW Name, PathsAreNames(Name), FilesInv, NEW p \in Procs, StepOf(p),
         NewHaveMakers, NEW q \in Procs, pc'[q] = pc[q], depth'[q] = depth[q]
  PROVE  MakerInv(q)'
<1>. SUFFICES ASSUME IsMaker(q) PROVE MakerInv(q)'
  BY SameTarget DEF MakerInv, StepOf
<1>1. FilesTyped /\ MakerInv(q)
  BY DEF FilesInv
<1>2. /\ pc'[q] = pc[q] /\ depth'[q] = depth[q] /\ (refused => refused')
      /\ call' = call /\ DirsKept /\ during[q] \subseteq during'[q]
  BY <1>1, Watched DEF StepOf
<1>3. /\ IsMaker(q)' = IsMaker(q) /\ F!Target(q)' = F!Target(q)
      /\ F!Component(q)' = F!Component(q)
  BY <1>2, SameTarget DEF F!Component
<1>4. /\ Len(F!Target(q)) \in Nat /\ depth[q] \in Nat \ {0}
      /\ \A n \in 1..Len(F!Target(q)) : F!Prefix(F!Target(q), n) \in F!Entries
  BY <1>1, TargetTyped
<1>5. F!MetFile(q) => F!MetFile(q)'
  BY <1>2 DEF F!MetFile
<1>6. Above(q)'
  <2>. SUFFICES ASSUME NEW n \in 1..(depth[q] - 1)
                PROVE  \/ file'[F!Prefix(F!Target(q), n)] = "dir"
                       \/ n = depth[q] - 1 /\ (n = Len(F!Target(q)) => F!MetFile(q)')
    BY <1>2, SameTarget DEF Above
  <2>1. depth[q] <= Len(F!Target(q)) + 1 /\ Above(q)
    BY <1>1 DEF MakerInv
  <2>2. F!Prefix(F!Target(q), n) \in F!Entries
    BY <1>4, <2>1
  <2>3. QED BY <1>2, <1>5, <2>1, <2>2 DEF Above, DirsKept
<1>7. depth[q] <= Len(F!Target(q)) => F!Component(q) \in F!Entries
  BY <1>4 DEF F!Component
<1>8. ASSUME pc[q] = "tested" \/ (pc[q] = "no" /\ ~refused), file'[F!Component(q)] = "dir"
      PROVE  HasMaker(F!Component(q))'
  <2>1. depth[q] <= Len(F!Target(q))
    BY <1>1, <1>8 DEF MakerInv
  <2>2. CASE file[F!Component(q)] = "dir"
    <3>1. HasMaker(F!Component(q))
      BY <1>1, <1>8, <2>2 DEF MakerInv
    <3>. DEFINE d == F!Component(q)
    <3>2. HasMaker(d)'
      <4>1. HasMaker(d) => HasMaker(d)'
        <5>. HIDE DEF d
        <5>1. ASSUME NEW e, e = d PROVE HasMaker(e) => HasMaker(e)'
          BY <1>1, MakersStay
        <5>2. QED BY <1>3, <5>1 DEF HasMaker, d
      <4>2. QED BY <3>1, <4>1
    <3>3. QED BY <3>2
  <2>3. CASE file[F!Component(q)] # "dir"
    <3>1. PICK e \in F!Entries : e = F!Component(q)
      BY <1>7, <2>1
    <3>2. HasMaker(e)'
      BY <1>8, <2>3, <3>1 DEF NewHaveMakers
    <3>3. QED BY <1>3, <3>1, <3>2 DEF HasMaker
  <2>4. QED BY <2>2, <2>3
<1>9. pc[q] = "no" /\ ~refused =>
        depth[q] <= Len(F!Target(q)) /\ file'[F!Component(q)] = "dir"
  BY <1>1, <1>2, <1>7 DEF MakerInv, DirsKept
<1>10. QED BY <1>1, <1>2, <1>3, <1>6, <1>8, <1>9 DEF MakerInv

LEMMA MakersRest ==
  ASSUME NEW Name, PathsAreNames(Name), FilesInv, NEW p \in Procs, StepOf(p),
         NewHaveMakers, MakerInv(p)'
  PROVE  \A q \in Procs : MakerInv(q)'
BY ThisMakerRests DEF StepOf

LEMMA SeenRest ==
  ASSUME NEW Name, PathsAreNames(Name), FilesTyped, NEW p \in Procs, StepOf(p),
         \A q \in Procs : SeenInv(q), SeenInv(p)'
  PROVE  \A q \in Procs : SeenInv(q)'
<1>. SUFFICES ASSUME NEW q \in Procs, q # p PROVE SeenInv(q)'
  OBVIOUS
<1>1. pc'[q] = pc[q] /\ F!Fn(q)' = F!Fn(q) /\ IsMaker(q)' = IsMaker(q)
  BY SameTarget DEF StepOf
<1>2. during[q] \subseteq during'[q]
  BY Watched DEF StepOf
<1>3. QED BY <1>1, <1>2 DEF SeenInv, Saw

(* The steps of create_dir.                                                *)
DirStep(p) ==
  F!DirThere(p) \/ F!DirMissing(p) \/ F!DirDone(p) \/ F!Mkdir(p) \/ F!MkdirFails(p)

(* Of a maker, none of which changes more than the entry of its component. *)
LEMMA DirStepKeeps ==
  ASSUME NEW Name, PathsAreNames(Name), FilesInv, NEW p \in Procs, DirStep(p)
  PROVE  /\ StepOf(p) /\ IsMaker(p) /\ F!IsTree(file')
         /\ pc' \in [Procs -> {"idle", "next", "tested", "opened", "yes", "no"}]
<1>. USE DEF DirStep, F!DirThere, F!DirMissing, F!DirDone, F!Mkdir, F!MkdirFails, F!Goto
<1>1. /\ call' = call /\ F!Watch /\ IsMaker(p) /\ (refused => refused')
      /\ \A q \in Procs \ {p} : pc'[q] = pc[q] /\ depth'[q] = depth[q]
      /\ depth' \in [Procs -> Nat \ {0}] /\ depth'[p] \in {depth[p], depth[p] + 1}
      /\ pc' \in [Procs -> {"idle", "next", "tested", "opened", "yes", "no"}]
  <2>1. call' = call /\ F!Watch /\ IsMaker(p)
    BY DEF F!InLoop, IsMaker
  <2>5. refused' \in {refused, refused \/ file[F!Component(p)] # "dir"}
    BY Zenon
  <2>6. refused => refused'
    BY <2>5
  <2>2. /\ pc \in [Procs -> {"idle", "next", "tested", "opened", "yes", "no"}]
        /\ depth \in [Procs -> Nat \ {0}]
    BY DEF FilesInv, FilesTyped
  <2>3. /\ \E l \in {"next", "tested", "yes", "no"} : pc' = [pc EXCEPT ![p] = l]
        /\ depth' \in {depth, [depth EXCEPT ![p] = @ + 1]}
    OBVIOUS
  <2>. HIDE DEF DirStep
  <2>4. QED BY <2>1, <2>2, <2>3, <2>6
<1>2. F!Mkdir(p) \/ file' = file
  OBVIOUS
<1>3. CASE F!Mkdir(p)
  <2>1. depth[p] <= Len(F!Target(p)) /\ Len(F!Target(p)) \in Nat /\ depth[p] \in Nat \ {0}
    BY <1>1, <1>3, TargetTyped DEF FilesInv, MakerInv
  <2>2. F!Component(p) \in F!Entries
    BY <2>1, TargetTyped DEF FilesInv, F!Component
  <2>3. /\ file' = [file EXCEPT ![F!Component(p)] = "dir"]
        /\ file[F!Component(p)] = "absent" /\ F!InDir(F!Component(p))
    BY <1>3 DEF F!Set, F!There
  <2>. HIDE DEF DirStep, F!Mkdir
  <2>4. file' \in [F!Entries -> States]
    BY <2>3 DEF FilesInv, FilesTyped, States
  <2>5. F!IsTree(file') /\ DirsKept
    BY <2>2, <2>3, TreeKept DEF FilesInv
  <2>6. QED BY <1>1, <2>4, <2>5 DEF StepOf
<1>4. CASE file' = file
  <2>. HIDE DEF DirStep
  <2>1. QED BY <1>1, <1>4 DEF StepOf, DirsKept, FilesInv, FilesTyped
<1>5. QED BY <1>2, <1>3, <1>4

(* The component that p goes on from is there, with directories above it.  *)
LEMMA GoesOn ==
  ASSUME NEW Name, PathsAreNames(Name), FilesInv, NEW p \in Procs,
         F!DirThere(p) \/ F!Mkdir(p)
  PROVE  Above(p)' /\ depth'[p] = depth[p] + 1 /\ depth[p] <= Len(F!Target(p))
<1>1. /\ StepOf(p) /\ IsMaker(p) /\ F!IsTree(file')
      /\ pc'[p] = "next" /\ ~F!Returned(p) /\ depth'[p] = depth[p] + 1
  BY DirStepKeeps DEF DirStep, F!DirThere, F!Mkdir, F!InLoop, F!Goto, F!Returned,
     FilesInv, FilesTyped
<1>2. /\ Len(F!Target(p)) \in Nat /\ depth[p] \in Nat \ {0} /\ F!Target(p) \in Seq(Name)
      /\ \A n \in 1..Len(F!Target(p)) : F!Prefix(F!Target(p), n) \in F!Entries
  BY TargetTyped DEF FilesInv
<1>3. depth[p] <= Len(F!Target(p)) /\ F!Component(p) \in F!Entries
  <2>1. depth[p] <= Len(F!Target(p))
    BY <1>1 DEF FilesInv, MakerInv, F!DirThere, F!Mkdir
  <2>2. QED BY <1>2, <2>1 DEF F!Component
<1>4. file'[F!Component(p)] # "absent" /\ file' \in [F!Entries -> States]
  <2>1. CASE F!DirThere(p)
    BY <1>1, <2>1 DEF F!DirThere, F!There, StepOf
  <2>2. CASE F!Mkdir(p)
    <3>1. file' = [file EXCEPT ![F!Component(p)] = "dir"] /\ file \in [F!Entries -> States]
      BY <2>2 DEF F!Mkdir, F!Set, FilesInv, FilesTyped
    <3>2. file'[F!Component(p)] = "dir"
      BY <1>3, <3>1
    <3>3. QED BY <1>1, <3>2 DEF StepOf
  <2>3. QED BY <2>1, <2>2
<1>5. ASSUME NEW n \in 1..depth[p], file'[F!Prefix(F!Target(p), n)] # "dir"
      PROVE  n = depth[p] /\ (n = Len(F!Target(p)) => F!MetFile(p)')
  <2>1. n = depth[p]
    <3>1. SUFFICES ASSUME n # depth[p] PROVE FALSE
      OBVIOUS
    <3>2. Len(F!Component(p)) = depth[p]
      BY <1>2, <1>3, PrefixIs DEF F!Component
    <3>3. F!Prefix(F!Component(p), n) = F!Prefix(F!Target(p), n)
      BY <1>2, <1>3, PrefixIs DEF F!Component
    <3>4. n \in 1..(Len(F!Component(p)) - 1)
      BY <1>2, <3>1, <3>2
    <3>5. file'[F!Prefix(F!Component(p), n)] = "dir"
      BY <1>1, <1>3, <1>4, <3>4 DEF F!IsTree
    <3>6. QED BY <1>5, <3>3, <3>5
  <2>2. ASSUME n = Len(F!Target(p)) PROVE F!MetFile(p)'
    <3>1. F!Target(p) = F!Component(p) /\ F!Target(p) # <<>>
      <4>1. F!Component(p) = F!Target(p)
        BY <1>2, <2>1, <2>2, PrefixIs DEF F!Component
      <4>2. Len(F!Target(p)) # 0
        BY <1>2, <2>1, <2>2
      <4>3. QED BY <1>2, <4>1, <4>2, EmptySeq
    <3>2. file'[F!Target(p)] \in during'[p]
      BY <1>1, <3>1, Watched DEF StepOf, FilesInv
    <3>3. file'[F!Target(p)] \in F!Regular
      BY <1>3, <1>4, <1>5, <2>1, <3>1 DEF States, F!Regular, F!Component
    <3>4. QED BY <3>2, <3>3 DEF F!MetFile
  <2>3. QED BY <2>1, <2>2
<1>6. Above(p)'
  <2>1. depth'[p] - 1 = depth[p]
    BY <1>1, <1>2
  <2>2. QED BY <1>1, <1>5, <2>1, SameTarget DEF Above, StepOf
<1>7. QED BY <1>1, <1>3, <1>6

(* It stays where it is.                                                   *)
LEMMA StaysPut ==
  ASSUME NEW Name, PathsAreNames(Name), FilesInv, NEW p \in Procs, DirStep(p),
         depth'[p] = depth[p], file' = file
  PROVE  Above(p)'
<1>1. StepOf(p) /\ IsMaker(p)
  BY DirStepKeeps
<1>2. during[p] \subseteq during'[p]
  BY <1>1, Watched DEF StepOf, FilesInv
<1>3. F!MetFile(p) => F!MetFile(p)'
  BY <1>2 DEF F!MetFile
<1>4. Above(p)
  BY <1>1 DEF FilesInv, MakerInv
<1>5. QED BY <1>1, <1>3, <1>4, SameTarget DEF Above, StepOf

LEMMA DirStepInv ==
  ASSUME NEW Name, PathsAreNames(Name), FilesInv, NEW p \in Procs, DirStep(p)
  PROVE  FilesInv'
<1>1. /\ StepOf(p) /\ IsMaker(p) /\ F!IsTree(file')
      /\ pc' \in [Procs -> {"idle", "next", "tested", "opened", "yes", "no"}]
  BY DirStepKeeps
<1>2. FilesTyped'
  <2>1. during' \in [Procs -> SUBSET States]
    BY <1>1, Watched DEF StepOf, FilesInv
  <2>2. QED BY <1>1, <2>1 DEF FilesTyped, FilesInv, StepOf
<1>3. /\ F!Target(p)' = F!Target(p) /\ IsMaker(p)'
      /\ Len(F!Target(p)) \in Nat /\ depth[p] \in Nat \ {0}
  BY <1>1, SameTarget, TargetTyped DEF StepOf, FilesInv
<1>4. MakerInv(p)'
  <2>1. CASE F!DirThere(p) \/ F!Mkdir(p)
    <3>1. pc'[p] = "next"
      BY <2>1 DEF F!DirThere, F!Mkdir, F!Goto, FilesInv, FilesTyped
    <3>2. Above(p)' /\ depth'[p] = depth[p] + 1 /\ depth[p] <= Len(F!Target(p))
      BY <2>1, GoesOn
    <3>3. depth'[p] <= Len(F!Target(p)) + 1
      BY <1>3, <3>2
    <3>4. QED BY <1>3, <3>1, <3>2, <3>3 DEF MakerInv
  <2>2. CASE F!DirMissing(p) \/ F!DirDone(p) \/ F!MkdirFails(p)
    <3>1. depth' = depth /\ file' = file
      BY <2>2 DEF F!DirMissing, F!DirDone, F!MkdirFails
    <3>2. Above(p)' /\ depth[p] <= Len(F!Target(p)) + 1
      BY <1>1, <3>1, StaysPut DEF FilesInv, MakerInv
    <3>3. F!Component(p)' = F!Component(p)
      BY <1>3, <3>1 DEF F!Component, F!Prefix
    <3>4. CASE F!DirMissing(p)
      <4>1. pc'[p] = "tested" /\ depth[p] <= Len(F!Target(p)) /\ file[F!Component(p)] = "absent"
        BY <3>4 DEF F!DirMissing, F!Goto, F!There, FilesInv, FilesTyped
      <4>2. QED BY <1>3, <3>1, <3>2, <3>3, <4>1 DEF MakerInv
    <3>5. CASE F!DirDone(p)
      <4>1. pc'[p] = "yes" /\ depth[p] > Len(F!Target(p))
        BY <3>5 DEF F!DirDone, F!Goto, FilesInv, FilesTyped
      <4>2. QED BY <1>3, <3>1, <3>2, <3>3, <4>1 DEF MakerInv
    <3>6. CASE F!MkdirFails(p)
      <4>1. /\ pc[p] = "tested" /\ pc'[p] = "no"
            /\ refused' = (refused \/ file[F!Component(p)] # "dir")
        BY <3>6 DEF F!MkdirFails, F!Goto, FilesInv, FilesTyped
      <4>2. /\ depth[p] <= Len(F!Target(p))
            /\ file[F!Component(p)] = "dir" => HasMaker(F!Component(p))
        BY <1>1, <4>1 DEF FilesInv, MakerInv
      <4>3. HasMaker(F!Component(p)) => HasMaker(F!Component(p))'
        BY <1>1, <3>1, <3>3, SameTarget DEF HasMaker, StepOf
      <4>4. QED BY <1>3, <3>1, <3>2, <3>3, <4>1, <4>2, <4>3 DEF MakerInv
    <3>7. QED BY <2>2, <3>4, <3>5, <3>6
  <2>3. QED BY <2>1, <2>2 DEF DirStep
<1>5. NewHaveMakers
  <2>1. CASE F!Mkdir(p)
    <3>1. /\ file' = [file EXCEPT ![F!Component(p)] = "dir"] /\ file \in [F!Entries -> States]
          /\ depth'[p] = depth[p] + 1 /\ depth[p] <= Len(F!Target(p))
      BY <2>1, GoesOn DEF F!Mkdir, F!Set, FilesInv, FilesTyped
    <3>2. SUFFICES ASSUME NEW d \in F!Entries, d = F!Component(p) PROVE HasMaker(d)'
      BY <3>1 DEF NewHaveMakers
    <3>3. PICK n \in Nat \ {0} : n = depth[p]
      BY <1>3
    <3>4. n < depth'[p] /\ n <= Len(F!Target(p)) /\ d = F!Prefix(F!Target(p), n)
      BY <1>3, <3>1, <3>2, <3>3 DEF F!Component
    <3>5. call' = call
      BY <1>1 DEF StepOf
    <3>6. QED BY <1>3, <3>4, <3>5, SameTarget DEF HasMaker
  <2>2. CASE file' = file
    BY <2>2 DEF NewHaveMakers
  <2>3. QED BY <2>1, <2>2 DEF DirStep, F!DirThere, F!DirMissing, F!DirDone, F!MkdirFails
<1>6. \A q \in Procs : MakerInv(q)'
  BY <1>1, <1>4, <1>5, MakersRest
<1>7. SeenInv(p)'
  BY <1>3, <1>4 DEF SeenInv, MakerInv, IsMaker
<1>8. \A q \in Procs : SeenInv(q)'
  BY <1>1, <1>7, SeenRest DEF FilesInv
<1>9. QED BY <1>1, <1>2, <1>6, <1>8 DEF FilesInv

(* The steps of the other functions, and those of a file's user.           *)
FileStep(p) ==
  \/ F!Test(p) \/ F!OpenIf(p) \/ F!Open(p) \/ F!OpenFails(p) \/ F!Truncate(p)
  \/ F!Unlink(p) \/ F!UnlinkFails(p)

(* They change their file's entry, which does not become a directory.      *)
LEMMA FileStepKeeps ==
  ASSUME NEW Name, PathsAreNames(Name), FilesInv, NEW p \in Procs, FileStep(p)
  PROVE  /\ StepOf(p) /\ ~IsMaker(p) /\ F!IsTree(file') /\ NewHaveMakers
         /\ pc' \in [Procs -> {"idle", "next", "tested", "opened", "yes", "no"}]
         /\ ~F!Returned(p) /\ pc'[p] \in {"tested", "opened", "yes", "no"}
         /\ refused' = refused
<1>. USE DEF FileStep, F!Test, F!OpenIf, F!Open, F!OpenFails, F!Truncate, F!Unlink,
       F!UnlinkFails, F!Opening, F!Goto
<1>1. ~IsMaker(p)
  <2>1. pc[p] = "opened" => ~IsMaker(p)
    BY DEF FilesInv, MakerInv
  <2>2. QED BY <2>1 DEF IsMaker
<1>2. F!Target(p) \in Files /\ F!Target(p) \in F!Entries
  <2>1. F!Target(p) \in Seq(Name) /\ F!Target(p) \in Files /\ F!Target(p) # <<>>
    BY <1>1, TargetTyped DEF FilesInv
  <2>2. Len(F!Target(p)) > 0
    BY <2>1, EmptySeq, LenProperties
  <2>3. QED BY <2>1, <2>2, TargetTyped DEF FilesInv
<1>3. /\ call' = call /\ F!Watch /\ refused' = refused /\ depth' = depth
      /\ \A q \in Procs \ {p} : pc'[q] = pc[q]
      /\ pc' \in [Procs -> {"idle", "next", "tested", "opened", "yes", "no"}]
      /\ ~F!Returned(p) /\ pc'[p] \in {"tested", "opened", "yes", "no"}
  BY DEF FilesInv, FilesTyped, F!Returned
<1>4. \/ file' = file
      \/ \E c \in {"absent", "empty", "hidden"} :
           /\ file' = [file EXCEPT ![F!Target(p)] = c] /\ file[F!Target(p)] # "dir"
           /\ c = "absent" \/ F!InDir(F!Target(p))
  BY DEF F!Set, F!Opens, F!Emptied, F!Regular
<1>. HIDE DEF FileStep, F!Test, F!OpenIf, F!Open, F!OpenFails, F!Truncate, F!Unlink,
       F!UnlinkFails, F!Opening, F!Goto
<1>5. file' \in [F!Entries -> States] /\ F!IsTree(file') /\ DirsKept /\ NewHaveMakers
  <2>1. CASE file' = file
    BY <2>1 DEF FilesInv, FilesTyped, DirsKept, NewHaveMakers
  <2>2. ASSUME NEW c \in {"absent", "empty", "hidden"},
               file' = [file EXCEPT ![F!Target(p)] = c], file[F!Target(p)] # "dir",
               c = "absent" \/ F!InDir(F!Target(p))
        PROVE  file' \in [F!Entries -> States] /\ F!IsTree(file') /\ DirsKept /\ NewHaveMakers
    <3>1. file \in [F!Entries -> States] /\ FilesTyped /\ F!IsTree(file)
      BY DEF FilesInv, FilesTyped
    <3>2. file' \in [F!Entries -> States]
      BY <2>2, <3>1 DEF States
    <3>3. F!IsTree(file') /\ DirsKept
      BY <1>2, <2>2, <3>1, TreeKept
    <3>4. NewHaveMakers
      BY <2>2, <3>1 DEF NewHaveMakers
    <3>5. QED BY <3>2, <3>3, <3>4
  <2>3. QED BY <1>4, <2>1, <2>2
<1>6. StepOf(p)
  BY <1>3, <1>5 DEF StepOf, FilesInv, FilesTyped
<1>7. QED BY <1>1, <1>3, <1>5, <1>6

LEMMA FileStepInv ==
  ASSUME NEW Name, PathsAreNames(Name), FilesInv, NEW p \in Procs, FileStep(p)
  PROVE  FilesInv'
<1>1. /\ StepOf(p) /\ ~IsMaker(p) /\ F!IsTree(file') /\ NewHaveMakers
      /\ pc' \in [Procs -> {"idle", "next", "tested", "opened", "yes", "no"}]
      /\ ~F!Returned(p) /\ pc'[p] \in {"tested", "opened", "yes", "no"}
  BY FileStepKeeps
<1>2. F!Target(p) # <<>> /\ F!Target(p) \in F!Entries
      /\ F!Fn(p) \in {"create_if", "create_file", "remove"}
  <2>1. F!Target(p) \in Seq(Name) /\ F!Target(p) # <<>>
        /\ F!Fn(p) \in {"create_if", "create_file", "remove"}
    BY <1>1, TargetTyped DEF FilesInv
  <2>2. Len(F!Target(p)) > 0
    BY <2>1, EmptySeq, LenProperties
  <2>3. QED BY <2>1, <2>2, TargetTyped DEF FilesInv
<1>3. /\ during' \in [Procs -> SUBSET States] /\ during[p] \subseteq during'[p]
      /\ {file[F!Target(p)], file'[F!Target(p)]} \subseteq during'[p]
  BY <1>1, <1>2, Watched DEF StepOf, FilesInv
<1>4. FilesTyped'
  BY <1>1, <1>3 DEF FilesTyped, FilesInv, StepOf
<1>5. F!Fn(p)' = F!Fn(p) /\ IsMaker(p)' = IsMaker(p)
  BY <1>1, SameTarget DEF StepOf
<1>6. \A q \in Procs : MakerInv(q)'
  <2>1. MakerInv(p)'
    BY <1>1, <1>5 DEF MakerInv
  <2>2. QED BY <1>1, <2>1, MakersRest
<1>7. SeenInv(p)'
  <2>1. SeenInv(p) /\ file \in [F!Entries -> States] /\ pc \in [Procs -> {"idle", "next", "tested", "opened", "yes", "no"}]
    BY DEF FilesInv, FilesTyped
  <2>2. file[F!Target(p)] \in States
    BY <1>2, <2>1
  <2>. USE DEF F!Goto, F!Set
  <2>3. CASE F!Test(p)
    <3>1. /\ F!Fn(p) \in {"create_if", "remove"}
          /\ pc'[p] = IF F!IfThere(p) \/ F!RemoveNeedless(p) THEN "yes" ELSE "tested"
      BY <2>1, <2>3 DEF F!Test
    <3>2. QED BY <1>3, <1>5, <2>2, <3>1 DEF SeenInv, Saw, F!IfThere, F!RemoveNeedless,
                 F!Readable, States, F!Regular, IsMaker
  <2>4. CASE F!OpenIf(p) \/ F!Open(p)
    <3>1. /\ \/ F!Fn(p) = "create_if" /\ pc'[p] = "yes"
             \/ F!Fn(p) = "create_file" /\ pc'[p] = "opened"
          /\ file'[F!Target(p)] = F!Emptied(F!Target(p))
      BY <1>2, <2>1, <2>4 DEF F!OpenIf, F!Open
    <3>2. file'[F!Target(p)] \in F!Regular
      BY <3>1 DEF F!Emptied, F!Regular
    <3>3. QED BY <1>3, <1>5, <3>1, <3>2 DEF SeenInv, Saw, IsMaker
  <2>5. CASE F!Truncate(p)
    <3>1. F!Fn(p) = "create_file" /\ pc[p] = "opened" /\ pc'[p] \in {"yes", "no"}
      BY <2>1, <2>5 DEF F!Truncate, SeenInv
    <3>2. QED BY <1>3, <1>5, <2>1, <3>1 DEF SeenInv, Saw, IsMaker
  <2>6. CASE F!Unlink(p)
    <3>1. F!Fn(p) = "remove" /\ pc'[p] = "yes" /\ file'[F!Target(p)] = "absent"
      BY <1>2, <2>1, <2>6 DEF F!Unlink
    <3>2. QED BY <1>3, <1>5, <3>1 DEF SeenInv, Saw, IsMaker
  <2>7. CASE F!OpenFails(p) \/ F!UnlinkFails(p)
    <3>1. pc'[p] = "no"
      BY <2>1, <2>7 DEF F!OpenFails, F!UnlinkFails
    <3>2. QED BY <3>1 DEF SeenInv
  <2>8. QED BY <2>3, <2>4, <2>5, <2>6, <2>7 DEF FileStep
<1>8. \A q \in Procs : SeenInv(q)'
  BY <1>1, <1>7, SeenRest DEF FilesInv
<1>9. QED BY <1>1, <1>4, <1>6, <1>8 DEF FilesInv

LEMMA RefusedInv ==
  ASSUME NEW Name, PathsAreNames(Name), FilesInv, NEW p \in Procs, F!Refused(p)
  PROVE  FilesInv'
<1>. USE DEF F!Refused, F!Goto
<1>1. /\ StepOf(p) /\ depth' = depth /\ file' = file /\ pc'[p] = "no"
      /\ pc' \in [Procs -> {"idle", "next", "tested", "opened", "yes", "no"}]
      /\ refused' = (refused \/ IsMaker(p))
  BY DEF StepOf, FilesInv, FilesTyped, DirsKept, IsMaker
<1>. HIDE DEF F!Refused
<1>2. during' \in [Procs -> SUBSET States] /\ during[p] \subseteq during'[p]
  BY <1>1, Watched DEF StepOf, FilesInv
<1>3. FilesTyped'
  BY <1>1, <1>2 DEF FilesTyped, FilesInv, StepOf
<1>4. F!Fn(p)' = F!Fn(p) /\ IsMaker(p)' = IsMaker(p) /\ F!Target(p)' = F!Target(p)
  BY <1>1, SameTarget DEF StepOf
<1>5. MakerInv(p)'
  <2>. SUFFICES ASSUME IsMaker(p) PROVE MakerInv(p)'
    BY <1>4 DEF MakerInv
  <2>1. MakerInv(p)
    BY DEF FilesInv
  <2>2. F!MetFile(p) => F!MetFile(p)'
    BY <1>2 DEF F!MetFile
  <2>3. Above(p)'
    BY <1>1, <2>1, <2>2, SameTarget DEF Above, MakerInv, StepOf
  <2>4. QED BY <1>1, <1>4, <2>1, <2>3 DEF MakerInv
<1>6. \A q \in Procs : MakerInv(q)'
  <2>1. NewHaveMakers
    BY <1>1 DEF NewHaveMakers
  <2>2. QED BY <1>1, <1>5, <2>1, MakersRest
<1>7. SeenInv(p)'
  BY <1>1 DEF SeenInv
<1>8. \A q \in Procs : SeenInv(q)'
  BY <1>1, <1>7, SeenRest DEF FilesInv
<1>9. F!IsTree(file')
  BY <1>1 DEF FilesInv
<1>10. QED BY <1>3, <1>6, <1>8, <1>9 DEF FilesInv

(* Nothing but a file's content and the history changes.                   *)
LEMMA UseInv ==
  ASSUME NEW Name, PathsAreNames(Name), FilesInv, NEW f \in Files, F!Use(f)
  PROVE  FilesInv'
<1>0. f \in F!Entries
  <2>1. f \in Seq(Name) /\ f # <<>>
    BY DEF PathsAreNames
  <2>2. Len(f) \in 1..Len(f)
    BY <2>1, EmptySeq, LenProperties
  <2>3. F!Prefix(f, Len(f)) = f /\ F!Prefix(f, Len(f)) \in F!Entries
    BY <2>1, <2>2, PrefixIs, PrefixIsEntry
  <2>4. QED BY <2>3
<1>1. /\ file' = [file EXCEPT ![f] = "data"] /\ file[f] = "empty"
      /\ UNCHANGED <<call, pc, depth, refused>> /\ F!Watch
  BY DEF F!Use, F!Set
<1>2. /\ file' \in [F!Entries -> States] /\ FilesTyped /\ F!IsTree(file)
      /\ F!InDir(f)
  BY <1>0, <1>1 DEF FilesInv, FilesTyped, States, F!IsTree, F!InDir
<1>3. F!IsTree(file') /\ DirsKept
  BY <1>0, <1>1, <1>2, TreeKept
<1>4. /\ during' \in [Procs -> SUBSET States]
      /\ \A p \in Procs : during[p] \subseteq during'[p]
  BY <1>1, <1>2, Watched
<1>5. FilesTyped'
  BY <1>1, <1>2, <1>4 DEF FilesTyped
<1>6. NewHaveMakers
  BY <1>1, <1>2 DEF NewHaveMakers, FilesTyped
<1>7. ASSUME NEW p \in Procs PROVE MakerInv(p)' /\ SeenInv(p)'
  <2>1. StepOf(p)
    BY <1>1, <1>2, <1>3 DEF StepOf, FilesTyped
  <2>2. F!Fn(p)' = F!Fn(p) /\ IsMaker(p)' = IsMaker(p)
    BY <1>1, SameTarget
  <2>3. SeenInv(p)'
    <3>1. SeenInv(p) /\ during[p] \subseteq during'[p] /\ pc'[p] = pc[p]
      BY <1>1, <1>4 DEF FilesInv
    <3>2. QED BY <2>2, <3>1 DEF SeenInv, Saw
  <2>4. MakerInv(p)'
    BY <1>1, <1>2, <1>3, <1>4, <1>6, <2>1, ThisMakerRests
  <2>5. QED BY <2>3, <2>4
<1>8. QED BY <1>3, <1>5, <1>7 DEF FilesInv

(* Any number of calls on any paths and files keep it so.                  *)
THEOREM FilesInvariance ==
  ASSUME NEW Name, PathsAreNames(Name) PROVE F!Spec => []FilesInv
<1>1. FilesInv /\ [F!Next]_(F!vars) => FilesInv'
  <2>. SUFFICES ASSUME FilesInv, [F!Next]_(F!vars) PROVE FilesInv'
    OBVIOUS
  <2>1. ASSUME NEW p \in Procs, DirStep(p) PROVE FilesInv'
    BY <2>1, DirStepInv
  <2>2. ASSUME NEW p \in Procs, FileStep(p) PROVE FilesInv'
    BY <2>2, FileStepInv
  <2>3. ASSUME NEW p \in Procs, F!Refused(p) PROVE FilesInv'
    BY <2>3, RefusedInv
  <2>4. ASSUME NEW f \in Files, F!Use(f) PROVE FilesInv'
    BY <2>4, UseInv
  <2>5. CASE UNCHANGED F!vars
    BY <2>5 DEF FilesInv, FilesTyped, MakerInv, IsMaker, Above, HasMaker, SeenInv, Saw,
       F!vars, F!Fn, F!Target, F!Component, F!Prefix, F!MetFile
  <2>6. QED BY <2>1, <2>2, <2>3, <2>4, <2>5 DEF F!Next, DirStep, FileStep
<1>2. QED BY FilesInit, <1>1, PTL DEF F!Spec

(* eother.h:52-62: 1 means that the directories above the last name are    *)
(* there, and the last, unless a regular file had its name meanwhile.      *)
THEOREM DirsAreThere ==
  ASSUME NEW Name, PathsAreNames(Name) PROVE F!Spec => []F!DirIsThere
<1>1. FilesInv => F!DirIsThere
  <2>. SUFFICES ASSUME FilesInv, NEW p \in Procs, IsMaker(p), pc[p] = "yes",
                       NEW n \in 1..Len(F!Target(p)),
                       file[F!Prefix(F!Target(p), n)] # "dir"
                PROVE  n = Len(F!Target(p)) /\ F!MetFile(p)
    BY DEF F!DirIsThere, IsMaker
  <2>1. Len(F!Target(p)) \in Nat /\ depth[p] \in Nat
    BY TargetTyped DEF FilesInv
  <2>2. Above(p) /\ depth[p] > Len(F!Target(p)) /\ depth[p] <= Len(F!Target(p)) + 1
    BY DEF FilesInv, MakerInv
  <2>3. QED BY <2>1, <2>2 DEF Above
<1>2. QED BY <1>1, FilesInvariance, PTL

(* Of makers that all give up below a component all their paths have, the  *)
(* deepest met a directory that another maker has made and gone beyond.    *)
LEMMA CommonPart ==
  ASSUME FilesInv, NEW Name, PathsAreNames(Name) PROVE F!CommonPartIsMade
<1>. DEFINE Makers == {p \in Procs : F!Fn(p) = "create_dir"}
<1>. SUFFICES ASSUME \A p \in Makers : F!Returned(p), ~refused,
                     NEW p \in Makers, NEW n \in 1..Len(F!Target(p)),
                     \A q \in Makers : n <= Len(F!Target(q))
                                  /\ F!Prefix(F!Target(q), n) = F!Prefix(F!Target(p), n),
                     file[F!Prefix(F!Target(p), n)] # "dir",
                     \A q \in Makers : ~(Len(F!Target(q)) = n /\ F!MetFile(q))
              PROVE  FALSE
  BY DEF F!CommonPartIsMade
<1>1. \A q \in Makers : /\ F!Target(q) \in Seq(Name) /\ Len(F!Target(q)) \in Nat
                        /\ depth[q] \in Nat \ {0}
                        /\ \A m \in 1..Len(F!Target(q)) : F!Prefix(F!Target(q), m) \in F!Entries
  BY TargetTyped DEF FilesInv
<1>2. \A q \in Makers : MakerInv(q) /\ IsMaker(q)
  BY DEF FilesInv, IsMaker
<1>3. ASSUME NEW q \in Makers
      PROVE  pc[q] = "no" /\ depth[q] < n /\ file[F!Component(q)] = "dir"
             /\ depth[q] <= Len(F!Target(q))
  <2>1. Above(q) /\ depth[q] <= Len(F!Target(q)) + 1
        /\ (pc[q] = "yes" => depth[q] > Len(F!Target(q)))
    BY <1>2 DEF MakerInv
  <2>2. file[F!Prefix(F!Target(q), n)] # "dir" /\ n \in 1..Len(F!Target(q))
        /\ ~(Len(F!Target(q)) = n /\ F!MetFile(q))
    BY <1>1
  <2>3. n >= depth[q] - 1 /\ (n = depth[q] - 1 => n # Len(F!Target(q)))
    BY <1>1, <2>1, <2>2 DEF Above
  <2>4. pc[q] = "no"
    <3>1. pc[q] # "yes"
      BY <1>1, <2>1, <2>2, <2>3
    <3>2. pc[q] \in {"yes", "no"}
      BY DEF F!Returned
    <3>3. QED BY <3>1, <3>2
  <2>5. depth[q] <= Len(F!Target(q)) /\ file[F!Component(q)] = "dir"
    BY <1>2, <2>4 DEF MakerInv
  <2>6. depth[q] # n
    BY <2>2, <2>5 DEF F!Component
  <2>7. depth[q] # n + 1
    <3>1. SUFFICES ASSUME depth[q] = n + 1 PROVE FALSE
      OBVIOUS
    <3>2. depth[q] \in 1..Len(F!Target(q)) /\ F!Component(q) \in F!Entries
      BY <1>1, <2>5 DEF F!Component
    <3>3. /\ Len(F!Component(q)) = n + 1
          /\ F!Prefix(F!Component(q), n) = F!Prefix(F!Target(q), n)
      BY <1>1, <2>2, <3>1, <3>2, PrefixIs DEF F!Component
    <3>4. n \in 1..(Len(F!Component(q)) - 1)
      BY <2>2, <3>3
    <3>5. file[F!Prefix(F!Component(q), n)] = "dir"
      BY <2>5, <3>2, <3>4 DEF FilesInv, F!IsTree
    <3>6. QED BY <2>2, <3>3, <3>5
  <2>8. QED BY <1>1, <2>2, <2>3, <2>4, <2>5, <2>6, <2>7
<1>. DEFINE Depths == {depth[q] : q \in Makers}
<1>4. Depths \subseteq Nat /\ Depths # {} /\ n \in Nat /\ \A k \in Depths : k <= n
  BY <1>1, <1>3
<1>5. PICK k \in Depths : \A m \in Depths : m <= k
  BY <1>4, Greatest
<1>6. PICK q \in Makers : depth[q] = k
  BY <1>5
<1>7. HasMaker(F!Component(q)) /\ depth[q] \in 1..Len(F!Target(q))
  BY <1>1, <1>2, <1>3 DEF MakerInv
<1>8. PICK r \in Procs, m \in Nat \ {0} :
        /\ IsMaker(r) /\ m < depth[r] /\ m <= Len(F!Target(r))
        /\ F!Component(q) = F!Prefix(F!Target(r), m)
  BY <1>7 DEF HasMaker
<1>9. m = depth[q]
  <2>1. Len(F!Component(q)) = depth[q]
    BY <1>1, <1>7, PrefixIs DEF F!Component
  <2>2. r \in Makers /\ m \in 1..Len(F!Target(r))
    BY <1>1, <1>8 DEF IsMaker
  <2>3. Len(F!Prefix(F!Target(r), m)) = m
    BY <1>1, <2>2, PrefixIs
  <2>4. QED BY <1>8, <2>1, <2>3
<1>10. depth[r] <= k
  BY <1>5, <1>8 DEF IsMaker
<1>11. QED BY <1>1, <1>6, <1>8, <1>9, <1>10 DEF IsMaker

(* eother.c:101-125: when all makers have returned and no mkdir failed for *)
(* another reason, what the paths in their buffers have in common is there,*)
(* whoever lost which race, or one was satisfied by a file of its name.    *)
THEOREM CommonPathIsMade ==
  ASSUME NEW Name, PathsAreNames(Name) PROVE F!Spec => []F!CommonPartIsMade
<1>1. FilesInv => F!CommonPartIsMade
  BY CommonPart
<1>2. QED BY <1>1, FilesInvariance, PTL

(* create_dir, as a whole.                                                 *)
THEOREM MakersMakeDirs ==
  ASSUME NEW Name, PathsAreNames(Name) PROVE F!Spec => []F!DirsAreMade
<1>1. F!DirIsThere /\ F!CommonPartIsMade => F!DirsAreMade
  BY DEF F!DirsAreMade
<1>2. QED BY <1>1, DirsAreThere, CommonPathIsMade, PTL

(* create_file_if_not_existed empties no file that could be read all the   *)
(* time it ran.                                                            *)
LEMMA FilesAreKept ==
  ASSUME NEW Name, PathsAreNames(Name)
  PROVE  F!Spec => [][F!KeepsWhatIsThere]_(F!vars)
<1>1. FilesInv => F!KeepsWhatIsThere
  BY DEF FilesInv, SeenInv, Saw, F!KeepsWhatIsThere, F!OpenIf, F!Opening
<1>2. QED BY <1>1, FilesInvariance, PTL

(* eother.h:83-101: an answer of 1 was true at some instant of the call,   *)
(* and create_file_if_not_existed empties no file that could be read all   *)
(* the time it ran.                                                        *)
THEOREM FileAnswers ==
  ASSUME NEW Name, PathsAreNames(Name)
  PROVE  F!Spec => []F!FileAnswersAreTrue /\ [][F!KeepsWhatIsThere]_(F!vars)
<1>1. FilesInv => F!FileAnswersAreTrue
  BY DEF FilesInv, SeenInv, Saw, F!FileAnswersAreTrue
<1>2. QED BY <1>1, FilesAreKept, FilesInvariance, PTL

-----------------------------------------------------------------------------
(* ebuffer: the cursors stay in the array; pos passes last only over a CR. *)
(* Every CR that was written has its LF behind it, or is the last byte:    *)
(* so a line's LF is found where the CR was, or is the next byte to come.  *)
BufInv(Byte) ==
  /\ mem \in Seq(Byte \cup {Garbage})
  /\ last \in 0..Len(mem) /\ pos \in 0..(last + 1)
  /\ pos > last => last > 0 /\ mem[last] = CR
  /\ \A i \in 1..(last - 1) : mem[i] = CR => mem[i + 1] = LF
  /\ torn \in BOOLEAN /\ fault \in BOOLEAN

(* What ebuffer.h lets a caller pass.                                      *)
BufUse(Byte) ==
  /\ Chunks \subseteq Seq(Byte) /\ Rooms \subseteq Nat /\ InitSizes \subseteq Nat
  /\ CR # LF

(* The bytes from p to l.                                                  *)
Rest(m, p, l) == IF p >= l THEN <<>> ELSE SubSeq(m, p + 1, l)

(* The bytes from p to l, as a piece of the memory.                        *)
LEMMA RestIs ==
  ASSUME NEW S, NEW m \in Seq(S), NEW p \in Nat, NEW l \in 0..Len(m)
  PROVE  /\ Rest(m, p, l) \in Seq(S)
         /\ Len(Rest(m, p, l)) = IF p > l THEN 0 ELSE l - p
         /\ \A i \in 1..Len(Rest(m, p, l)) : Rest(m, p, l)[i] = m[p + i]
         /\ p <= l => Rest(m, p, l) = SubSeq(m, p + 1, l)
         /\ p >= l => Rest(m, p, l) = <<>>
<1>. Len(m) \in Nat
  BY LenProperties
<1>1. CASE p >= l
  <2>1. p = l => SubSeq(m, p + 1, l) = <<>>
    BY SubSeqEmpty
  <2>2. Rest(m, p, l) = <<>>
    BY <1>1 DEF Rest
  <2>3. QED BY <1>1, <2>1, <2>2, EmptySeq
<1>2. CASE p < l
  <2>1. Rest(m, p, l) = SubSeq(m, p + 1, l)
    BY <1>2 DEF Rest
  <2>2. QED BY <1>2, <2>1, Piece
<1>3. QED BY <1>1, <1>2

(* What has not been read is such a piece.                                 *)
LEMMA UnreadIs ==
  B!Unread = Rest(mem, pos, last) /\ B!Unread' = Rest(mem', pos', last')
BY DEF B!Unread, B!Eof, Rest

(* A line's text ends at its first line end, or at the end of all.         *)
LEMMA TextLenIs ==
  ASSUME NEW Byte, BufInv(Byte)
  PROVE  /\ B!TextLen \in 0..Len(B!Unread)
         /\ B!Ended => B!IsEnd(B!Unread[B!TextLen + 1])
         /\ \A j \in 1..B!TextLen : ~B!IsEnd(B!Unread[j])
<1>. DEFINE n == Len(B!Unread)
            S == {k \in 0..n : k = n \/ B!IsEnd(B!Unread[k + 1])}
<1>1. n \in Nat
  BY UnreadIs, RestIs, LenProperties DEF BufInv
<1>2. n \in S /\ S \subseteq Nat
  BY <1>1
<1>3. PICK k \in S : \A j \in S : k <= j
  BY <1>2, Least
<1>4. \A j \in 1..k : ~B!IsEnd(B!Unread[j])
  <2>. SUFFICES ASSUME NEW j \in 1..k, B!IsEnd(B!Unread[j]) PROVE FALSE
    OBVIOUS
  <2>1. j - 1 \in S
    BY <1>1
  <2>2. QED BY <1>3, <2>1
<1>5. \E m \in 0..n : /\ m = n \/ B!IsEnd(B!Unread[m + 1])
                      /\ \A j \in 1..m : ~B!IsEnd(B!Unread[j])
  BY <1>3, <1>4
<1>6. QED BY <1>5 DEF B!TextLen, B!Ended

LEMMA BufInit ==
  ASSUME NEW Byte, BufUse(Byte), B!Init PROVE BufInv(Byte) /\ B!Stream!StreamInit
<1>1. PICK n \in InitSizes : mem = [i \in 1..n |-> Garbage]
  BY DEF B!Init
<1>2. n \in Nat /\ mem \in [1..n -> Byte \cup {Garbage}]
  BY <1>1 DEF BufUse
<1>3. mem \in Seq(Byte \cup {Garbage}) /\ Len(mem) = n
  BY <1>2, FunctionIsSeq
<1>4. pos = 0 /\ last = 0 /\ torn = FALSE /\ fault = FALSE
  BY DEF B!Init
<1>5. \A i \in 1..(last - 1) : FALSE
  BY <1>4
<1>6. last \in 0..Len(mem) /\ pos \in 0..(last + 1) /\ ~(pos > last)
  BY <1>2, <1>3, <1>4
<1>7. BufInv(Byte)
  BY <1>3, <1>4, <1>5, <1>6 DEF BufInv
<1>8. B!Stream!StreamInit
  BY DEF B!Init, B!Stream!StreamInit, B!Unread, B!Eof
<1>9. QED BY <1>7, <1>8

(* Reading what is there.                                                  *)
LEMMA ReadStep ==
  ASSUME NEW Byte, BufUse(Byte), BufInv(Byte), NEW n \in Rooms, B!Read(n)
  PROVE  BufInv(Byte)' /\ B!Stream!Take /\ Len(out') <= n
<1>. DEFINE k == IF last - pos < n THEN last - pos ELSE n
            U == B!Unread
            S == Byte \cup {Garbage}
<1>1. /\ pos \in Nat /\ last \in Nat /\ n \in Nat /\ pos <= last /\ mem \in Seq(S)
      /\ k \in 0..(last - pos) /\ k <= n /\ last \in 0..Len(mem)
  BY LenProperties DEF BufInv, BufUse, B!Read
<1>2. U \in Seq(S) /\ Len(U) = last - pos /\ U = SubSeq(mem, pos + 1, last)
  BY <1>1, UnreadIs, RestIs
<1>3. out' = SubSeq(U, 1, k) /\ Len(out') = k
  <2>1. Len(SubSeq(U, 0 + 1, k)) = k - 0
    BY <1>1, <1>2, Piece
  <2>2. QED BY <1>1, <1>2, <2>1 DEF B!Read
<1>4. pos' = pos + k /\ mem' = mem /\ last' = last /\ torn' = torn /\ fault' = fault
  BY <1>3 DEF B!Read, B!Keep
<1>5. BufInv(Byte)'
  BY <1>1, <1>4 DEF BufInv
<1>6. B!Unread' = SubSeq(U, k + 1, Len(U))
  <2>1. B!Unread' = SubSeq(mem, pos + k + 1, last)
    <3>1. pos + k \in Nat /\ pos + k <= last
      BY <1>1
    <3>. HIDE DEF k
    <3>2. Rest(mem, pos + k, last) = SubSeq(mem, (pos + k) + 1, last)
      BY <1>1, <3>1, RestIs
    <3>3. QED BY <1>4, <3>2, UnreadIs
  <2>2. QED BY <1>1, <1>2, <2>1, PieceOfPiece
<1>7. (pos > last) = FALSE /\ (pos > last)' = FALSE /\ (torn \/ fault)' = (torn \/ fault)
  BY <1>1, <1>4
<1>8. k \in 0..Len(U)
  BY <1>1, <1>2
<1>9. B!Stream!Take
  BY <1>3, <1>6, <1>7, <1>8 DEF B!Stream!Take
<1>10. QED BY <1>1, <1>3, <1>5, <1>9

(* Reading a whole line.                                                   *)
LEMMA ReadLineStep ==
  ASSUME NEW Byte, BufUse(Byte), BufInv(Byte), NEW n \in Rooms, B!ReadLine(n)
  PROVE  BufInv(Byte)' /\ B!Stream!TakeLine /\ Len(out') < n
<1>. DEFINE k == B!TextLen
            U == B!Unread
            S == Byte \cup {Garbage}
            b == U[k + 1]
            rest == SubSeq(U, k + 2, Len(U))
<1>1. /\ pos \in Nat /\ last \in Nat /\ n \in Nat /\ mem \in Seq(S) /\ last \in 0..Len(mem)
  <2>1. mem \in Seq(S) /\ last \in 0..Len(mem) /\ pos \in 0..(last + 1)
    BY DEF BufInv
  <2>2. Len(mem) \in Nat
    BY <2>1, LenProperties
  <2>3. n \in Nat
    BY DEF BufUse
  <2>. HIDE DEF S
  <2>4. QED BY <2>1, <2>2, <2>3
<1>0. Len(U) \in Nat
  <2>1. Rest(mem, pos, last) \in Seq(S)
    BY <1>1, RestIs
  <2>2. Len(Rest(mem, pos, last)) \in Nat
    BY <2>1, LenProperties
  <2>3. QED BY <2>2, UnreadIs
<1>2. /\ k \in Nat /\ k < Len(U) /\ k < n
      /\ b \in {CR, LF} /\ \A j \in 1..k : U[j] \notin {CR, LF}
  <2>1. B!Ended /\ ~B!TooLong(n)
    BY DEF B!ReadLine
  <2>2. k < Len(U) /\ ~(k >= n)
    BY <2>1 DEF B!Ended, B!TooLong
  <2>3. k \in 0..Len(U) /\ B!IsEnd(U[k + 1]) /\ \A j \in 1..k : ~B!IsEnd(U[j])
    BY <2>1, TextLenIs
  <2>. HIDE DEF k, U
  <2>4. QED BY <1>0, <1>1, <2>2, <2>3 DEF B!IsEnd
<1>3. /\ pos <= last /\ U \in Seq(S) /\ Len(U) = last - pos
      /\ U = SubSeq(mem, pos + 1, last) /\ \A i \in 1..(last - pos) : U[i] = mem[pos + i]
  <2>1. Len(Rest(mem, pos, last)) > 0
    BY <1>2, <1>0, UnreadIs
  <2>2. pos <= last
    BY <1>1, <2>1, RestIs
  <2>3. QED BY <1>1, <2>2, UnreadIs, RestIs
<1>4. /\ out' = SubSeq(U, 1, k) /\ Len(out') = k
      /\ \A i \in 1..k : out'[i] = U[i]
  <2>1. /\ Len(SubSeq(U, 0 + 1, k)) = k - 0
        /\ \A i \in 1..(k - 0) : SubSeq(U, 0 + 1, k)[i] = U[0 + i]
    <3>1. 0 \in Nat /\ k \in Nat /\ 0 <= k /\ k <= Len(U) /\ U \in Seq(S)
      BY <1>0, <1>2, <1>3
    <3>. HIDE DEF k, U, S
    <3>2. QED BY <3>1, Piece
  <2>2. QED BY <1>2, <2>1 DEF B!ReadLine
<1>5. /\ pos' = pos + k + (IF b = CR THEN 2 ELSE 1)
      /\ mem' = mem /\ last' = last /\ torn' = torn /\ fault' = fault
  BY DEF B!ReadLine, B!Keep, B!EndLen
<1>. HIDE DEF k, b
<1>6. b = mem[pos + k + 1] /\ pos + k + 1 <= last
  <2>1. k + 1 \in 1..(last - pos) /\ pos + (k + 1) = pos + k + 1
    BY <1>1, <1>2, <1>3
  <2>2. QED BY <1>1, <1>2, <1>3, <2>1, SMTT(20) DEF b
<1>7. BufInv(Byte)'
  <2>1. pos' > last => last > 0 /\ mem[last] = CR
    BY <1>1, <1>2, <1>5, <1>6
  <2>2. pos' \in 0..(last + 1)
    BY <1>1, <1>2, <1>5, <1>6
  <2>3. QED BY <1>1, <1>5, <2>1, <2>2 DEF BufInv
<1>8. /\ rest = SubSeq(mem, pos + k + 2, last) /\ rest \in Seq(S)
      /\ Len(rest) = last - pos - k - 1
      /\ rest # <<>> => pos + k + 2 <= last
  <2>1. k \in Nat /\ k + 1 \in 0..(last - pos) /\ pos \in Nat /\ last \in Nat /\ pos <= last
    BY <1>1, <1>2, <1>3
  <2>2. SubSeq(SubSeq(mem, pos + 1, last), (k + 1) + 1, last - pos)
          = SubSeq(mem, pos + (k + 1) + 1, last)
    BY <1>1, <2>1, PieceOfPiece
  <2>3. rest = SubSeq(mem, pos + k + 2, last)
    <3>1. (k + 1) + 1 = k + 2 /\ pos + (k + 1) + 1 = pos + k + 2
      BY <2>1
    <3>2. QED BY <1>3, <2>2, <3>1
  <2>4. rest \in Seq(S) /\ Len(rest) = last - (pos + k + 1)
    <3>1. pos + k + 1 \in Nat /\ (pos + k + 1) + 1 = pos + k + 2
      BY <2>1
    <3>2. /\ SubSeq(mem, (pos + k + 1) + 1, last) \in Seq(S)
          /\ Len(SubSeq(mem, (pos + k + 1) + 1, last)) = last - (pos + k + 1)
      BY <1>1, <1>6, <3>1, Piece
    <3>3. QED BY <2>3, <3>1, <3>2
  <2>5. QED BY <1>1, <2>1, <2>3, <2>4, EmptySeq
<1>9. b = CR => (rest = <<>> <=> pos' > last)
  <2>1. rest = <<>> <=> Len(rest) = 0
    BY <1>8, EmptySeq
  <2>. HIDE DEF rest
  <2>2. QED BY <1>1, <1>2, <1>5, <1>8, <2>1
<1>10. B!Unread' = IF b = CR /\ rest # <<>> THEN Tail(rest) ELSE rest
  <2>1. CASE b # CR
    <3>1. pos' = pos + k + 1 /\ pos + k + 1 \in Nat /\ pos + k + 1 <= last
          /\ (pos + k + 1) + 1 = pos + k + 2
      BY <1>1, <1>2, <1>5, <1>6, <2>1
    <3>2. Rest(mem, pos + k + 1, last) = SubSeq(mem, (pos + k + 1) + 1, last)
      BY <1>1, <3>1, RestIs, ZenonT(30)
    <3>3. QED BY <1>5, <1>8, <2>1, <3>1, <3>2, UnreadIs
  <2>2. CASE b = CR /\ rest = <<>>
    <3>1. pos' > last /\ pos' \in Nat
      BY <1>1, <1>2, <1>5, <1>9, <2>2
    <3>2. B!Unread' = <<>>
      BY <1>1, <1>5, <3>1, UnreadIs, RestIs
    <3>3. QED BY <2>2, <3>2
  <2>3. CASE b = CR /\ rest # <<>>
    <3>1. /\ pos' = pos + k + 2 /\ pos + k + 2 \in Nat /\ pos + k + 2 <= last
          /\ pos + k + 2 \in 1..Len(mem) /\ last \in (pos + k + 2)..Len(mem)
      BY <1>1, <1>2, <1>5, <1>8, <2>3
    <3>2. Rest(mem, pos + k + 2, last) = SubSeq(mem, (pos + k + 2) + 1, last)
      BY <1>1, <3>1, RestIs, ZenonT(30)
    <3>3. Tail(rest) = SubSeq(mem, (pos + k + 2) + 1, last)
      BY <1>1, <1>8, <3>1, HeadTailOfSubSeq
    <3>4. QED BY <1>5, <2>3, <3>1, <3>2, <3>3, UnreadIs
  <2>4. QED BY <2>1, <2>2, <2>3
<1>11. (pos > last)' = (b = CR /\ rest = <<>>)
  <2>1. b # CR => ~(pos' > last')
    BY <1>1, <1>2, <1>5, <1>6
  <2>2. QED BY <1>5, <1>9, <2>1
<1>12. B!Stream!NoEnd(SubSeq(U, 1, k))
  <2>1. DOMAIN out' = 1..k
    BY <1>1, <1>2, <1>3, <1>4, Piece, LenProperties
  <2>2. QED BY <1>2, <1>4, <2>1 DEF B!Stream!NoEnd
<1>13. k \in 0..(Len(U) - 1) /\ (torn \/ fault)' = (torn \/ fault)
  BY <1>1, <1>2, <1>3, <1>5
<1>14. B!Stream!TakeLine
  BY <1>2, <1>4, <1>10, <1>11, <1>12, <1>13 DEF B!Stream!TakeLine, b
<1>15. QED BY <1>1, <1>2, <1>4, <1>7, <1>14

(* Asking for a line whose end has not come, or for bytes while the LF of  *)
(* a line is owed, tears the stream; a line too long is not touched.       *)
LEMMA NoLineStep ==
  ASSUME NEW Byte, BufInv(Byte), NEW n \in Rooms,
         B!ReadWild(n) \/ B!Refuse(n) \/ B!Unended(n)
  PROVE  BufInv(Byte)' /\ (B!Stream!Tear \/ B!Stream!TakeNothing)
<1>. DEFINE k == B!TextLen
            U == B!Unread
            S == Byte \cup {Garbage}
<1>1. /\ pos \in Nat /\ last \in Nat /\ mem \in Seq(S) /\ last \in 0..Len(mem)
      /\ torn \in BOOLEAN /\ fault \in BOOLEAN
  BY LenProperties DEF BufInv
<1>2. CASE B!ReadWild(n)
  BY <1>2 DEF B!ReadWild, BufInv, B!Stream!Tear
<1>3. CASE B!Refuse(n)
  <2>1. UNCHANGED <<mem, pos, last, torn, fault>> /\ out' = <<>>
    BY <1>3 DEF B!Refuse, B!Keep
  <2>2. UNCHANGED U
    BY <2>1, UnreadIs
  <2>3. QED BY <2>1, <2>2 DEF BufInv, B!Stream!TakeNothing
<1>4. CASE B!Unended(n)
  <2>1. /\ pos' = pos + k /\ torn' = (torn \/ k > 0) /\ out' = <<>> /\ ~(k < Len(U))
        /\ UNCHANGED <<mem, last, fault>>
    BY <1>4 DEF B!Unended, B!Ended
  <2>2. k \in 0..Len(U) /\ \A j \in 1..k : ~B!IsEnd(U[j])
    BY TextLenIs
  <2>3. U \in Seq(S) /\ Len(U) \in Nat /\ Len(U) = IF pos > last THEN 0 ELSE last - pos
    BY <1>1, UnreadIs, RestIs, LenProperties
  <2>. HIDE DEF k, U
  <2>4. k = Len(U) /\ k \in Nat
    BY <2>1, <2>2, <2>3
  <2>5. BufInv(Byte)'
    <3>1. pos' \in 0..(last + 1) /\ (pos' > last => pos > last)
      BY <1>1, <2>1, <2>3, <2>4 DEF BufInv
    <3>2. QED BY <1>1, <2>1, <3>1 DEF BufInv
  <2>6. CASE k = 0
    <3>1. pos' = pos /\ torn' = torn
      BY <1>1, <2>1, <2>6
    <3>2. UNCHANGED U
      BY <2>1, <3>1, UnreadIs DEF U
    <3>3. QED BY <2>1, <2>5, <3>1, <3>2 DEF B!Stream!TakeNothing, U
  <2>7. CASE k > 0
    <3>1. B!Stream!NoEnd(U) /\ U # <<>>
      BY <2>2, <2>3, <2>4, <2>7, EmptySeq, LenProperties DEF B!Stream!NoEnd, B!IsEnd
    <3>2. QED BY <2>1, <2>5, <2>7, <3>1 DEF B!Stream!Tear, U
  <2>8. QED BY <2>4, <2>6, <2>7
<1>5. QED BY <1>2, <1>3, <1>4

(* Writing, in an array that is large enough or in a larger one.           *)
LEMMA WriteStep ==
  ASSUME NEW Byte, BufUse(Byte), BufInv(Byte), NEW s \in Chunks, B!Write(s)
  PROVE  BufInv(Byte)' /\ B!Stream!Put(s)
<1>. DEFINE S == Byte \cup {Garbage}
            W == SubSeq(mem, 1, last)
<1>1. /\ pos \in Nat /\ last \in Nat /\ mem \in Seq(S) /\ Len(mem) \in Nat
      /\ last <= Len(mem) /\ pos <= last + 1 /\ (pos > last => last > 0 /\ mem[last] = CR)
  BY LenProperties DEF BufInv
<1>2. s \in Seq(S) /\ Len(s) \in Nat
  BY SeqMonotonic, LenProperties DEF BufUse
<1>3. PICK m \in Seq(S) :
        /\ last + Len(s) <= Len(m) /\ Len(m) \in Nat /\ B!Store(s, m)
        /\ \A i \in 1..last : m[i] = mem[i]
  <2>1. CASE B!ShortOf(Len(s))
    <3>1. B!Store(s, B!Enlarged(Len(s)))
      BY <2>1 DEF B!Write
    <3>2. \A i \in 1..Len(mem) : mem[i] \in S
      BY <1>1, ElementOfSeq
    <3>3. B!Enlarged(Len(s)) \in [1..(Len(mem) + Len(s)) -> S]
      BY <1>1, <1>2, <3>2 DEF B!Enlarged
    <3>4. /\ B!Enlarged(Len(s)) \in Seq(S)
          /\ Len(B!Enlarged(Len(s))) = Len(mem) + Len(s)
      BY <1>1, <1>2, <3>3, FunctionIsSeq
    <3>5. \A i \in 1..last : B!Enlarged(Len(s))[i] = mem[i]
      BY <1>1, <1>2 DEF B!Enlarged
    <3>6. QED BY <1>1, <1>2, <3>1, <3>4, <3>5
  <2>2. CASE ~B!ShortOf(Len(s))
    BY <1>1, <1>2, <2>2 DEF B!Write, B!ShortOf
  <2>3. QED BY <2>1, <2>2
<1>4. /\ mem' \in Seq(S) /\ Len(mem') = Len(m) /\ last' = last + Len(s)
      /\ \A i \in 1..last : mem'[i] = mem[i]
      /\ \A i \in 1..Len(s) : mem'[last + i] = s[i]
      /\ UNCHANGED <<pos, torn, fault>> /\ out' = <<>>
  <2>1. mem' = [i \in 1..Len(m) |->
                  IF last < i /\ i <= last + Len(s) THEN s[i - last] ELSE m[i]]
    BY <1>3 DEF B!Store
  <2>2. \A i \in 1..Len(m) : m[i] \in S
    BY ElementOfSeq
  <2>3. \A i \in 1..Len(s) : s[i] \in S
    BY <1>2, ElementOfSeq
  <2>4. mem' \in [1..Len(m) -> S]
    BY <1>1, <1>2, <1>3, <2>1, <2>2, <2>3
  <2>5. mem' \in Seq(S) /\ Len(mem') = Len(m)
    BY <1>3, <2>4, FunctionIsSeq
  <2>6. \A i \in 1..last : mem'[i] = mem[i]
    BY <1>1, <1>2, <1>3, <2>1
  <2>7. ASSUME NEW i \in 1..Len(s) PROVE mem'[last + i] = s[i]
    <3>1. last + i \in 1..Len(m) /\ (last + i) - last = i /\ last < last + i
          /\ last + i <= last + Len(s)
      BY <1>1, <1>2, <1>3
    <3>2. QED BY <2>1, <3>1
  <2>8. QED BY <1>3, <2>5, <2>6, <2>7 DEF B!Store
<1>5. W \in Seq(S) /\ Len(W) = last /\ \A i \in 1..last : W[i] = mem[i]
  <2>1. /\ SubSeq(mem, 0 + 1, last) \in Seq(S) /\ Len(SubSeq(mem, 0 + 1, last)) = last - 0
        /\ \A i \in 1..(last - 0) : SubSeq(mem, 0 + 1, last)[i] = mem[0 + i]
    BY <1>1, Piece
  <2>2. QED BY <1>1, <2>1
<1>6. ASSUME NEW i \in 1..(last + Len(s) - 1), mem'[i] = CR PROVE mem'[i + 1] = LF
  <2>0. \A j \in 1..(Len(W \o s) - 1) : (W \o s)[j] = CR => (W \o s)[j + 1] = LF
    BY DEF B!Write, B!Paired, B!Written
  <2>. HIDE DEF W
  <2>1. /\ Len(W \o s) = last + Len(s)
        /\ \A j \in 1..(last + Len(s)) :
              (W \o s)[j] = IF j <= last THEN W[j] ELSE s[j - last]
    <3>1. /\ Len(W \o s) = Len(W) + Len(s)
          /\ \A j \in 1..(Len(W) + Len(s)) :
                (W \o s)[j] = IF j <= Len(W) THEN W[j] ELSE s[j - Len(W)]
      BY <1>2, <1>5, ConcatProperties
    <3>2. QED BY <1>5, <3>1
  <2>2. ASSUME NEW j \in 1..(last + Len(s)) PROVE (W \o s)[j] = mem'[j]
    <3>1. CASE j <= last
      BY <1>1, <1>4, <1>5, <2>1, <3>1
    <3>2. CASE j > last
      <4>1. j - last \in 1..Len(s) /\ last + (j - last) = j /\ ~(j <= last)
        BY <1>1, <1>2, <3>2
      <4>2. QED BY <1>4, <2>1, <4>1
    <3>3. j <= last \/ j > last
      BY <1>1, <1>2
    <3>4. QED BY <3>1, <3>2, <3>3, Zenon
  <2>3. /\ i \in 1..(last + Len(s)) /\ i + 1 \in 1..(last + Len(s))
        /\ i \in 1..(Len(W \o s) - 1)
    BY <1>1, <1>2, <2>1
  <2>4. (W \o s)[i] = mem'[i] /\ (W \o s)[i + 1] = mem'[i + 1]
    BY <2>2, <2>3
  <2>5. QED BY <1>6, <2>0, <2>3, <2>4
<1>7. BufInv(Byte)'
  <2>1. last' \in 0..Len(mem') /\ pos' \in 0..(last' + 1)
    BY <1>1, <1>2, <1>3, <1>4
  <2>2. pos' > last' => last' > 0 /\ mem'[last'] = CR
    BY <1>1, <1>2, <1>4
  <2>3. \A i \in 1..(last' - 1) : mem'[i] = CR => mem'[i + 1] = LF
    <3>1. last' - 1 = last + Len(s) - 1
      BY <1>1, <1>2, <1>4
    <3>2. QED BY <1>6, <3>1
  <2>4. torn' \in BOOLEAN /\ fault' \in BOOLEAN
    BY <1>4 DEF BufInv
  <2>5. QED BY <1>4, <2>1, <2>2, <2>3, <2>4 DEF BufInv
<1>. HIDE DEF S, W
<1>8. (pos > last)' = ((pos > last) /\ s = <<>>)
  BY <1>1, <1>2, <1>4, EmptySeq
<1>9. pos \in Nat /\ mem' \in Seq(S) /\ last' \in Nat /\ last' \in 0..Len(mem')
  BY <1>1, <1>2, <1>3, <1>4
<1>10. B!Unread' = B!Unread \o (IF pos > last /\ s # <<>> THEN Tail(s) ELSE s)
  <2>1. CASE pos <= last
    <3>. DEFINE U == SubSeq(mem, pos + 1, last)
                V == SubSeq(mem', pos + 1, last')
    <3>1. U \in Seq(S) /\ Len(U) = last - pos /\ \A i \in 1..(last - pos) : U[i] = mem[pos + i]
      BY <1>1, <2>1, Piece
    <3>2. pos <= last' /\ last' <= Len(mem') /\ last' - pos = (last - pos) + Len(s)
      BY <1>1, <1>2, <1>3, <1>4, <2>1
    <3>3. /\ V \in Seq(S) /\ Len(V) = last' - pos
          /\ \A i \in 1..(last' - pos) : V[i] = mem'[pos + i]
      BY <1>1, <1>4, <1>9, <3>2, Piece
    <3>4. B!Unread = U /\ B!Unread' = V
      <4>1. Rest(mem, pos, last) = U
        BY <1>1, <2>1, RestIs
      <4>2. Rest(mem', pos, last') = V
        BY <1>9, <3>2, RestIs
      <4>3. QED BY <1>4, <4>1, <4>2, UnreadIs
    <3>. HIDE DEF U, V
    <3>5. /\ U \o s \in Seq(S) /\ Len(U \o s) = (last - pos) + Len(s)
          /\ \A i \in 1..(Len(U) + Len(s)) :
                (U \o s)[i] = IF i <= Len(U) THEN U[i] ELSE s[i - Len(U)]
      BY <1>2, <3>1, ConcatProperties
    <3>6. ASSUME NEW i \in 1..(last' - pos) PROVE V[i] = (U \o s)[i]
      <4>1. CASE i <= last - pos
        <5>1. pos + i \in 1..last /\ i \in 1..(last - pos) /\ i \in 1..(Len(U) + Len(s))
          BY <1>1, <1>2, <2>1, <3>1, <3>2, <4>1
        <5>2. QED BY <1>4, <3>1, <3>3, <3>5, <4>1, <5>1
      <4>2. CASE i > last - pos
        <5>1. /\ i - (last - pos) \in 1..Len(s) /\ last + (i - (last - pos)) = pos + i
              /\ i \in 1..(Len(U) + Len(s)) /\ ~(i <= Len(U))
          BY <1>1, <1>2, <2>1, <3>1, <3>2, <4>2
        <5>2. mem'[pos + i] = s[i - (last - pos)]
          BY <1>4, <5>1
        <5>3. QED BY <3>1, <3>3, <3>5, <5>1, <5>2
      <4>3. i <= last - pos \/ i > last - pos
        BY <1>1, <1>9
      <4>4. QED BY <4>1, <4>2, <4>3, Zenon
    <3>7. V = U \o s
      BY <3>2, <3>3, <3>5, <3>6, SeqEqual
    <3>8. QED BY <2>1, <1>1, <3>4, <3>7
  <2>2. CASE pos > last /\ s = <<>>
    <3>1. last' = last
      BY <1>1, <1>4, <2>2, EmptySeq
    <3>2. Rest(mem, pos, last) = <<>> /\ Rest(mem', pos, last) = <<>>
      BY <2>2, <1>1 DEF Rest
    <3>3. QED BY <1>4, <2>2, <3>1, <3>2, UnreadIs, EmptySeq, ConcatEmptySeq
  <2>3. CASE pos > last /\ s # <<>>
    <3>. DEFINE V == SubSeq(mem', pos + 1, last')
    <3>1. pos = last + 1 /\ Len(s) > 0 /\ pos <= last' /\ last' <= Len(mem')
      BY <1>1, <1>2, <1>3, <1>4, <2>3, EmptySeq
    <3>2. /\ V \in Seq(S) /\ Len(V) = last' - pos
          /\ \A i \in 1..(last' - pos) : V[i] = mem'[pos + i]
      BY <1>9, <3>1, Piece
    <3>3. B!Unread = <<>> /\ B!Unread' = V
      <4>1. Rest(mem, pos, last) = <<>>
        BY <1>1, <2>3 DEF Rest
      <4>2. pos <= last' /\ last' <= Len(mem')
        BY <3>1
      <4>3. Rest(mem', pos, last') = V
        BY <1>9, <4>2, RestIs
      <4>4. QED BY <1>4, <4>1, <4>3, UnreadIs
    <3>4. /\ Tail(s) \in Seq(S) /\ Len(Tail(s)) = Len(s) - 1
          /\ \A i \in 1..(Len(s) - 1) : Tail(s)[i] = s[i + 1]
      BY <1>2, <2>3, HeadTailProperties
    <3>. HIDE DEF V
    <3>5. last' - pos = Len(s) - 1
      BY <1>1, <1>2, <1>4, <3>1
    <3>6. ASSUME NEW i \in 1..(last' - pos) PROVE V[i] = Tail(s)[i]
      <4>1. i \in 1..(Len(s) - 1) /\ i + 1 \in 1..Len(s) /\ last + (i + 1) = pos + i
        BY <1>1, <1>2, <3>1, <3>5
      <4>2. mem'[pos + i] = s[i + 1]
        BY <1>4, <4>1
      <4>3. QED BY <3>2, <3>4, <4>1, <4>2
    <3>7. V = Tail(s)
      BY <3>2, <3>4, <3>5, <3>6, SeqEqual
    <3>8. QED BY <2>3, <3>3, <3>4, <3>7, ConcatEmptySeq
  <2>4. pos <= last \/ pos > last
    BY <1>1
  <2>5. QED BY <2>1, <2>2, <2>3, <2>4, Zenon
<1>11. B!Stream!Put(s)
  BY <1>4, <1>8, <1>10 DEF B!Stream!Put
<1>12. QED BY <1>7, <1>11

LEMMA BufStep ==
  ASSUME NEW Byte, BufUse(Byte), BufInv(Byte), [B!Next]_(B!vars)
  PROVE  BufInv(Byte)' /\ B!IsStream
<1>. USE DEF B!IsStream, B!Stream!StreamNext
<1>1. ASSUME NEW n \in Rooms, B!Read(n) PROVE BufInv(Byte)' /\ B!IsStream
  BY <1>1, ReadStep
<1>2. ASSUME NEW n \in Rooms, B!ReadLine(n) PROVE BufInv(Byte)' /\ B!IsStream
  BY <1>2, ReadLineStep
<1>3. ASSUME NEW n \in Rooms, B!ReadWild(n) \/ B!Refuse(n) \/ B!Unended(n)
      PROVE  BufInv(Byte)' /\ B!IsStream
  BY <1>3, NoLineStep
<1>4. ASSUME NEW s \in Chunks, B!Write(s) PROVE BufInv(Byte)' /\ B!IsStream
  BY <1>4, WriteStep
<1>5. ASSUME NEW s \in Chunks, B!WriteFails(s) PROVE BufInv(Byte)' /\ B!IsStream
  <2>1. UNCHANGED <<mem, pos, last, torn, fault>> /\ out' = <<>>
    BY <1>5 DEF B!WriteFails
  <2>2. B!Stream!TakeNothing
    BY <2>1, UnreadIs DEF B!Stream!TakeNothing
  <2>3. QED BY <2>1, <2>2 DEF BufInv
<1>6. CASE UNCHANGED B!vars
  <2>1. UNCHANGED <<mem, pos, last, out, torn, fault>>
    BY <1>6 DEF B!vars
  <2>2. UNCHANGED <<B!Unread, pos > last, out, torn \/ fault>>
    BY <2>1, UnreadIs
  <2>3. QED BY <2>1, <2>2 DEF BufInv
<1>7. QED BY <1>1, <1>2, <1>3, <1>4, <1>5, <1>6 DEF B!Next

THEOREM BufInvariance ==
  ASSUME NEW Byte, BufUse(Byte) PROVE B!Spec => []BufInv(Byte)
<1>1. B!Init => BufInv(Byte)
  BY BufInit
<1>2. BufInv(Byte) /\ [B!Next]_(B!vars) => BufInv(Byte)'
  BY BufStep
<1>3. QED BY <1>1, <1>2, PTL DEF B!Spec

(* The cursors stay in the array, pos one byte past last at most.          *)
THEOREM BufTyped ==
  ASSUME NEW Byte, BufUse(Byte) PROVE B!Spec => []B!TypeOK
<1>1. BufInv(Byte) => B!TypeOK
  BY DEF BufInv, B!TypeOK
<1>2. QED BY <1>1, BufInvariance, PTL

(* The buffer implements LineStream: across every growth, chunk and        *)
(* refusal no byte is lost, doubled or reordered, and lines are lines.     *)
THEOREM BufIsStream ==
  ASSUME NEW Byte, BufUse(Byte) PROVE B!Spec => B!Stream!StreamSpec
<1>1. B!Init => B!Stream!StreamInit
  BY BufInit
<1>2. BufInv(Byte) /\ [B!Next]_(B!vars)
        => [B!Stream!StreamNext]_<<B!Unread, pos > last, out, torn \/ fault>>
  BY BufStep DEF B!IsStream
<1>3. QED BY <1>1, <1>2, BufInvariance, PTL DEF B!Spec, B!Stream!StreamSpec

(* ebuffer.h:46-70: what is copied fits the caller's buf_size, the 0 that  *)
(* ends a line included.                                                   *)
THEOREM BufFitsCaller ==
  ASSUME NEW Byte, BufUse(Byte) PROVE B!Spec => [][B!FitsCaller]_(B!vars)
<1>1. BufInv(Byte) => B!FitsCaller
  BY ReadStep, ReadLineStep DEF B!FitsCaller
<1>2. QED BY <1>1, BufInvariance, PTL

(* ebuffer.c as a whole, one step at a time.                               *)
THEOREM BufSteps ==
  ASSUME NEW Byte, BufUse(Byte)
  PROVE  B!Spec => /\ B!Stream!StreamInit /\ []B!TypeOK
                   /\ [][B!IsStream /\ B!FitsCaller]_(B!vars)
<1>1. B!Init => B!Stream!StreamInit
  BY BufInit
<1>2. BufInv(Byte) /\ [B!Next]_(B!vars) => [B!IsStream]_(B!vars)
  BY BufStep
<1>3. QED BY <1>1, <1>2, BufInvariance, BufTyped, BufFitsCaller, PTL DEF B!Spec

-----------------------------------------------------------------------------
(* server_conhash: loading a file of groups, and finding servers.          *)
IsGroup(m) == m \in 1..Len(groups)
IsServer(m, k) == IsGroup(m) /\ k \in 1..Len(groups[m].servers)
ServerAt(m, k) == groups[m].servers[k]

(* Server k of group m has been through group_server_load.                 *)
Done(m, k) == IsServer(m, k) /\ (m < gi \/ (m = gi /\ k < gj))

(* Loading is at server gj of group gi, or, when gj is 0, before group gi. *)
Place ==
  /\ gi \in 1..(Len(groups) + 1) /\ gj \in Nat
  /\ gj > 0 => gi <= Len(groups) /\ gj <= Len(groups[gi].servers) + 1

(* Memory was short for this; and it was only for what has been reached.   *)
Lost(what, m, k) == <<what, m, k>> \in lost
Losses ==
  \A x \in lost :
    \/ \E m, k \in Nat : Done(m, k) /\ x \in {<<"address", m, k>>, <<"points", m, k>>}
    \/ \E m \in 1..(gi - 1) : x = <<"group", m, 0>>

NamesUpTo(m, k) ==
  {G!NameOf(ServerAt(m, l)) : l \in {x \in 1..k : ~Lost("points", m, x)}}

(* m is the first group of its id that there was memory for.               *)
FirstKept(m) ==
  /\ ~Lost("group", m, 0)
  /\ \A l \in 1..(m - 1) : groups[l].id = groups[m].id => Lost("group", l, 0)

(* The ring in hand has the names met but those that memory was short for. *)
(* Of the finished groups, those that there was memory for have a ring for *)
(* their id, that of the first of them.                                    *)
Rings ==
  /\ gj > 0 => names = NamesUpTo(gi, gj - 1)
  /\ \A m \in 1..(gi - 1) : ~Lost("group", m, 0) => groups[m].id \in DOMAIN conhashs
  /\ \A id \in DOMAIN conhashs : \E m \in 1..(gi - 1) :
       groups[m].id = id /\ ~Lost("group", m, 0) /\ conhashs[id] = G!RingOf(m)
  /\ \A m \in 1..(gi - 1) : FirstKept(m) => conhashs[groups[m].id] = G!RingOf(m)

(* Every server that has a name is filed under it, unless its address was  *)
(* lost, and nothing else is.                                              *)
Filed ==
  /\ \A m, k \in Nat : Done(m, k) /\ G!Text(ServerAt(m, k)) # "" =>
       <<groups[m].id, G!Text(ServerAt(m, k))>> \in DOMAIN ips \/ Lost("address", m, k)
  /\ \A key \in DOMAIN ips : \E m, k \in Nat :
       /\ Done(m, k) /\ G!Text(ServerAt(m, k)) # ""
       /\ key = <<groups[m].id, G!Text(ServerAt(m, k))>> /\ ips[key] = ServerAt(m, k).ip

Loaded == Place /\ Losses /\ Rings /\ Filed

NoTables == conhashs = <<>> /\ ips = <<>> /\ lost = {}

GroupsInv ==
  /\ groups \in Seq([id : Ids, servers : Seq(G!Servers)])
  /\ state \in {"none", "load", "ready", "failed"}
  /\ state = "none" => gi = 1 /\ gj = 0 /\ NoTables
  /\ state \in {"load", "ready"} => Loaded
  /\ G!AnswersAreTheGroups

(* What the proofs ask of the files: lists of groups with numbers.         *)
FilesAreLists ==
  Ids \subseteq Int /\ GroupFiles \subseteq Seq([id : Ids, servers : Seq(G!Servers)])

LEMMA GroupsInit == ASSUME FilesAreLists, G!Init PROVE GroupsInv
BY DEF FilesAreLists, G!Init, GroupsInv, NoTables, G!AnswersAreTheGroups, G!NoAnswer

(* With nothing loaded yet, everything met so far is filed.                *)
LEMMA NothingYet ==
  ASSUME NEW S, groups \in Seq(S), gi = 1, gj = 0, NoTables PROVE Loaded
<1>1. Len(groups) \in Nat
  BY LenProperties
<1>2. Place
  BY <1>1 DEF Place
<1>3. Rings /\ Losses
  BY DEF Rings, Losses, NoTables
<1>4. \A m, k : ~Done(m, k)
  BY <1>1 DEF Done, IsServer, IsGroup
<1>5. Filed
  <2>1. DOMAIN ips = {}
    BY DEF NoTables
  <2>2. QED BY <1>4, <2>1 DEF Filed
<1>6. QED BY <1>2, <1>3, <1>5 DEF Loaded

(* What does not change while the file does not.                           *)
LEMMA SameFile ==
  ASSUME UNCHANGED groups
  PROVE  /\ \A m, k : ServerAt(m, k)' = ServerAt(m, k)
         /\ \A m, k : IsServer(m, k)' = IsServer(m, k)
         /\ \A id : G!Listed(id)' = G!Listed(id) /\ G!WithId(id)' = G!WithId(id)
BY DEF ServerAt, IsServer, IsGroup, G!Listed, G!ServersOf, G!WithId

LEMMA SameRing ==
  ASSUME UNCHANGED groups, NEW m,
         \A k : Lost("points", m, k)' <=> Lost("points", m, k)
  PROVE  G!RingOf(m)' = G!RingOf(m) /\ \A k : NamesUpTo(m, k)' = NamesUpTo(m, k)
BY DEF G!RingOf, NamesUpTo, Lost, ServerAt

(* A file without memory for all of it explains at least as much later.    *)
LEMMA SameAnswer ==
  ASSUME UNCHANGED <<groups, answer>>, lost \subseteq lost', G!AnswersAreTheGroups
  PROVE  G!AnswersAreTheGroups'
<1>1. \A id : G!Unfiled(id) \subseteq G!Unfiled(id)'
  BY DEF G!Unfiled, G!WithId
<1>2. G!Listed(answer.id)' = G!Listed(answer.id)
  BY SameFile DEF G!Listed, G!ServersOf, G!WithId
<1>3. QED BY <1>1, <1>2 DEF G!AnswersAreTheGroups

LEMMA SameFiled ==
  ASSUME UNCHANGED <<groups, ips>>, lost \subseteq lost',
         \A m, k \in Nat : Done(m, k)' = Done(m, k), Filed
  PROVE  Filed'
<1>1. /\ ips' = ips /\ groups' = groups
      /\ \A m, k : ServerAt(m, k)' = ServerAt(m, k) /\ G!Text(ServerAt(m, k))' = G!Text(ServerAt(m, k))
  BY SameFile
<1>2. ASSUME NEW m \in Nat, NEW k \in Nat, Done(m, k)', G!Text(ServerAt(m, k))' # ""
      PROVE  <<groups[m].id, G!Text(ServerAt(m, k))>>' \in DOMAIN ips' \/ Lost("address", m, k)'
  <2>1. Done(m, k) /\ G!Text(ServerAt(m, k)) # ""
    BY <1>1, <1>2
  <2>2. <<groups[m].id, G!Text(ServerAt(m, k))>> \in DOMAIN ips \/ Lost("address", m, k)
    BY <2>1 DEF Filed
  <2>3. QED BY <1>1, <2>2 DEF Lost
<1>3. ASSUME NEW key \in DOMAIN ips'
      PROVE  \E m, k \in Nat :
               /\ Done(m, k)' /\ G!Text(ServerAt(m, k))' # ""
               /\ key = <<groups[m].id, G!Text(ServerAt(m, k))>>'
               /\ ips'[key] = (ServerAt(m, k).ip)'
  <2>1. PICK m \in Nat, k \in Nat :
          /\ Done(m, k) /\ G!Text(ServerAt(m, k)) # ""
          /\ key = <<groups[m].id, G!Text(ServerAt(m, k))>> /\ ips[key] = ServerAt(m, k).ip
    BY <1>1 DEF Filed
  <2>2. QED BY <1>1, <2>1
<1>4. QED BY <1>2, <1>3 DEF Filed

LEMMA SameLoaded ==
  ASSUME UNCHANGED <<groups, gi, gj, names, conhashs, ips, lost>>, Loaded PROVE Loaded'
<1>1. Place' /\ Losses'
  BY DEF Loaded, Place, Losses, Done, IsServer, IsGroup
<1>2. Rings'
  <2>1. \A m : G!RingOf(m)' = G!RingOf(m) /\ (FirstKept(m)' <=> FirstKept(m))
        /\ (Lost("group", m, 0)' <=> Lost("group", m, 0))
    BY SameRing DEF FirstKept, Lost
  <2>2. NamesUpTo(gi, gj - 1)' = NamesUpTo(gi, gj - 1)
    BY DEF NamesUpTo, Lost, ServerAt
  <2>3. QED BY <2>1, <2>2 DEF Loaded, Rings
<1>3. Filed'
  BY SameFiled DEF Loaded, Done, IsServer, IsGroup
<1>4. QED BY <1>1, <1>2, <1>3 DEF Loaded

LEMMA GroupBeginStep == ASSUME GroupsInv, G!GroupBegin PROVE GroupsInv'
<1>. USE DEF G!GroupBegin
<1>1. Loaded
  BY DEF GroupsInv
<1>2. /\ Len(groups) \in Nat /\ Len(groups[gi].servers) \in Nat /\ gi \in 1..Len(groups)
  BY <1>1 DEF GroupsInv, Loaded, Place
<1>3. /\ UNCHANGED <<groups, state, gi, conhashs, ips, answer, lost>>
      /\ gj = 0 /\ gj' = 1 /\ names' = {}
  OBVIOUS
<1>. HIDE DEF G!GroupBegin
<1>4. Place'
  BY <1>2, <1>3 DEF Place
<1>5. \A m, k \in Nat : Done(m, k)' = Done(m, k)
  BY <1>2, <1>3 DEF Done, IsServer, IsGroup
<1>6. Filed'
  BY <1>1, <1>3, <1>5, SameFiled DEF Loaded
<1>7. Rings'
  <2>1. names' = NamesUpTo(gi, 0)'
    BY <1>3 DEF NamesUpTo
  <2>2. NamesUpTo(gi, 0)' = NamesUpTo(gi, gj - 1)'
    BY <1>3
  <2>3. \A m : G!RingOf(m)' = G!RingOf(m) /\ (FirstKept(m)' <=> FirstKept(m))
        /\ (Lost("group", m, 0)' <=> Lost("group", m, 0))
    BY <1>3, SameRing DEF FirstKept, Lost
  <2>4. QED BY <1>1, <1>3, <2>1, <2>2, <2>3 DEF Loaded, Rings
<1>8. Losses'
  BY <1>1, <1>3, <1>5 DEF Loaded, Losses
<1>9. G!AnswersAreTheGroups'
  BY <1>3, SameAnswer DEF GroupsInv
<1>10. QED BY <1>3, <1>4, <1>6, <1>7, <1>8, <1>9 DEF GroupsInv, Loaded, G!GroupBegin

(* What memory is short for in group gi, no other group is told of.        *)
OthersKept == \A what, m, k : m # gi => Lost(what, m, k)' <=> Lost(what, m, k)

LEMMA FinishedStay ==
  ASSUME GroupsInv, Loaded, UNCHANGED groups, OthersKept, NEW m \in 1..(gi - 1)
  PROVE  /\ G!RingOf(m)' = G!RingOf(m) /\ (FirstKept(m)' <=> FirstKept(m))
         /\ (Lost("group", m, 0)' <=> Lost("group", m, 0))
<1>1. gi \in Nat /\ m \in Nat /\ m < gi
  BY LenProperties DEF GroupsInv, Loaded, Place
<1>2. \A l \in 1..m : \A what, k : Lost(what, l, k)' <=> Lost(what, l, k)
  BY <1>1 DEF OthersKept
<1>3. \A what, k : Lost(what, m, k)' <=> Lost(what, m, k)
  BY <1>1 DEF OthersKept
<1>4. \A l \in 1..(m - 1) : Lost("group", l, 0)' <=> Lost("group", l, 0)
  BY <1>1, <1>2
<1>5. QED BY <1>3, <1>4, SameRing DEF FirstKept

LEMMA AddServerStep == ASSUME GroupsInv, G!AddServer PROVE GroupsInv'
<1>. DEFINE s == ServerAt(gi, gj)
            key == <<groups[gi].id, G!Text(s)>>
<1>1. Loaded
  BY DEF GroupsInv, G!AddServer
<1>2. /\ Len(groups) \in Nat /\ Len(groups[gi].servers) \in Nat /\ gi \in 1..Len(groups)
      /\ gj \in 1..Len(groups[gi].servers)
  BY <1>1 DEF GroupsInv, Loaded, Place, G!AddServer
<1>3. /\ UNCHANGED <<groups, state, gi, conhashs, answer>> /\ gj' = gj + 1 /\ state = "load"
  BY DEF G!AddServer
<1>4. PICK missing \in SUBSET {"address", "points"} :
        /\ IF "address" \in missing THEN G!AddressLost(G!Server) ELSE G!FileAddress(G!Server)
        /\ names' = IF "points" \in missing THEN names ELSE names \cup {G!NameOf(G!Server)}
        /\ lost' = lost \cup {<<what, gi, gj>> : what \in missing}
  BY DEF G!AddServer
<1>5. G!Server = s /\ G!Id = groups[gi].id
  BY DEF ServerAt, G!Server, G!Id
<1>. HIDE DEF s, key
<1>6. /\ lost \subseteq lost'
      /\ \A what, m, k : Lost(what, m, k)' =
           (Lost(what, m, k) \/ (m = gi /\ k = gj /\ what \in missing))
  <2>1. lost' = lost \cup {<<what, gi, gj>> : what \in missing}
    BY <1>4
  <2>2. ASSUME NEW what, NEW m, NEW k
        PROVE  <<what, m, k>> \in lost' <=>
                 (<<what, m, k>> \in lost \/ (m = gi /\ k = gj /\ what \in missing))
    BY <2>1
  <2>3. QED BY <2>1, <2>2 DEF Lost
<1>7. OthersKept
  BY <1>6 DEF OthersKept
<1>8. /\ "address" \in missing \/ G!Text(s) = "" => ips' = ips
      /\ "address" \notin missing /\ G!Text(s) # "" =>
           \/ /\ key \notin DOMAIN ips
              /\ ips' = [k \in DOMAIN ips \cup {key} |-> IF k = key THEN s.ip ELSE ips[k]]
           \/ key \in DOMAIN ips /\ ips' = ips
  BY <1>4, <1>5 DEF G!FileAddress, G!AddressLost, G!FiledUnder, G!Hosts!Put, G!Hosts!Keep, key
<1>9. Place'
  BY <1>2, <1>3 DEF Place
<1>10. \A m, k \in Nat : Done(m, k)' = (Done(m, k) \/ (m = gi /\ k = gj))
  BY <1>2, <1>3 DEF Done, IsServer, IsGroup
<1>11. \A m, k : ServerAt(m, k)' = ServerAt(m, k)
  BY <1>3, SameFile
<1>12. Losses'
  <2>. SUFFICES ASSUME NEW x \in lost'
                PROVE  \/ \E m, k \in Nat :
                            Done(m, k)' /\ x \in {<<"address", m, k>>, <<"points", m, k>>}
                       \/ \E m \in 1..(gi' - 1) : x = <<"group", m, 0>>
    BY DEF Losses
  <2>1. CASE x \in lost
    BY <1>1, <1>3, <1>10, <2>1 DEF Loaded, Losses
  <2>2. CASE x \notin lost
    <3>1. PICK what \in missing : x = <<what, gi, gj>>
      BY <1>4, <2>2
    <3>2. PICK m \in Nat, k \in Nat : m = gi /\ k = gj
      BY <1>2
    <3>3. what \in {"address", "points"} /\ Done(m, k)'
      BY <1>10, <3>2
    <3>4. QED BY <3>1, <3>2, <3>3
  <2>3. QED BY <2>1, <2>2
<1>13. Filed'
  <2>1. /\ DOMAIN ips \subseteq DOMAIN ips' /\ \A e \in DOMAIN ips : ips'[e] = ips[e]
        /\ \A e \in DOMAIN ips' \ DOMAIN ips : e = key /\ G!Text(s) # "" /\ ips'[e] = s.ip
        /\ G!Text(s) # "" => key \in DOMAIN ips' \/ "address" \in missing
    BY <1>8
  <2>2. ASSUME NEW m \in Nat, NEW k \in Nat, Done(m, k)', G!Text(ServerAt(m, k))' # ""
        PROVE  <<groups[m].id, G!Text(ServerAt(m, k))>>' \in DOMAIN ips' \/ Lost("address", m, k)'
    <3>1. G!Text(ServerAt(m, k)) # "" /\ ServerAt(m, k)' = ServerAt(m, k)
      BY <1>11, <2>2
    <3>2. CASE m = gi /\ k = gj
      <4>1. <<groups[m].id, G!Text(ServerAt(m, k))>>' = key /\ G!Text(s) # ""
        BY <1>3, <3>1, <3>2 DEF s, key
      <4>2. QED BY <1>6, <2>1, <3>2, <4>1
    <3>3. CASE Done(m, k)
      <4>1. <<groups[m].id, G!Text(ServerAt(m, k))>> \in DOMAIN ips \/ Lost("address", m, k)
        BY <1>1, <3>1, <3>3 DEF Loaded, Filed
      <4>2. QED BY <1>3, <1>6, <2>1, <3>1, <4>1
    <3>4. QED BY <1>10, <2>2, <3>2, <3>3
  <2>3. ASSUME NEW e \in DOMAIN ips'
        PROVE  \E m, k \in Nat :
                 /\ Done(m, k)' /\ G!Text(ServerAt(m, k))' # ""
                 /\ e = <<groups[m].id, G!Text(ServerAt(m, k))>>'
                 /\ ips'[e] = (ServerAt(m, k).ip)'
    <3>1. CASE e \in DOMAIN ips
      <4>1. PICK m \in Nat, k \in Nat :
              /\ Done(m, k) /\ G!Text(ServerAt(m, k)) # ""
              /\ e = <<groups[m].id, G!Text(ServerAt(m, k))>> /\ ips[e] = ServerAt(m, k).ip
        BY <1>1, <3>1 DEF Loaded, Filed
      <4>2. QED BY <1>3, <1>10, <1>11, <2>1, <3>1, <4>1
    <3>2. CASE e \notin DOMAIN ips
      <4>1. e = key /\ G!Text(s) # "" /\ ips'[e] = s.ip
        BY <2>1, <3>2
      <4>2. PICK m \in Nat, k \in Nat : m = gi /\ k = gj
        BY <1>2
      <4>3. Done(m, k)'
        BY <1>10, <4>2
      <4>4. G!Text(ServerAt(m, k))' = G!Text(s) /\ (ServerAt(m, k).ip)' = s.ip
        BY <1>11, <4>2 DEF s
      <4>5. e = <<groups[m].id, G!Text(ServerAt(m, k))>>'
        BY <1>3, <4>1, <4>2, <4>4 DEF key
      <4>6. QED BY <4>1, <4>3, <4>4, <4>5
    <3>3. QED BY <3>1, <3>2
  <2>4. QED BY <2>2, <2>3 DEF Filed
<1>14. Rings'
  <2>1. names = NamesUpTo(gi, gj - 1)
    BY <1>1, <1>2 DEF Loaded, Rings
  <2>2. PICK m \in Nat, k \in Nat : m = gi /\ k = gj /\ k > 0
    BY <1>2
  <2>3. NamesUpTo(m, k)' = names'
    <3>1. 1..k = (1..(k - 1)) \cup {k} /\ \A x \in 1..(k - 1) : x # k
      BY <2>2
    <3>2. \A x \in 1..(k - 1) : Lost("points", m, x)' <=> Lost("points", m, x)
      BY <1>6, <2>2, <3>1
    <3>3. Lost("points", m, k)' <=> ("points" \in missing)
      <4>1. ~Lost("points", m, k)
        <5>1. ~Done(m, k)
          BY <2>2 DEF Done
        <5>2. QED BY <1>1, <5>1 DEF Loaded, Losses, Lost
      <4>2. QED BY <1>6, <2>2, <4>1
    <3>. DEFINE Old == {x \in 1..(k - 1) : ~Lost("points", m, x)}
                New == {x \in 1..k : ~Lost("points", m, x)'}
    <3>4. New = IF "points" \in missing THEN Old ELSE Old \cup {k}
      BY <3>1, <3>2, <3>3
    <3>5. names' = IF "points" \in missing THEN names ELSE names \cup {G!NameOf(ServerAt(m, k))}
      BY <1>4, <1>5, <2>2 DEF s
    <3>6. names = {G!NameOf(ServerAt(m, l)) : l \in Old}
      BY <2>1, <2>2 DEF NamesUpTo
    <3>7. NamesUpTo(m, k)' = {G!NameOf(ServerAt(m, l)) : l \in New}
      BY <1>11 DEF NamesUpTo
    <3>. HIDE DEF Old, New
    <3>8. QED BY <3>4, <3>5, <3>6, <3>7
  <2>4. gj' - 1 = k /\ gi' = m
    BY <1>2, <1>3, <2>2
  <2>5. names' = NamesUpTo(gi, gj - 1)'
    BY <2>3, <2>4
  <2>6. \A l \in 1..(gi - 1) :
          /\ G!RingOf(l)' = G!RingOf(l) /\ (FirstKept(l)' <=> FirstKept(l))
          /\ (Lost("group", l, 0)' <=> Lost("group", l, 0))
    BY <1>1, <1>3, <1>7, FinishedStay
  <2>7. QED BY <1>1, <1>3, <2>5, <2>6 DEF Loaded, Rings
<1>15. G!AnswersAreTheGroups'
  BY <1>3, <1>6, SameAnswer DEF GroupsInv
<1>16. QED BY <1>3, <1>9, <1>12, <1>13, <1>14, <1>15 DEF GroupsInv, Loaded

LEMMA GroupEndStep == ASSUME GroupsInv, G!GroupEnd PROVE GroupsInv'
<1>. DEFINE id == groups[gi].id
<1>1. Loaded
  BY DEF GroupsInv, G!GroupEnd
<1>2. /\ Len(groups) \in Nat /\ Len(groups[gi].servers) \in Nat /\ gi \in 1..Len(groups)
      /\ gj = Len(groups[gi].servers) + 1 /\ groups[gi].servers \in Seq(G!Servers)
  <2>1. Len(groups) \in Nat /\ gi \in 1..Len(groups) /\ gj = Len(groups[gi].servers) + 1
    BY <1>1, LenProperties DEF GroupsInv, Loaded, Place, G!GroupEnd
  <2>2. groups[gi] \in [id : Ids, servers : Seq(G!Servers)]
    BY <2>1, ElementOfSeq DEF GroupsInv
  <2>3. groups[gi].servers \in Seq(G!Servers)
    BY <2>2
  <2>4. QED BY <2>1, <2>3, LenProperties
<1>3. /\ UNCHANGED <<groups, state, ips, answer>> /\ gi' = gi + 1 /\ gj' = 0 /\ names' = {}
      /\ state = "load"
  BY DEF G!GroupEnd
<1>4. \/ /\ id \notin DOMAIN conhashs /\ lost' = lost
         /\ conhashs' = [e \in DOMAIN conhashs \cup {id} |-> IF e = id THEN names ELSE conhashs[e]]
      \/ id \in DOMAIN conhashs /\ conhashs' = conhashs /\ lost' = lost
      \/ /\ id \notin DOMAIN conhashs /\ conhashs' = conhashs
         /\ lost' = lost \cup {<<"group", gi, 0>>}
  BY DEF G!GroupEnd, G!FileGroup, G!GroupLost, G!Groups!Put, G!Groups!Keep, G!Id
<1>5. PICK short \in BOOLEAN :
        \A what, m, k : Lost(what, m, k)' =
          (Lost(what, m, k) \/ (short /\ what = "group" /\ m = gi /\ k = 0))
  <2>1. CASE lost' = lost
    <3>1. \A what, m, k : Lost(what, m, k)' <=>
            (Lost(what, m, k) \/ (FALSE /\ what = "group" /\ m = gi /\ k = 0))
      BY <2>1 DEF Lost
    <3>2. QED BY <3>1, Zenon
  <2>2. CASE lost' = lost \cup {<<"group", gi, 0>>}
    <3>1. ASSUME NEW what, NEW m, NEW k
          PROVE  <<what, m, k>> \in lost' <=>
                   (<<what, m, k>> \in lost \/ (TRUE /\ what = "group" /\ m = gi /\ k = 0))
      BY <2>2
    <3>2. \A what, m, k : Lost(what, m, k)' <=>
            (Lost(what, m, k) \/ (TRUE /\ what = "group" /\ m = gi /\ k = 0))
      BY <3>1 DEF Lost
    <3>3. QED BY <3>2, Zenon
  <2>3. QED BY <1>4, <2>1, <2>2
<1>6. lost \subseteq lost' /\ OthersKept
  BY <1>4, <1>5 DEF OthersKept
<1>7. Place'
  BY <1>2, <1>3 DEF Place
<1>8. \A m, k \in Nat : Done(m, k)' = Done(m, k)
  BY <1>2, <1>3 DEF Done, IsServer, IsGroup
<1>9. Filed'
  BY <1>1, <1>3, <1>6, <1>8, SameFiled DEF Loaded
<1>10. Losses'
  <2>. SUFFICES ASSUME NEW x \in lost'
                PROVE  \/ \E m, k \in Nat :
                            Done(m, k)' /\ x \in {<<"address", m, k>>, <<"points", m, k>>}
                       \/ \E m \in 1..(gi' - 1) : x = <<"group", m, 0>>
    BY DEF Losses
  <2>1. \A m \in 1..(gi - 1) : m \in 1..(gi' - 1)
    BY <1>2, <1>3
  <2>2. CASE x \in lost
    BY <1>1, <1>8, <2>1, <2>2 DEF Loaded, Losses
  <2>3. CASE x = <<"group", gi, 0>>
    <3>1. gi \in 1..(gi' - 1)
      BY <1>2, <1>3
    <3>2. QED BY <2>3, <3>1
  <2>4. QED BY <1>4, <2>2, <2>3
<1>11. ~Lost("group", gi, 0)
  <2>1. gi \notin 1..(gi - 1)
    BY <1>2
  <2>2. QED BY <1>1, <2>1 DEF Loaded, Losses, Lost
<1>12. names = G!RingOf(gi)
  <2>1. names = NamesUpTo(gi, Len(groups[gi].servers))
    <3>1. gj - 1 = Len(groups[gi].servers) /\ gj > 0
      BY <1>2
    <3>2. names = NamesUpTo(gi, gj - 1)
      BY <1>1, <3>1 DEF Loaded, Rings
    <3>3. QED BY <3>1, <3>2
  <2>2. DOMAIN groups[gi].servers = 1..Len(groups[gi].servers)
    BY <1>2, LenProperties
  <2>3. QED BY <2>1, <2>2 DEF NamesUpTo, G!RingOf, ServerAt, Lost
(* The rings that are kept, seen from the ids and from the groups.         *)
<1>13. /\ DOMAIN conhashs \subseteq DOMAIN conhashs'
       /\ \A e \in DOMAIN conhashs : conhashs'[e] = conhashs[e]
       /\ \A e \in DOMAIN conhashs' \ DOMAIN conhashs :
            e = id /\ ~short /\ conhashs'[e] = G!RingOf(gi)
       /\ id \in DOMAIN conhashs' \/ short
  <2>1. short => lost' # lost
    <3>1. SUFFICES ASSUME short PROVE <<"group", gi, 0>> \in lost'
      BY <1>11 DEF Lost
    <3>2. PICK m \in Nat : m = gi
      BY <1>2
    <3>3. Lost("group", m, 0)'
      BY <1>5, <3>1, <3>2
    <3>4. QED BY <3>2, <3>3 DEF Lost
  <2>2. lost' = lost \cup {<<"group", gi, 0>>} => short
    <3>1. SUFFICES ASSUME lost' = lost \cup {<<"group", gi, 0>>} PROVE short
      OBVIOUS
    <3>2. PICK m \in Nat : m = gi
      BY <1>2
    <3>3. Lost("group", m, 0)'
      BY <3>1, <3>2 DEF Lost
    <3>4. QED BY <1>5, <1>11, <3>2, <3>3
  <2>. HIDE DEF id
  <2>3. QED BY <1>4, <1>12, <2>1, <2>2
<1>14. /\ \A m \in 1..(gi - 1) : ~Lost("group", m, 0) => groups[m].id \in DOMAIN conhashs
       /\ \A e \in DOMAIN conhashs : \E m \in 1..(gi - 1) :
            groups[m].id = e /\ ~Lost("group", m, 0) /\ conhashs[e] = G!RingOf(m)
       /\ \A m \in 1..(gi - 1) : FirstKept(m) => conhashs[groups[m].id] = G!RingOf(m)
  BY <1>1 DEF Loaded, Rings
<1>15. \A m \in 1..(gi - 1) :
         /\ G!RingOf(m)' = G!RingOf(m) /\ (FirstKept(m)' <=> FirstKept(m))
         /\ (Lost("group", m, 0)' <=> Lost("group", m, 0))
  BY <1>1, <1>3, <1>6, FinishedStay
<1>16. PICK h \in Nat : h = gi
  BY <1>2
<1>17. G!RingOf(h)' = G!RingOf(h) /\ (Lost("group", h, 0)' <=> short)
  <2>1. \A k : Lost("points", h, k)' <=> Lost("points", h, k)
    BY <1>5
  <2>2. QED BY <1>3, <1>5, <1>11, <1>16, <2>1, SameRing
<1>18. \A m \in 1..(gi' - 1) : m \in 1..(gi - 1) \/ m = h
  BY <1>2, <1>3, <1>16
<1>19. \A m \in 1..(gi - 1) : m \in 1..(gi' - 1)
  BY <1>2, <1>3
<1>20. h \in 1..(gi' - 1)
  BY <1>2, <1>3, <1>16
<1>21. Rings'
  <2>1. ASSUME NEW m \in 1..(gi' - 1), ~Lost("group", m, 0)' PROVE groups[m].id \in DOMAIN conhashs'
    BY <1>13, <1>14, <1>15, <1>16, <1>17, <1>18, <2>1
  <2>2. ASSUME NEW e \in DOMAIN conhashs'
        PROVE  \E m \in 1..(gi' - 1) :
                 groups[m].id = e /\ ~Lost("group", m, 0)' /\ conhashs'[e] = G!RingOf(m)'
    <3>1. CASE e \in DOMAIN conhashs
      <4>1. PICK m \in 1..(gi - 1) :
              groups[m].id = e /\ ~Lost("group", m, 0) /\ conhashs[e] = G!RingOf(m)
        BY <1>14, <3>1
      <4>2. QED BY <1>13, <1>15, <1>19, <3>1, <4>1
    <3>2. CASE e \notin DOMAIN conhashs
      BY <1>13, <1>16, <1>17, <1>20, <3>2
    <3>3. QED BY <3>1, <3>2
  <2>3. ASSUME NEW m \in 1..(gi' - 1), FirstKept(m)'
        PROVE  conhashs'[groups[m].id] = G!RingOf(m)'
    <3>1. CASE m \in 1..(gi - 1)
      <4>1. FirstKept(m) /\ ~Lost("group", m, 0)
        BY <1>15, <2>3, <3>1 DEF FirstKept
      <4>2. QED BY <1>13, <1>14, <1>15, <3>1, <4>1
    <3>2. CASE m = h
      <4>1. ~short /\ \A l \in 1..(h - 1) : groups[l].id = id => Lost("group", l, 0)
        BY <1>3, <1>15, <1>16, <1>17, <2>3, <3>2 DEF FirstKept
      <4>2. id \notin DOMAIN conhashs
        BY <1>14, <1>16, <4>1
      <4>3. QED BY <1>13, <1>16, <1>17, <3>2, <4>1, <4>2
    <3>3. QED BY <1>18, <3>1, <3>2
  <2>4. QED BY <1>3, <2>1, <2>2, <2>3 DEF Rings
<1>22. G!AnswersAreTheGroups'
  BY <1>3, <1>6, SameAnswer DEF GroupsInv
<1>23. QED BY <1>3, <1>7, <1>9, <1>10, <1>21, <1>22 DEF GroupsInv, Loaded

(* Creation, the end of loading, a failure, and destruction.               *)
LEMMA LifeStep ==
  ASSUME GroupsInv,
         \/ \E loaded \in BOOLEAN : G!server_conhash_create(loaded)
         \/ G!LoadEnd \/ G!LoadFails \/ G!server_conhash_destroy
  PROVE  GroupsInv'
<1>1. ASSUME NEW loaded \in BOOLEAN, G!server_conhash_create(loaded) PROVE GroupsInv'
  <2>1. UNCHANGED <<groups, gi, gj, names, conhashs, ips, answer, lost>>
        /\ state = "none" /\ state' \in {"load", "ready"}
    BY <1>1 DEF G!server_conhash_create
  <2>2. Loaded
    BY <2>1, NothingYet DEF GroupsInv
  <2>3. Loaded'
    BY <2>1, <2>2, SameLoaded
  <2>4. QED BY <2>1, <2>3, SameAnswer DEF GroupsInv
<1>2. CASE G!LoadEnd
  <2>1. UNCHANGED <<groups, gi, gj, names, conhashs, ips, answer, lost>>
        /\ state = "load" /\ state' = "ready"
    BY <1>2 DEF G!LoadEnd
  <2>2. Loaded'
    BY <2>1, SameLoaded DEF GroupsInv
  <2>3. QED BY <2>1, <2>2, SameAnswer DEF GroupsInv
<1>3. CASE G!LoadFails
  BY <1>3, SameAnswer DEF GroupsInv, G!LoadFails
<1>4. CASE G!server_conhash_destroy
  <2>1. groups' = groups /\ state' = "none" /\ gi' = 1 /\ gj' = 0 /\ NoTables'
        /\ answer' = G!NoAnswer
    BY <1>4 DEF G!server_conhash_destroy, G!Groups!GiveUp, G!Hosts!GiveUp, NoTables
  <2>2. G!AnswersAreTheGroups'
    BY <2>1 DEF G!AnswersAreTheGroups, G!NoAnswer
  <2>3. QED BY <2>1, <2>2 DEF GroupsInv
<1>5. QED BY <1>1, <1>2, <1>3, <1>4

(* What is on a finished ring is the name of a server of the group, and    *)
(* the address filed under it is of one too.                               *)
LEMMA ListedAt ==
  ASSUME GroupsInv, NEW m \in 1..Len(groups)
  PROVE  /\ \A k \in 1..Len(groups[m].servers) : ServerAt(m, k) \in G!Listed(groups[m].id)
         /\ \A s \in G!ServersOf(m) : \E k \in 1..Len(groups[m].servers) : s = ServerAt(m, k)
         /\ \A k \in 1..Len(groups[m].servers) : ServerAt(m, k) \in G!ServersOf(m)
         /\ Len(groups[m].servers) \in Nat /\ m \in G!WithId(groups[m].id)
         /\ DOMAIN groups[m].servers = 1..Len(groups[m].servers)
<1>1. groups[m] \in [id : Ids, servers : Seq(G!Servers)]
  BY ElementOfSeq DEF GroupsInv
<1>2. groups[m].servers \in Seq(G!Servers)
  BY <1>1
<1>3. DOMAIN groups[m].servers = 1..Len(groups[m].servers) /\ DOMAIN groups = 1..Len(groups)
  BY <1>2, LenProperties DEF GroupsInv
<1>4. Len(groups[m].servers) \in Nat
  BY <1>2, LenProperties
<1>5. m \in G!WithId(groups[m].id)
  BY <1>3 DEF G!WithId
<1>6. G!ServersOf(m) \subseteq G!Listed(groups[m].id)
  BY <1>5 DEF G!Listed
<1>7. QED BY <1>3, <1>4, <1>5, <1>6 DEF G!ServersOf, ServerAt

(* The servers of a finished group are done.                               *)
LEMMA Finished ==
  ASSUME GroupsInv, Loaded, NEW m \in 1..(gi - 1)
  PROVE  /\ m \in 1..Len(groups)
         /\ \A k \in 1..Len(groups[m].servers) : m \in Nat /\ k \in Nat /\ Done(m, k)
<1>1. Len(groups) \in Nat /\ gi \in 1..(Len(groups) + 1)
  BY LenProperties DEF GroupsInv, Loaded, Place
<1>2. m \in 1..Len(groups) /\ m < gi
  BY <1>1
<1>3. Len(groups[m].servers) \in Nat
  BY <1>2, ListedAt
<1>4. QED BY <1>1, <1>2, <1>3 DEF Done, IsServer, IsGroup

(* The names whose addresses were lost, as Unfiled has them.               *)
LEMMA UnfiledHas ==
  ASSUME GroupsInv, NEW m \in 1..Len(groups), NEW k, Lost("address", m, k)
  PROVE  G!Text(ServerAt(m, k)) \in G!Unfiled(groups[m].id)
<1>. DEFINE x == <<"address", m, k>>
<1>1. m \in G!WithId(groups[m].id)
  BY ListedAt
<1>2. x \in {y \in lost : y[1] = "address" /\ y[2] \in G!WithId(groups[m].id)}
  BY <1>1 DEF Lost
<1>3. G!Text(groups[x[2]].servers[x[3]]) = G!Text(ServerAt(m, k))
  BY DEF ServerAt
<1>. HIDE DEF x
<1>4. QED BY <1>2, <1>3 DEF G!Unfiled

(* An address that is filed is of a server of the group.                   *)
LEMMA FiledAnswers ==
  ASSUME GroupsInv, Loaded, NEW id, NEW name, <<id, name>> \in DOMAIN ips
  PROVE  G!AddressOf(id, name) \in {s.ip : s \in G!Listed(id)}
<1>1. PICK m \in Nat, k \in Nat :
        /\ Done(m, k) /\ <<id, name>> = <<groups[m].id, G!Text(ServerAt(m, k))>>
        /\ ips[<<id, name>>] = ServerAt(m, k).ip
  BY DEF Loaded, Filed
<1>2. m \in 1..Len(groups) /\ k \in 1..Len(groups[m].servers)
  BY <1>1 DEF Done, IsServer, IsGroup
<1>3. ServerAt(m, k) \in G!Listed(id)
  BY <1>1, <1>2, ListedAt
<1>4. G!AddressOf(id, name) = ServerAt(m, k).ip
  BY <1>1 DEF G!AddressOf, G!FiledUnder
<1>5. QED BY <1>3, <1>4

(* A name on a ring answers an address of the group, or was lost.          *)
LEMMA NameAnswers ==
  ASSUME GroupsInv, Loaded, NEW id \in DOMAIN conhashs, NEW name \in conhashs[id],
         <<id, name>> \notin DOMAIN ips
  PROVE  name \in {s.ip : s \in G!Listed(id)} \cup G!Unfiled(id)
<1>1. PICK m \in 1..(gi - 1) : groups[m].id = id /\ conhashs[id] = G!RingOf(m)
  BY DEF Loaded, Rings
<1>2. m \in 1..Len(groups)
  BY <1>1, Finished
<1>3. PICK k \in 1..Len(groups[m].servers) : name = G!NameOf(ServerAt(m, k))
  BY <1>1, <1>2, ListedAt DEF G!RingOf, ServerAt
<1>4. m \in Nat /\ k \in Nat /\ Done(m, k)
  BY <1>1, <1>3, Finished
<1>5. CASE G!Text(ServerAt(m, k)) = ""
  <2>1. name = ServerAt(m, k).ip /\ ServerAt(m, k) \in G!Listed(id)
    BY <1>1, <1>2, <1>3, <1>5, ListedAt DEF G!NameOf
  <2>2. QED BY <2>1
<1>6. CASE G!Text(ServerAt(m, k)) # ""
  <2>1. name = G!Text(ServerAt(m, k))
    BY <1>3, <1>6 DEF G!NameOf
  <2>2. <<groups[m].id, G!Text(ServerAt(m, k))>> \in DOMAIN ips \/ Lost("address", m, k)
    BY <1>4, <1>6 DEF Loaded, Filed
  <2>3. Lost("address", m, k)
    BY <1>1, <2>1, <2>2
  <2>4. QED BY <1>1, <1>2, <2>1, <2>3, UnfiledHas
<1>7. QED BY <1>5, <1>6

LEMMA FindAnswers ==
  ASSUME GroupsInv, Loaded, NEW id, NEW ip \in G!AnswersOf(id), ip # ""
  PROVE  ip \in {s.ip : s \in G!Listed(id)} \cup G!Unfiled(id)
<1>1. id \in DOMAIN conhashs
  BY DEF G!AnswersOf
<1>2. CASE conhashs[id] # {}
  <2>1. PICK name \in conhashs[id] : ip = G!AddressOf(id, name)
    BY <1>1, <1>2 DEF G!AnswersOf
  <2>2. CASE <<id, name>> \in DOMAIN ips
    BY <2>1, <2>2, FiledAnswers
  <2>3. CASE <<id, name>> \notin DOMAIN ips
    <3>1. ip = name
      BY <2>1, <2>3 DEF G!AddressOf, G!FiledUnder
    <3>2. QED BY <1>1, <2>3, <3>1, NameAnswers
  <2>4. QED BY <2>2, <2>3
<1>3. CASE conhashs[id] = {}
  <2>1. <<id, G!Null>> \in DOMAIN ips /\ ip = G!AddressOf(id, G!Null)
    BY <1>1, <1>3 DEF G!AnswersOf, G!FiledUnder
  <2>2. QED BY <2>1, FiledAnswers
<1>4. QED BY <1>2, <1>3

LEMMA FindStep == ASSUME GroupsInv, NEW id \in Ids, G!Find(id) PROVE GroupsInv'
<1>1. UNCHANGED <<groups, state, gi, gj, names, conhashs, ips, lost>> /\ state = "ready"
  BY DEF G!Find
<1>2. Loaded
  BY <1>1 DEF GroupsInv
<1>3. PICK ip \in G!AnswersOf(id) : answer' = [id |-> id, ip |-> ip]
  BY DEF G!Find
<1>4. answer'.id = id /\ answer'.ip = ip
  BY <1>3
<1>5. ip # "" => ip \in {s.ip : s \in G!Listed(id)} \cup G!Unfiled(id)
  BY <1>2, FindAnswers
<1>6. G!AnswersAreTheGroups'
  <2>1. G!Listed(id)' = G!Listed(id) /\ G!Unfiled(id)' = G!Unfiled(id)
    BY <1>1 DEF G!Listed, G!ServersOf, G!WithId, G!Unfiled
  <2>2. (answer.id)' = id /\ (answer.ip)' = ip
    BY <1>4
  <2>3. answer'.ip # "" =>
          answer'.ip \in {s.ip : s \in G!Listed(answer.id)'} \cup G!Unfiled(answer.id)'
    BY <1>1, <1>5, <2>1, <2>2 DEF G!Listed, G!ServersOf, G!WithId, G!Unfiled
  <2>4. QED BY <2>3 DEF G!AnswersAreTheGroups
<1>7. Loaded'
  BY <1>1, <1>2, SameLoaded
<1>8. QED BY <1>1, <1>6, <1>7 DEF GroupsInv

(* Every step keeps it, memory short or not.                               *)
THEOREM GroupsInvariance == ASSUME FilesAreLists PROVE G!Spec => []GroupsInv
<1>1. GroupsInv /\ [G!Next]_(G!vars) => GroupsInv'
  <2>. SUFFICES ASSUME GroupsInv, [G!Next]_(G!vars) PROVE GroupsInv'
    OBVIOUS
  <2>1. CASE UNCHANGED G!vars
    <3>1. UNCHANGED <<groups, state, gi, gj, names, conhashs, ips, answer, lost>>
      BY <2>1 DEF G!vars
    <3>2. Loaded => Loaded'
      BY <3>1, SameLoaded
    <3>3. QED BY <3>1, <3>2, SameAnswer DEF GroupsInv, NoTables
  <2>2. CASE \E id \in Ids : G!Find(id)
    BY <2>2, FindStep
  <2>3. QED BY <2>1, <2>2, GroupBeginStep, AddServerStep, GroupEndStep, LifeStep DEF G!Next
<1>2. G!Init => GroupsInv
  BY GroupsInit
<1>3. QED BY <1>1, <1>2, PTL DEF G!Spec

(* What a lookup answers is the address of a server that the file lists in *)
(* the group asked for, for all files and however loading went; or, where  *)
(* memory was too short to file the address, the server's name.            *)
THEOREM AnswersAreRight == ASSUME FilesAreLists PROVE G!Spec => []G!AnswersAreTheGroups
<1>1. GroupsInv => G!AnswersAreTheGroups
  BY DEF GroupsInv
<1>2. QED BY <1>1, GroupsInvariance, PTL

(* Past the file's end, all of its groups are finished.                    *)
LEMMA AllFinished ==
  ASSUME GroupsInv, state = "ready", gi > Len(groups), NEW n \in DOMAIN groups
  PROVE  /\ Loaded /\ n \in 1..(gi - 1) /\ n \in 1..Len(groups) /\ n \in Nat
         /\ DOMAIN groups = 1..Len(groups)
BY LenProperties DEF GroupsInv, Loaded, Place

(* A listed id has the ring of the first of its groups that there was      *)
(* memory for: the names of its servers but those that it was short for.   *)
THEOREM GroupsAreRight == ASSUME FilesAreLists PROVE G!Spec => []G!GroupsAreTheFiles
<1>1. GroupsInv => G!GroupsAreTheFiles
  <2>. SUFFICES ASSUME GroupsInv, state = "ready", gi > Len(groups), NEW n \in DOMAIN groups,
                       FirstKept(n)
                PROVE  /\ groups[n].id \in DOMAIN conhashs
                       /\ conhashs[groups[n].id] = G!RingOf(n)
    BY DEF G!GroupsAreTheFiles, FirstKept, Lost
  <2>1. Loaded /\ n \in 1..(gi - 1)
    BY AllFinished
  <2>2. QED BY <2>1 DEF Loaded, Rings, FirstKept
<1>2. QED BY <1>1, GroupsInvariance, PTL

(* Servers of different names all get urls: each name on the ring answers  *)
(* the address of the server that has it.                                  *)
LEMMA NamesServe ==
  ASSUME GroupsInv, state = "ready", gi > Len(groups),
         NEW n \in DOMAIN groups, G!Distinct(n), G!FirstOfItsId(n), G!Whole(n),
         NEW l \in 1..Len(groups[n].servers)
  PROVE  G!AddressOf(groups[n].id, G!NameOf(ServerAt(n, l))) = ServerAt(n, l).ip
<1>. DEFINE s == ServerAt(n, l)
            key == <<groups[n].id, G!NameOf(s)>>
<1>1. /\ Loaded /\ n \in 1..(gi - 1) /\ n \in 1..Len(groups)
      /\ DOMAIN groups = 1..Len(groups)
  BY AllFinished
<1>2. s \in G!ServersOf(n) /\ n \in Nat /\ l \in Nat /\ Done(n, l)
  BY <1>1, ListedAt, Finished
<1>3. CASE key \in DOMAIN ips
  <2>1. PICK m \in Nat, k \in Nat :
          /\ Done(m, k) /\ G!Text(ServerAt(m, k)) # ""
          /\ key = <<groups[m].id, G!Text(ServerAt(m, k))>> /\ ips[key] = ServerAt(m, k).ip
    BY <1>1, <1>3 DEF Loaded, Filed
  <2>2. m \in 1..Len(groups) /\ k \in 1..Len(groups[m].servers)
    BY <2>1 DEF Done, IsServer, IsGroup
  <2>3. m = n
    BY <1>1, <2>1, <2>2 DEF G!FirstOfItsId
  <2>4. ServerAt(m, k) \in G!ServersOf(n) /\ G!NameOf(ServerAt(m, k)) = G!NameOf(s)
    BY <2>1, <2>2, <2>3, ListedAt DEF G!NameOf
  <2>5. ServerAt(m, k) = s
    BY <1>2, <2>4 DEF G!Distinct
  <2>6. QED BY <1>3, <2>1, <2>5 DEF G!AddressOf, G!FiledUnder
<1>4. CASE key \notin DOMAIN ips
  <2>1. ~Lost("address", n, l)
    <3>. DEFINE x == <<"address", n, l>>
    <3>1. x[2] = n
      OBVIOUS
    <3>2. QED BY <3>1 DEF G!Whole, Lost
  <2>2. G!Text(s) # "" => <<groups[n].id, G!Text(s)>> \in DOMAIN ips
    BY <1>1, <1>2, <2>1 DEF Loaded, Filed
  <2>3. G!Text(s) = ""
    BY <1>4, <2>2 DEF G!NameOf
  <2>4. QED BY <1>4, <2>3 DEF G!AddressOf, G!FiledUnder, G!NameOf
<1>5. QED BY <1>3, <1>4

(* server_conhash: every server of a group that memory sufficed for gets   *)
(* urls, and no other, if their names differ.                              *)
THEOREM NamedServe == ASSUME FilesAreLists PROVE G!Spec => []G!NamedServersServe
<1>1. GroupsInv => G!NamedServersServe
  <2>. SUFFICES ASSUME GroupsInv, state = "ready", gi > Len(groups), NEW n \in DOMAIN groups,
                       G!Distinct(n), G!FirstOfItsId(n), G!Whole(n), groups[n].id >= 0,
                       G!ServersOf(n) # {}
                PROVE  G!AnswersOf(groups[n].id) = {s.ip : s \in G!ServersOf(n)}
    BY DEF G!NamedServersServe
  <2>1. /\ Loaded /\ n \in 1..(gi - 1) /\ n \in 1..Len(groups) /\ n \in Nat
        /\ DOMAIN groups = 1..Len(groups)
    BY AllFinished
  <2>2. \A what, k : ~Lost(what, n, k)
    <3>1. ASSUME NEW what, NEW k, NEW x, x = <<what, n, k>> PROVE x \notin lost
      <4>1. x[2] = n
        BY <3>1
      <4>2. QED BY <4>1 DEF G!Whole
    <3>2. QED BY <3>1 DEF Lost
  <2>3. groups[n].id \in DOMAIN conhashs /\ conhashs[groups[n].id] = G!RingOf(n)
    <3>1. \A m \in 1..(n - 1) : groups[m].id # groups[n].id
      BY <2>1 DEF G!FirstOfItsId
    <3>2. FirstKept(n)
      BY <2>2, <3>1 DEF FirstKept
    <3>3. QED BY <2>1, <2>2, <3>2 DEF Loaded, Rings
  <2>4. G!RingOf(n) = {G!NameOf(s) : s \in G!ServersOf(n)}
    BY <2>2 DEF G!RingOf, G!ServersOf, Lost
  <2>5. \A s \in G!ServersOf(n) : G!AddressOf(groups[n].id, G!NameOf(s)) = s.ip
    BY <2>1, ListedAt, NamesServe
  <2>6. ~(groups[n].id < 0)
    <3>1. groups[n] \in [id : Ids, servers : Seq(G!Servers)]
      BY <2>1, ElementOfSeq DEF GroupsInv
    <3>2. groups[n].id \in Int
      BY <3>1 DEF FilesAreLists
    <3>3. QED BY <3>2
  <2>7. G!AnswersOf(groups[n].id) =
          {G!AddressOf(groups[n].id, name) : name \in G!RingOf(n)}
    BY <2>3, <2>4, <2>6 DEF G!AnswersOf
  <2>8. QED BY <2>4, <2>5, <2>7
<1>2. QED BY <1>1, GroupsInvariance, PTL

(* server_conhash as a whole: its rings are those of the file, its answers *)
(* the groups' servers, and all of them serve, as far as memory went.      *)
THEOREM ServersAnswer == ASSUME FilesAreLists PROVE G!Spec => []G!GroupsAnswer
<1>1. G!AnswersAreTheGroups /\ G!GroupsAreTheFiles /\ G!NamedServersServe => G!GroupsAnswer
  BY DEF G!GroupsAnswer
<1>2. QED BY <1>1, AnswersAreRight, GroupsAreRight, NamedServe, PTL

-----------------------------------------------------------------------------
(* The system calls that the functions make.                               *)
Calls == {"server", "streams", "socket", "nonblock", "reuse", "unlink", "bind",
          "listen", "ioctl", "epoll", "stream"}
(* Call c is still to be made.                                             *)
Has(s, c) == \E k \in DOMAIN s : s[k] = c

(* A function makes each call once; the server comes before its sockets,   *)
(* and the socket before the epoll set.                                    *)
InOrder(s) ==
  /\ \A k, l \in DOMAIN s : s[k] = s[l] => k = l
  /\ \A k, l \in DOMAIN s : s[k] = "server" /\ s[l] \in {"socket", "epoll"} => k < l
  /\ \A k, l \in DOMAIN s : s[k] = "socket" /\ s[l] = "epoll" => k < l
  /\ Has(s, "server") => Has(s, "socket") /\ Has(s, "epoll")

(* The descriptors that a function opened and nobody has yet.              *)
Own == {f \in 0..MaxFd : fds[f] = "own"}

(* A descriptor that will be closed is open and the function's, or the 0   *)
(* that bzero left, or none.                                               *)
MayClose(d) == d = -1 \/ d \in Own \/ (d = 0 /\ N!IsTcp)

(* A call has what it has opened so far: its socket, and a tcp server its  *)
(* epoll set.                                                              *)
Holds ==
  op # <<>> /\ got # "failed" =>
    /\ ~Has(todo, "socket") => sock \in Own
    /\ N!IsTcp /\ ~Has(todo, "epoll") => epoll \in Own
    /\ ~N!IsTcp => Own \subseteq {sock}

(* What a function owns it can name, until it has failed or is done.       *)
SockInv ==
  /\ fds \in [0..MaxFd -> {"free", "app", "own", "lost"}]
  /\ got \in {"none", "ok", "failed"} /\ todo \in Seq(Calls)
  /\ got # "none" <=> todo = <<>>
  /\ InOrder(todo) /\ (Has(todo, "server") \/ Has(todo, "epoll") => N!IsTcp)
  /\ Holds /\ Own \subseteq {sock, epoll}
  /\ got = "failed" => Own = {}
  /\ Has(todo, "socket") => Own = {}
  /\ Has(todo, "epoll") => Own \subseteq {sock}
  /\ got = "none" \/ (got = "ok" /\ N!IsTcp) => MayClose(sock) /\ MayClose(epoll)

(* Every function's list of calls.                                         *)
LEMMA TheyAreInOrder ==
  ASSUME NEW f \in N!Functions
  PROVE  /\ f \in Seq(Calls) /\ f # <<>> /\ InOrder(f)
         /\ Has(f, "server") \/ Has(f, "epoll") => f = N!tcp_server_create
         /\ Has(f, "socket") /\ Has(N!tcp_server_create, "epoll")
<1>. USE DEF Calls, InOrder, Has
<1>0. Has(N!tcp_server_create, "epoll")
  <2>1. 8 \in DOMAIN N!tcp_server_create /\ N!tcp_server_create[8] = "epoll"
    BY DEF N!tcp_server_create
  <2>2. QED BY <2>1
<1>1. CASE f = N!udp_server_create
  <2>1. /\ f \in Seq(Calls) /\ f # <<>> /\ InOrder(f)
        /\ Has(f, "server") \/ Has(f, "epoll") => f = N!tcp_server_create
    BY <1>1 DEF N!udp_server_create
  <2>2. 1 \in DOMAIN f /\ f[1] = "socket"
    BY <1>1 DEF N!udp_server_create
  <2>3. QED BY <1>0, <2>1, <2>2
<1>2. CASE f = N!udp_client_create
  <2>1. /\ f \in Seq(Calls) /\ f # <<>> /\ InOrder(f)
        /\ Has(f, "server") \/ Has(f, "epoll") => f = N!tcp_server_create
    BY <1>2 DEF N!udp_client_create
  <2>2. 1 \in DOMAIN f /\ f[1] = "socket"
    BY <1>2 DEF N!udp_client_create
  <2>3. QED BY <1>0, <2>1, <2>2
<1>3. CASE f = N!unix_udp_server_create
  <2>1. /\ f \in Seq(Calls) /\ f # <<>> /\ InOrder(f)
        /\ Has(f, "server") \/ Has(f, "epoll") => f = N!tcp_server_create
    BY <1>3 DEF N!unix_udp_server_create
  <2>2. 1 \in DOMAIN f /\ f[1] = "socket"
    BY <1>3 DEF N!unix_udp_server_create
  <2>3. QED BY <1>0, <2>1, <2>2
<1>4. CASE f = N!udp_unix_socket_create
  <2>1. /\ f \in Seq(Calls) /\ f # <<>> /\ InOrder(f)
        /\ Has(f, "server") \/ Has(f, "epoll") => f = N!tcp_server_create
    BY <1>4 DEF N!udp_unix_socket_create
  <2>2. 1 \in DOMAIN f /\ f[1] = "socket"
    BY <1>4 DEF N!udp_unix_socket_create
  <2>3. QED BY <1>0, <2>1, <2>2
<1>5. CASE f = N!nic_get_ip
  <2>1. /\ f \in Seq(Calls) /\ f # <<>> /\ InOrder(f)
        /\ Has(f, "server") \/ Has(f, "epoll") => f = N!tcp_server_create
    BY <1>5 DEF N!nic_get_ip
  <2>2. 1 \in DOMAIN f /\ f[1] = "socket"
    BY <1>5 DEF N!nic_get_ip
  <2>3. QED BY <1>0, <2>1, <2>2
<1>6. CASE f = N!tcp_server_create
  <2>1. /\ f \in Seq(Calls) /\ f # <<>> /\ InOrder(f)
        /\ Has(f, "server") \/ Has(f, "epoll") => f = N!tcp_server_create
    BY <1>6 DEF N!tcp_server_create
  <2>2. 3 \in DOMAIN f /\ f[3] = "socket"
    BY <1>6 DEF N!tcp_server_create
  <2>3. QED BY <1>0, <2>1, <2>2
<1>7. QED BY <1>1, <1>2, <1>3, <1>4, <1>5, <1>6 DEF N!Functions

(* What is left of a function's calls is in order.                         *)
LEMMA TheRestIsInOrder ==
  ASSUME NEW S, NEW s \in Seq(S), s # <<>>, InOrder(s)
  PROVE  /\ Tail(s) \in Seq(S) /\ ~Has(Tail(s), Head(s))
         /\ \A c : Has(Tail(s), c) => Has(s, c)
         /\ \A c : Has(s, c) /\ c # Head(s) => Has(Tail(s), c)
         /\ InOrder(Tail(s))
         /\ Head(s) # "server" => ~Has(s, "server") \/ Head(s) \notin {"socket", "epoll"}
         /\ Head(s) = "epoll" => ~Has(Tail(s), "socket") /\ ~Has(Tail(s), "server")
         /\ Head(s) = "socket" => ~Has(Tail(s), "server")
<1>1. /\ Tail(s) \in Seq(S) /\ Len(Tail(s)) = Len(s) - 1 /\ Head(s) = s[1]
      /\ \A k \in 1..(Len(s) - 1) : Tail(s)[k] = s[k + 1]
      /\ DOMAIN s = 1..Len(s) /\ DOMAIN Tail(s) = 1..(Len(s) - 1) /\ Len(s) \in Nat
      /\ 1 \in DOMAIN s
  BY HeadTailProperties, EmptySeq, LenProperties
<1>2. \A k \in DOMAIN Tail(s) : k + 1 \in DOMAIN s /\ k + 1 # 1 /\ Tail(s)[k] = s[k + 1]
  BY <1>1
<1>3. \A k \in DOMAIN s : k # 1 => k - 1 \in DOMAIN Tail(s) /\ Tail(s)[k - 1] = s[k]
  BY <1>1
<1>4. \A c : Has(Tail(s), c) => Has(s, c)
  BY <1>2 DEF Has
<1>5. ~Has(Tail(s), Head(s))
  BY <1>1, <1>2 DEF Has, InOrder
<1>6. \A k \in DOMAIN s : ~(k < 1)
  BY <1>1
<1>7. /\ Head(s) = "epoll" => ~Has(s, "socket") /\ ~Has(s, "server")
      /\ Head(s) = "socket" => ~Has(s, "server")
  BY <1>1, <1>6 DEF Has, InOrder
<1>8. InOrder(Tail(s))
  <2>1. \A k, l \in DOMAIN Tail(s) : /\ k + 1 = l + 1 => k = l
                                     /\ k + 1 < l + 1 => k < l
    BY <1>1
  <2>2. Has(Tail(s), "server") => Has(Tail(s), "socket") /\ Has(Tail(s), "epoll")
    <3>. SUFFICES ASSUME Has(Tail(s), "server")
                  PROVE  Has(Tail(s), "socket") /\ Has(Tail(s), "epoll")
      OBVIOUS
    <3>1. Has(s, "server") /\ Has(s, "socket") /\ Has(s, "epoll")
      BY <1>4 DEF InOrder
    <3>2. Head(s) # "socket" /\ Head(s) # "epoll"
      BY <1>7, <3>1
    <3>3. QED BY <1>1, <1>3, <3>1, <3>2 DEF Has
  <2>3. QED BY <1>2, <2>1, <2>2 DEF InOrder
<1>9. \A c : Has(s, c) /\ c # Head(s) => Has(Tail(s), c)
  BY <1>1, <1>3 DEF Has
<1>10. QED BY <1>1, <1>4, <1>5, <1>7, <1>8, <1>9

(* The kernel's choice is a free descriptor.                               *)
LEMMA LowestFree ==
  ASSUME MaxFd \in Nat, N!Free # {} PROVE N!Min(N!Free) \in N!Free
<1>1. N!Free \subseteq Nat
  BY DEF N!Free
<1>2. PICK m \in N!Free : \A k \in N!Free : m <= k
  BY <1>1, Least
<1>3. QED BY <1>2 DEF N!Min

(* The steps, one lemma each that opens or closes.                         *)
LEMMA SockInit == N!Init => SockInv
BY DEF N!Init, SockInv, Holds, InOrder, Has, Own, N!Unknown, N!IsTcp, N!tcp_server_create,
   Calls

(* A function begins when nothing is another's.                            *)
LEMMA CallStep ==
  ASSUME SockInv, NEW f \in N!Functions, N!Call(f) PROVE SockInv'
<1>1. Own = {} /\ Own' = {} /\ todo' # <<>>
  BY TheyAreInOrder DEF N!Call, Own, SockInv
<1>2. Holds'
  <2>1. todo' = f /\ op' = f /\ Has(f, "socket") /\ (N!IsTcp' => Has(f, "epoll"))
    BY TheyAreInOrder DEF N!Call, N!IsTcp
  <2>2. QED BY <1>1, <2>1 DEF Holds, Has
<1>3. QED BY <1>1, <1>2, TheyAreInOrder DEF N!Call, SockInv, MayClose, N!IsTcp, N!Unknown, Own

(* A descriptor is the function's, or was free and is the application's.   *)
LEMMA SucceedStep ==
  ASSUME MaxFd \in Nat, SockInv, N!Succeed PROVE SockInv'
<1>. DEFINE h == Head(todo)
            new == N!Min(N!Free)
<1>1. /\ todo # <<>> /\ got = "none" /\ todo' = Tail(todo) /\ todo' \in Seq(Calls)
      /\ InOrder(todo') /\ ~Has(todo', h) /\ (\A c : Has(todo', c) => Has(todo, c))
      /\ (\A c : Has(todo, c) /\ c # h => Has(todo', c))
      /\ h = "epoll" => ~Has(todo', "socket") /\ ~Has(todo', "server")
      /\ h = "socket" => ~Has(todo', "server")
  BY TheRestIsInOrder DEF SockInv, N!Succeed
<1>2. Has(todo, h)
  BY <1>1, HeadTailProperties, EmptySeq, LenProperties DEF Has, SockInv
<1>3. got' \in {"none", "ok", "failed"} /\ (got' # "none" <=> todo' = <<>>) /\ op' = op
  BY <1>1 DEF N!Succeed
<1>. HIDE DEF h, new
<1>0. /\ op # <<>> => /\ ~Has(todo, "socket") => sock \in Own
                      /\ N!IsTcp /\ ~Has(todo, "epoll") => epoll \in Own
                      /\ ~N!IsTcp => Own \subseteq {sock}
      /\ Has(todo, "server") \/ Has(todo, "epoll") => N!IsTcp
      /\ Has(todo, "socket") => Own = {}
      /\ Has(todo, "server") => Has(todo, "socket") /\ Has(todo, "epoll")
  BY <1>1 DEF SockInv, Holds, InOrder
<1>4. CASE h \in {"socket", "epoll"}
  <2>1. new \in N!Free
    BY <1>4, LowestFree DEF N!Succeed, h, new
  <2>2. /\ fds' = [fds EXCEPT ![new] = "own"] /\ new \in 0..MaxFd
        /\ sock' = (IF h = "socket" THEN new ELSE sock)
        /\ epoll' = (IF h = "epoll" THEN new ELSE epoll)
    BY <1>4, <2>1 DEF N!Succeed, N!Opened, N!Free, h, new
  <2>3. Own' = Own \cup {new} /\ fds' \in [0..MaxFd -> {"free", "app", "own", "lost"}]
    BY <2>2 DEF Own, SockInv
  <2>4. Own' \subseteq {sock', epoll'} /\ (h = "socket" => Own' = {new})
        /\ (h = "epoll" => Own \subseteq {sock})
    BY <1>2, <1>4, <2>2, <2>3 DEF SockInv
  <2>5. MayClose(sock)' /\ MayClose(epoll)'
    BY <1>1, <1>3, <2>2, <2>3 DEF SockInv, MayClose, N!IsTcp
  <2>6. (Has(todo', "server") \/ Has(todo', "epoll") => N!IsTcp')
        /\ (Has(todo', "socket") => Own' = {})
        /\ (Has(todo', "epoll") => Own' \subseteq {sock'})
    BY <1>1, <1>3, <1>4, <2>2, <2>4 DEF SockInv, N!IsTcp
  <2>7. Holds'
    <3>. SUFFICES ASSUME op # <<>>
                  PROVE  /\ ~Has(todo', "socket") => sock' \in Own'
                         /\ N!IsTcp /\ ~Has(todo', "epoll") => epoll' \in Own'
                         /\ ~N!IsTcp => Own' \subseteq {sock'}
      BY <1>3 DEF Holds, N!IsTcp, Has
    <3>1. CASE h = "socket"
      BY <1>0, <1>1, <1>2, <2>2, <2>3, <2>4, <3>1
    <3>2. CASE h = "epoll"
      <4>1. ~Has(todo, "socket") /\ N!IsTcp
        BY <1>0, <1>1, <1>2, <3>2
      <4>2. QED BY <1>0, <2>2, <2>3, <3>2, <4>1
    <3>3. QED BY <1>4, <3>1, <3>2
  <2>8. QED BY <1>1, <1>3, <2>3, <2>4, <2>5, <2>6, <2>7 DEF SockInv, N!Succeed
<1>5. CASE h \notin {"socket", "epoll"}
  <2>1. /\ fds' = fds /\ Own' = Own
        /\ sock' = (IF h = "server" THEN 0 ELSE sock)
        /\ epoll' = (IF h = "server" THEN 0 ELSE epoll)
    BY <1>5 DEF N!Succeed, Own, h
  <2>2. h = "server" => N!IsTcp /\ Own = {}
    BY <1>2 DEF SockInv, InOrder
  <2>3. MayClose(sock)' /\ MayClose(epoll)'
    BY <1>1, <1>3, <2>1, <2>2 DEF SockInv, MayClose, N!IsTcp
  <2>4. got' # "failed"
    BY <1>1 DEF N!Succeed
  <2>5. Holds'
    <3>. SUFFICES ASSUME op # <<>>
                  PROVE  /\ ~Has(todo', "socket") => sock' \in Own'
                         /\ N!IsTcp /\ ~Has(todo', "epoll") => epoll' \in Own'
                         /\ ~N!IsTcp => Own' \subseteq {sock'}
      BY <1>3 DEF Holds, N!IsTcp, Has
    <3>1. /\ ~Has(todo', "socket") => ~Has(todo, "socket") /\ h # "server"
          /\ ~Has(todo', "epoll") => ~Has(todo, "epoll") /\ h # "server"
      BY <1>0, <1>1, <1>2, <1>5
    <3>2. h = "server" => Own = {}
      BY <2>2
    <3>3. QED BY <1>0, <2>1, <3>1, <3>2
  <2>6. QED BY <1>1, <1>3, <2>1, <2>2, <2>3, <2>4, <2>5 DEF SockInv, N!IsTcp
<1>6. QED BY <1>4, <1>5

(* What fails closes all that is the function's.                           *)
LEMMA FailStep ==
  ASSUME SockInv, N!Fail PROVE SockInv' /\ Own' = {}
<1>1. /\ todo # <<>> /\ got = "none" /\ todo' = <<>> /\ got' = "failed"
      /\ Has(todo, Head(todo))
  BY HeadTailProperties, EmptySeq, LenProperties DEF Has, SockInv, N!Fail
<1>2. Own \subseteq N!Closed(sock', epoll')
  BY <1>1 DEF SockInv, N!Fail, N!Closed, Own
<1>3. fds' \in [0..MaxFd -> {"free", "app", "own", "lost"}] /\ Own' = {}
  BY <1>2 DEF SockInv, N!Fail, N!Without, Own
<1>4. QED BY <1>1, <1>3 DEF SockInv, InOrder, Has, Holds

(* The caller, the destruction, the rest of the process.                   *)
LEMMA OtherStep ==
  ASSUME MaxFd \in Nat, SockInv,
         N!Take \/ N!tcp_server_destroy \/ N!AppOpens \/ N!AppCloses \/ UNCHANGED N!vars
  PROVE  SockInv'
<1>1. CASE N!Take
  <2>1. fds' \in [0..MaxFd -> {"free", "app", "own", "lost"}] /\ Own' \subseteq Own
    BY <1>1 DEF SockInv, N!Take, Own
  <2>2. Own \subseteq {sock} /\ sock \in DOMAIN fds /\ Own' = {}
    <3>1. Own \subseteq {sock}
      BY <1>1 DEF SockInv, Holds, N!Take
    <3>2. sock \in 0..MaxFd /\ fds'[sock] # "own" /\ \A f \in 0..MaxFd : f # sock => fds'[f] = fds[f]
      BY <1>1, <3>1 DEF SockInv, N!Take, Own
    <3>3. QED BY <1>1, <3>1, <3>2 DEF SockInv, Own
  <2>3. ~N!IsTcp' /\ Holds'
    BY <1>1 DEF N!Take, N!IsTcp, N!tcp_server_create, Holds
  <2>4. todo = <<>> /\ ~Has(todo, "server") /\ ~Has(todo, "epoll")
    BY <1>1 DEF SockInv, N!Take, Has
  <2>5. QED BY <1>1, <2>1, <2>2, <2>3, <2>4 DEF SockInv, N!Take, Has
<1>2. CASE N!tcp_server_destroy
  <2>1. fds' \in [0..MaxFd -> {"free", "app", "own", "lost"}] /\ Own' = {}
    BY <1>2 DEF SockInv, N!tcp_server_destroy, N!Without, N!Closed, Own
  <2>2. QED BY <1>2, <2>1 DEF SockInv, Holds, N!tcp_server_destroy, N!IsTcp
<1>3. CASE N!AppOpens
  <2>1. N!Min(N!Free) \in N!Free
    BY <1>3, LowestFree DEF N!AppOpens
  <2>2. fds' \in [0..MaxFd -> {"free", "app", "own", "lost"}] /\ Own' = Own
    BY <1>3, <2>1 DEF SockInv, N!AppOpens, Own, N!Free
  <2>3. QED BY <1>3, <2>2 DEF SockInv, Holds, N!AppOpens, N!IsTcp, MayClose
<1>4. CASE N!AppCloses
  <2>1. fds' \in [0..MaxFd -> {"free", "app", "own", "lost"}] /\ Own' = Own
    BY <1>4 DEF SockInv, N!AppCloses, Own
  <2>2. QED BY <1>4, <2>1 DEF SockInv, Holds, N!AppCloses, N!IsTcp, MayClose
<1>5. CASE UNCHANGED N!vars
  BY <1>5 DEF N!vars, SockInv, Holds, Own, N!IsTcp, MayClose
<1>6. QED BY <1>1, <1>2, <1>3, <1>4, <1>5

(* Every function owns what it has opened, and can close all of it.        *)
THEOREM SockInvariance == ASSUME MaxFd \in Nat PROVE N!Spec => []SockInv
<1>1. SockInv /\ [N!Next]_(N!vars) => SockInv'
  BY CallStep, SucceedStep, FailStep, OtherStep DEF N!Next
<1>2. QED BY SockInit, <1>1, PTL DEF N!Spec

(* Any of the functions: when it has failed, or a server has been          *)
(* destroyed, nothing that it opened is open.                              *)
THEOREM FailuresClose ==
  ASSUME MaxFd \in Nat PROVE N!Spec => []N!FailureLeavesNothing
<1>1. SockInv => N!FailureLeavesNothing
  BY DEF SockInv, Own, N!FailureLeavesNothing
<1>2. QED BY <1>1, SockInvariance, PTL

(* A call that succeeds leaves open all of what it answers and nothing     *)
(* else, but for nic_get_ip, which answers an address and leaves its       *)
(* socket open.                                                            *)
THEOREM SuccessOwns ==
  ASSUME MaxFd \in Nat PROVE N!Spec => []N!SuccessHasItsOwn
<1>1. SockInv => N!SuccessHasItsOwn
  <2>. SUFFICES ASSUME SockInv, todo = <<>>, got = "ok", op # <<>>
                PROVE  Own = N!Answered \cup N!Leaked
    BY DEF N!SuccessHasItsOwn, Own
  <2>1. ~Has(todo, "socket") /\ ~Has(todo, "epoll")
    BY DEF Has
  <2>2. sock \in Own /\ Own \subseteq {sock, epoll} /\ (N!IsTcp => epoll \in Own)
        /\ (~N!IsTcp => Own \subseteq {sock})
    BY <2>1 DEF SockInv, Holds
  <2>3. QED BY <2>2 DEF N!Answered, N!Leaked
<1>2. QED BY <1>1, SockInvariance, PTL

(* No step of the functions closes a descriptor of the rest of the         *)
(* process, but for the 0 of a tcp server that is not finished.            *)
THEOREM SocketsCloseTheirOwn ==
  ASSUME MaxFd \in Nat PROVE N!Spec => [][N!ClosesItsOwn]_(N!vars)
<1>1. SockInv /\ [N!Next]_(N!vars) => N!ClosesItsOwn
  <2>. SUFFICES ASSUME SockInv, [N!Next]_(N!vars), todo' # todo \/ got' # got,
                       NEW f \in 0..MaxFd, fds[f] = "app", fds'[f] = "free"
                PROVE  f = 0 /\ N!IsTcp /\ 0 \in {sock, epoll}
    BY DEF N!ClosesItsOwn
  <2>1. CASE N!Fail
    <3>1. f \in N!Closed(sock', epoll')
      BY <2>1 DEF N!Fail, N!Without
    <3>2. f \in {sock, epoll}
      BY <2>1, <3>1 DEF N!Fail, N!Closed
    <3>3. MayClose(f) /\ f \notin Own /\ f # -1
      BY <2>1, <3>2 DEF SockInv, Own, N!Fail
    <3>4. QED BY <3>2, <3>3 DEF MayClose
  <2>2. CASE N!tcp_server_destroy
    <3>1. f \in {sock, epoll}
      BY <2>2 DEF N!tcp_server_destroy, N!Without, N!Closed
    <3>2. MayClose(f) /\ f \notin Own /\ f # -1
      BY <2>2, <3>1 DEF SockInv, Own, N!tcp_server_destroy
    <3>3. QED BY <3>1, <3>2 DEF MayClose
  <2>3. CASE N!Succeed
    BY <2>3 DEF N!Succeed, N!Opened, SockInv
  <2>4. CASE \E g \in N!Functions : N!Call(g)
    BY <2>4 DEF N!Call
  <2>5. QED
    BY <2>1, <2>2, <2>3, <2>4 DEF N!Next, N!Take, N!AppOpens, N!AppCloses, N!vars
<1>2. QED BY <1>1, SockInvariance, PTL DEF N!Spec

-----------------------------------------------------------------------------
(* md5: the bytes that one word counts, a whole number of blocks.          *)
WordBytes == WordSize \div ByteBits

Md5Sizes ==
  /\ BlockSize \in Nat \ {0} /\ ByteBits \in Nat \ {0} /\ LenSize \in Nat
  /\ \E k \in Nat \ {0} : WordSize = ByteBits * (BlockSize * k)
  /\ Pieces \subseteq Nat

(* A word counts whole blocks, so the offset in a block is in it.          *)
LEMMA WordIs ==
  ASSUME Md5Sizes
  PROVE  /\ WordBytes \in Nat \ {0} /\ WordSize \in Nat \ {0}
         /\ WordSize = ByteBits * WordBytes
         /\ \E k \in Nat \ {0} : WordBytes = BlockSize * k
         /\ \A a \in Nat : (a % WordBytes) % BlockSize = a % BlockSize
<1>1. PICK k \in Nat \ {0} : WordSize = ByteBits * (BlockSize * k)
  BY DEF Md5Sizes
<1>. DEFINE v == BlockSize * k
<1>2. v \in Nat \ {0}
  BY DEF Md5Sizes
<1>3. \A a \in Nat : (a % v) % BlockSize = a % BlockSize
  BY RestOfRest DEF Md5Sizes
<1>4. v = BlockSize * k
  OBVIOUS
<1>. HIDE DEF v
<1>5. WordSize = ByteBits * v /\ WordSize \in Nat \ {0}
  BY <1>1, <1>2, <1>4 DEF Md5Sizes
<1>6. (ByteBits * v + 0) \div ByteBits = v /\ ByteBits * v + 0 = WordSize
  BY <1>2, <1>5, OneRest DEF Md5Sizes
<1>7. WordBytes = v
  BY <1>6 DEF WordBytes
<1>8. QED BY <1>2, <1>3, <1>4, <1>5, <1>7

(* What is digested: bytes by their positions, marks, counts.              *)
Items == Int
Md5States == [lo : Nat, hi : Nat, abcd : Seq(Items), buf : Seq(Items)]

(* State s has been given the bytes of m, and no others.                   *)
HasTaken(s, m) ==
  /\ s \in Md5States /\ Len(s.buf) = BlockSize /\ m \in Seq(Items)
  /\ s.lo = ByteBits * (Len(m) % WordBytes)
  /\ s.hi = (Len(m) \div WordBytes) % WordSize
  /\ s.abcd \o SubSeq(s.buf, 1, Len(m) % BlockSize) = m

(* The count tells how far the buffer is filled.                           *)
LEMMA OffsetIs ==
  ASSUME Md5Sizes, NEW s, NEW m, HasTaken(s, m)
  PROVE  /\ D!Offset(s) = Len(m) % BlockSize
         /\ (s.lo \div ByteBits) = Len(m) % WordBytes
<1>. DEFINE c == Len(m) % WordBytes
<1>1. Len(m) \in Nat
  BY LenProperties DEF HasTaken
<1>2. c \in Nat /\ c % BlockSize = Len(m) % BlockSize
  <2>1. WordBytes \in Nat \ {0} /\ \A a \in Nat : (a % WordBytes) % BlockSize = a % BlockSize
    BY WordIs
  <2>2. c \in Nat
    BY <1>1, <2>1, Divides
  <2>3. QED BY <1>1, <2>1, <2>2
<1>3. s.lo = ByteBits * c
  BY DEF HasTaken
<1>. HIDE DEF c
<1>4. ((ByteBits * c + 0) \div ByteBits) = c /\ ByteBits * c + 0 = ByteBits * c
  BY <1>2, OneRest DEF Md5Sizes
<1>5. (s.lo \div ByteBits) = c
  BY <1>3, <1>4
<1>6. QED BY <1>2, <1>5 DEF D!Offset, c

(* The two words count, the carry included.                                *)
LEMMA CountedIs ==
  ASSUME Md5Sizes, NEW s, NEW m, HasTaken(s, m), NEW n \in Nat
  PROVE  /\ D!Counted(s, n) \in Md5States
         /\ D!Counted(s, n).abcd = s.abcd /\ D!Counted(s, n).buf = s.buf
         /\ D!Counted(s, n).lo = ByteBits * ((Len(m) + n) % WordBytes)
         /\ D!Counted(s, n).hi = ((Len(m) + n) \div WordBytes) % WordSize
<1>. DEFINE V == WordBytes
            W == WordSize
            c == Len(m) % V
            e == n % V
            nbits == (n * ByteBits) % W
            low == (s.lo + nbits) % W
            carry == IF low < nbits THEN 1 ELSE 0
            f == (c + e) % V
<1>1. /\ Len(m) \in Nat /\ V \in Nat \ {0} /\ W \in Nat \ {0} /\ W = ByteBits * V
      /\ ByteBits \in Nat \ {0} /\ s \in Md5States /\ s.lo = ByteBits * c
      /\ s.hi = (Len(m) \div V) % W
  BY LenProperties, WordIs DEF HasTaken, Md5Sizes
<1>. HIDE DEF V, W
<1>2. /\ c \in 0..(V - 1) /\ e \in 0..(V - 1)
      /\ (Len(m) \div V) \in Nat /\ (n \div V) \in Nat
  BY <1>1, Divides
<1>3. f = (Len(m) + n) % V /\ f \in 0..(V - 1)
      /\ (Len(m) + n) \div V
           = (Len(m) \div V) + (n \div V) + (IF c + e < V THEN 0 ELSE 1)
  <2>1. f = (Len(m) + n) % V
        /\ (Len(m) + n) \div V
             = (Len(m) \div V) + (n \div V) + (IF c + e < V THEN 0 ELSE 1)
    BY <1>1, RestOfSum
  <2>2. f \in 0..(V - 1)
    BY <1>1, <1>2, Divides
  <2>3. QED BY <2>1, <2>2
<1>4. nbits = ByteBits * e
  <2>1. (ByteBits * n) % (ByteBits * V) = ByteBits * e
    BY <1>1, RestOfMultiple
  <2>2. QED BY <1>1, <2>1
<1>5. low = ByteBits * f /\ carry = IF c + e < V THEN 0 ELSE 1
  <2>. HIDE DEF c, e
  <2>1. /\ (ByteBits * c + ByteBits * e) % (ByteBits * V) = ByteBits * f
        /\ ByteBits * f < ByteBits * e <=> ~(c + e < V)
    BY <1>1, <1>2, SumCarries
  <2>. HIDE DEF f, nbits
  <2>2. low = ByteBits * f
    BY <1>1, <1>4, <2>1
  <2>. HIDE DEF low
  <2>3. QED BY <1>4, <2>1, <2>2
<1>7. W \div ByteBits = V
  BY DEF V, W, WordBytes
<1>8. (s.hi + (n \div V) + carry) % W = ((Len(m) + n) \div V) % W
  <2>. DEFINE h == Len(m) \div V
              k == (n \div V) + (IF c + e < V THEN 0 ELSE 1)
  <2>1. h \in Nat /\ k \in Nat
    BY <1>2
  <2>2. (Len(m) + n) \div V = h + k
    BY <1>2, <1>3
  <2>3. s.hi + (n \div V) + carry = (h % W) + k
    <3>1. h \in Nat => h % W \in Nat
      BY <1>1, Divides
    <3>3. h % W \in Nat /\ s.hi = h % W
      BY <1>1, <2>1, <3>1
    <3>. HIDE DEF h, carry
    <3>2. QED BY <1>2, <1>5, <3>3
  <2>. HIDE DEF h, k
  <2>4. ((h % W) + k) % W = (h + k) % W
    BY <1>1, <2>1, RestOfSum
  <2>5. QED BY <2>2, <2>3, <2>4
<1>9. D!Counted(s, n) =
        [s EXCEPT !.lo = ByteBits * f, !.hi = ((Len(m) + n) \div V) % W]
  BY <1>5, <1>7, <1>8 DEF D!Counted, V, W
<1>10. ByteBits * f \in Nat /\ ((Len(m) + n) \div V) % W \in Nat
  <2>. HIDE DEF f
  <2>1. ByteBits * f \in Nat
    BY <1>1, <1>3
  <2>. DEFINE a == Len(m) + n
              q == a \div V
  <2>2. a \in Nat
    BY <1>1
  <2>. HIDE DEF a
  <2>3. q \in Nat
    BY <1>1, <2>2, Divides
  <2>. HIDE DEF q
  <2>4. q % W \in Nat
    BY <1>1, <2>3, Divides
  <2>5. QED BY <2>1, <2>4 DEF a, q
<1>. HIDE DEF f
<1>11. QED BY <1>1, <1>3, <1>9, <1>10 DEF Md5States, V, W

(* A piece that is put into the buffer is there behind the others.         *)
LEMMA FilledIs ==
  ASSUME BlockSize \in Nat, NEW s \in Md5States, Len(s.buf) = BlockSize,
         NEW o \in Nat, NEW p \in Seq(Items), o + Len(p) <= BlockSize
  PROVE  /\ D!Filled(s, o, p) \in Md5States /\ Len(D!Filled(s, o, p).buf) = BlockSize
         /\ D!Filled(s, o, p).lo = s.lo /\ D!Filled(s, o, p).hi = s.hi
         /\ D!Filled(s, o, p).abcd = s.abcd
         /\ SubSeq(D!Filled(s, o, p).buf, 1, o + Len(p)) = SubSeq(s.buf, 1, o) \o p
<1>. DEFINE b == [i \in 1..BlockSize |->
                    IF o < i /\ i <= o + Len(p) THEN p[i - o] ELSE s.buf[i]]
            l == o + Len(p)
            v == s.buf
            u == SubSeq(v, 1, o)
<1>1. /\ v \in Seq(Items) /\ \A i \in 1..BlockSize : v[i] \in Items
      /\ Len(p) \in Nat /\ \A i \in 1..Len(p) : p[i] \in Items
  BY LenProperties, ElementOfSeq DEF Md5States
<1>0. Len(v) = BlockSize
  OBVIOUS
<1>2. \A i \in 1..BlockSize : b[i] \in Items
  BY <1>1
<1>3. b \in [1..BlockSize -> Items]
  BY <1>2
<1>4. b \in Seq(Items) /\ Len(b) = BlockSize
  BY <1>3, FunctionIsSeq
<1>. HIDE DEF v
<1>5. D!Filled(s, o, p) = [s EXCEPT !.buf = b]
  BY DEF D!Filled, v
<1>6. u \in Seq(Items) /\ Len(u) = o /\ \A i \in 1..o : u[i] = v[i]
  BY <1>0, <1>1, TwoPieces
<1>7. \A i \in 1..l : b[i] = IF i <= o THEN v[i] ELSE p[i - o]
  <2>. SUFFICES ASSUME NEW i \in 1..l
                PROVE  b[i] = IF i <= o THEN v[i] ELSE p[i - o]
    OBVIOUS
  <2>1. i \in 1..BlockSize /\ (o < i <=> ~(i <= o)) /\ i <= o + Len(p)
    BY <1>1
  <2>2. QED BY <2>1 DEF v
<1>. HIDE DEF b
<1>8. /\ SubSeq(b, 1, l) \in Seq(Items) /\ Len(SubSeq(b, 1, l)) = l
      /\ \A i \in 1..l : SubSeq(b, 1, l)[i] = b[i]
  BY <1>1, <1>4, TwoPieces
<1>. HIDE DEF u
<1>9. /\ u \o p \in Seq(Items) /\ Len(u \o p) = l
      /\ \A i \in 1..l : (u \o p)[i] = IF i <= o THEN u[i] ELSE p[i - o]
  BY <1>6, ConcatProperties
<1>10. SubSeq(b, 1, l) = u \o p
  <2>1. \A i \in 1..l : SubSeq(b, 1, l)[i] = (u \o p)[i]
    <3>. SUFFICES ASSUME NEW i \in 1..l PROVE SubSeq(b, 1, l)[i] = (u \o p)[i]
      OBVIOUS
    <3>1. i <= o => i \in 1..o
      OBVIOUS
    <3>2. SubSeq(b, 1, l)[i] = IF i <= o THEN v[i] ELSE p[i - o]
      BY <1>7, <1>8
    <3>3. QED BY <1>6, <1>9, <3>1, <3>2
  <2>2. QED BY <1>8, <1>9, <2>1, SeqEqual
<1>11. QED BY <1>4, <1>5, <1>10 DEF Md5States, u, v

(* The full blocks are digested, and the rest is in the buffer.            *)
LEMMA BlocksIs ==
  ASSUME BlockSize \in Nat \ {0}, NEW s \in Md5States, Len(s.buf) = BlockSize,
         NEW p \in Seq(Items)
  PROVE  /\ D!Blocks(s, p) \in Md5States /\ Len(D!Blocks(s, p).buf) = BlockSize
         /\ D!Blocks(s, p).lo = s.lo /\ D!Blocks(s, p).hi = s.hi
         /\ D!Blocks(s, p).abcd \o SubSeq(D!Blocks(s, p).buf, 1, Len(p) % BlockSize)
              = s.abcd \o p
<1>. DEFINE q == Len(p) \div BlockSize
            r == Len(p) % BlockSize
            full == q * BlockSize
            first == SubSeq(p, 1, full)
            rest == SubSeq(p, full + 1, Len(p))
            u == IF full = 0 THEN s ELSE D!md5_process(s, first)
            t == D!Filled(u, 0, rest)
            a == s.abcd
            ta == t.abcd
            tb == t.buf
            ub == u.buf
<1>1. Len(p) \in Nat /\ a \in Seq(Items)
  BY LenProperties DEF Md5States
<1>2. q \in Nat /\ r \in Nat /\ r < BlockSize /\ Len(p) = BlockSize * q + r
  <2>1. /\ q \in Nat /\ r \in Nat /\ r \in 0..(BlockSize - 1)
        /\ Len(p) = BlockSize * q + r
    BY <1>1, Divides
  <2>. HIDE DEF q, r
  <2>2. QED BY <1>1, <2>1
<1>. HIDE DEF q, r
<1>3. full \in Nat /\ full \in 0..Len(p) /\ Len(p) - full = r
  BY <1>1, <1>2
<1>. HIDE DEF full
<1>4. /\ first \in Seq(Items) /\ rest \in Seq(Items) /\ Len(rest) = r
      /\ Len(first) = full /\ first \o rest = p
  BY <1>3, TwoPieces
<1>5. D!Blocks(s, p) = t
  BY DEF D!Blocks, full, q
<1>. HIDE DEF first, rest
<1>6. u \in Md5States /\ ub = s.buf /\ u.lo = s.lo /\ u.hi = s.hi /\ u.abcd = a \o first
  <2>1. CASE full = 0
    <3>1. first = <<>>
      BY <1>4, <2>1, EmptySeq
    <3>. HIDE DEF a
    <3>2. a \o first = a
      BY <1>1, <3>1, ConcatEmptySeq
    <3>3. QED BY <2>1, <3>2 DEF a
  <2>2. CASE full # 0
    <3>. HIDE DEF a
    <3>1. a \o first \in Seq(Items)
      BY <1>1, <1>4, ConcatProperties
    <3>2. QED BY <2>2, <3>1 DEF D!md5_process, Md5States, a
  <2>3. QED BY <2>1, <2>2
<1>. HIDE DEF u
<1>7. /\ t \in Md5States /\ Len(tb) = BlockSize /\ t.lo = s.lo /\ t.hi = s.hi
      /\ ta = a \o first
      /\ SubSeq(tb, 1, 0 + Len(rest)) = SubSeq(ub, 1, 0) \o rest
  <2>1. 0 + Len(rest) <= BlockSize /\ 0 \in Nat /\ BlockSize \in Nat /\ Len(u.buf) = BlockSize
    BY <1>2, <1>4, <1>6
  <2>2. QED BY <1>4, <1>6, <2>1, FilledIs
<1>. HIDE DEF t, a, ta, tb, ub
<1>8. SubSeq(tb, 1, r) = rest
  <2>1. SubSeq(ub, 1, 0) = <<>>
    BY SubSeqEmpty
  <2>2. <<>> \o rest = rest
    BY <1>4, ConcatEmptySeq
  <2>3. 0 + Len(rest) = r
    BY <1>2, <1>4
  <2>4. QED BY <1>7, <2>1, <2>2, <2>3
<1>9. ta \o rest = a \o p
  <2>1. (a \o first) \o rest = a \o (first \o rest)
    <3>1. a \in Seq(Items) /\ first \in Seq(Items) /\ rest \in Seq(Items)
      BY <1>1, <1>4
    <3>2. QED BY <3>1, ConcatAssociative
  <2>2. QED BY <1>4, <1>7, <2>1
<1>10. QED BY <1>5, <1>7, <1>8, <1>9 DEF r, a, ta, tb

(* md5_append: it has taken the piece, wherever its ends are in a block.   *)
LEMMA AppendIs ==
  ASSUME Md5Sizes, NEW s, NEW m, HasTaken(s, m), NEW p \in Seq(Items)
  PROVE  HasTaken(D!md5_append(s, p), m \o p)
<1>. DEFINE n == Len(m)
            l == Len(p)
            o == n % BlockSize
            c == D!Counted(s, l)
            k == IF BlockSize - o < l THEN BlockSize - o ELSE l
            first == SubSeq(p, 1, k)
            rest == SubSeq(p, k + 1, l)
            t == D!Filled(c, o, first)
            M == m \o p
            a == s.abcd
            b == s.buf
            tb == t.buf
            begun == SubSeq(b, 1, o)
<1>1. /\ n \in Nat /\ l \in Nat /\ BlockSize \in Nat \ {0}
      /\ m \in Seq(Items) /\ a \in Seq(Items) /\ b \in Seq(Items)
      /\ s \in Md5States /\ Len(b) = BlockSize /\ a \o begun = m
  BY LenProperties DEF HasTaken, Md5Sizes, Md5States
<1>2. o \in Nat /\ o < BlockSize /\ D!Offset(s) = o
  <2>1. D!Offset(s) = o
    BY OffsetIs
  <2>. HIDE DEF n
  <2>2. o \in Nat /\ o \in 0..(BlockSize - 1)
    BY <1>1, Divides
  <2>. HIDE DEF o
  <2>3. QED BY <1>1, <2>1, <2>2
<1>3. M \in Seq(Items) /\ Len(M) = n + l
  BY <1>1, ConcatProperties
<1>4. /\ c \in Md5States /\ c.abcd = a /\ c.buf = b
      /\ c.lo = ByteBits * (Len(M) % WordBytes)
      /\ c.hi = (Len(M) \div WordBytes) % WordSize
  BY <1>1, <1>3, CountedIs
<1>5. D!md5_append(s, p) =
        IF l = 0 THEN s
        ELSE IF o = 0 THEN D!Blocks(c, p)
        ELSE IF o + k < BlockSize THEN t
        ELSE D!Blocks(D!md5_process(t, t.buf), rest)
  BY <1>2 DEF D!md5_append, D!Least
<1>. HIDE DEF n, l, M, c
<1>6. Len(M) % BlockSize = (o + l) % BlockSize
  <2>1. ((n % BlockSize) + l) % BlockSize = (n + l) % BlockSize
    BY <1>1, RestOfSum
  <2>2. QED BY <1>3, <2>1
<1>. HIDE DEF o
<1>7. k \in 0..l /\ o + k <= BlockSize /\ (o + k < BlockSize => k = l)
  BY <1>1, <1>2
<1>. HIDE DEF k
<1>8. /\ first \in Seq(Items) /\ Len(first) = k /\ rest \in Seq(Items)
      /\ Len(rest) = l - k /\ first \o rest = p
      /\ (k = l => first = p)
  <2>1. k \in 0..Len(p)
    BY <1>7 DEF l
  <2>2. SubSeq(p, 1, Len(p)) = p
    BY SubSeqFull
  <2>3. QED BY <2>1, <2>2, TwoPieces DEF l
<1>. HIDE DEF first, rest
<1>9. begun \in Seq(Items)
  <2>. HIDE DEF b
  <2>1. o \in 0..Len(b)
    BY <1>1, <1>2
  <2>2. QED BY <1>1, <2>1, TwoPieces
<1>10. /\ t \in Md5States /\ Len(tb) = BlockSize /\ t.lo = c.lo /\ t.hi = c.hi
       /\ t.abcd = a /\ tb \in Seq(Items)
       /\ SubSeq(tb, 1, o + k) = begun \o first
  <2>1. o + Len(first) <= BlockSize /\ BlockSize \in Nat /\ Len(c.buf) = BlockSize
    BY <1>1, <1>4, <1>7, <1>8
  <2>2. /\ t \in Md5States /\ Len(t.buf) = BlockSize /\ t.lo = c.lo /\ t.hi = c.hi
        /\ t.abcd = c.abcd /\ SubSeq(t.buf, 1, o + Len(first)) = SubSeq(c.buf, 1, o) \o first
    BY <1>2, <1>4, <1>8, <2>1, FilledIs
  <2>. HIDE DEF t
  <2>3. t.buf \in Seq(Items)
    BY <2>2 DEF Md5States
  <2>4. QED BY <1>4, <1>8, <2>2, <2>3
<1>. HIDE DEF t, a, begun
<1>11. CASE l = 0
  <2>1. p = <<>>
    BY <1>11, EmptySeq DEF l
  <2>2. M = m
    BY <1>1, <2>1, ConcatEmptySeq DEF M
  <2>3. QED BY <1>5, <1>11, <2>2 DEF M
<1>12. CASE l # 0 /\ o = 0
  <2>. DEFINE d == D!Blocks(c, p)
  <2>1. D!md5_append(s, p) = d
    BY <1>5, <1>12
  <2>2. /\ d \in Md5States /\ Len(d.buf) = BlockSize /\ d.lo = c.lo /\ d.hi = c.hi
        /\ d.abcd \o SubSeq(d.buf, 1, l % BlockSize) = a \o p
    <3>1. Len(c.buf) = BlockSize
      BY <1>1, <1>4
    <3>2. d.abcd \o SubSeq(d.buf, 1, Len(p) % BlockSize) = c.abcd \o p
      BY <1>1, <1>4, <3>1, BlocksIs
    <3>3. QED BY <1>1, <1>4, <3>1, <3>2, BlocksIs DEF l
  <2>3. a = m
    <3>1. begun = <<>>
      BY <1>12, SubSeqEmpty DEF begun
    <3>2. QED BY <1>1, <3>1, ConcatEmptySeq
  <2>4. Len(M) % BlockSize = l % BlockSize
    BY <1>1, <1>6, <1>12
  <2>. HIDE DEF d
  <2>5. HasTaken(d, M)
    BY <1>3, <1>4, <2>2, <2>3, <2>4 DEF HasTaken, M
  <2>6. QED BY <2>1, <2>5 DEF M
<1>13. CASE l # 0 /\ o # 0 /\ o + k < BlockSize
  <2>1. k = l /\ first = p
    BY <1>7, <1>8, <1>13
  <2>2. Len(M) % BlockSize = o + k
    <3>. DEFINE x == o + k
    <3>1. x \in Nat /\ x < BlockSize /\ x < BlockSize + BlockSize
      BY <1>1, <1>2, <1>7, <1>13
    <3>2. Len(M) % BlockSize = x % BlockSize
      BY <1>6, <2>1
    <3>. HIDE DEF x
    <3>3. x % BlockSize = x
      BY <1>1, <3>1, RestOfLittle
    <3>4. QED BY <3>2, <3>3 DEF x
  <2>3. a \o SubSeq(tb, 1, o + k) = M
    <3>1. (a \o begun) \o first = a \o (begun \o first)
      <4>1. a \in Seq(Items) /\ begun \in Seq(Items) /\ first \in Seq(Items)
        BY <1>1, <1>8, <1>9
      <4>2. QED BY <4>1, ConcatAssociative
    <3>2. QED BY <1>1, <1>10, <2>1, <3>1 DEF M
  <2>4. D!md5_append(s, p) = t
    BY <1>5, <1>13
  <2>5. HasTaken(t, M)
    BY <1>3, <1>4, <1>10, <2>2, <2>3 DEF HasTaken
  <2>6. QED BY <2>4, <2>5 DEF M
<1>14. CASE l # 0 /\ o # 0 /\ ~(o + k < BlockSize)
  <2>. DEFINE f == D!md5_process(t, tb)
              d == D!Blocks(f, rest)
  <2>1. o + k = BlockSize
    BY <1>1, <1>2, <1>7, <1>14
  <2>2. D!md5_append(s, p) = d
    BY <1>5, <1>14
  <2>3. a \o tb = m \o first /\ a \o tb \in Seq(Items)
    <3>. HIDE DEF tb
    <3>1. tb = begun \o first
      BY <1>10, <2>1, SubSeqFull
    <3>2. (a \o begun) \o first = a \o (begun \o first)
      <4>1. a \in Seq(Items) /\ begun \in Seq(Items) /\ first \in Seq(Items)
        BY <1>1, <1>8, <1>9
      <4>2. QED BY <4>1, ConcatAssociative
    <3>3. a \o tb \in Seq(Items)
      BY <1>1, <1>10, ConcatProperties
    <3>4. QED BY <1>1, <3>1, <3>2, <3>3
  <2>4. /\ f \in Md5States /\ f.abcd = m \o first /\ f.lo = c.lo /\ f.hi = c.hi
        /\ Len(f.buf) = BlockSize
    BY <1>10, <2>3 DEF D!md5_process, Md5States
  <2>. HIDE DEF f
  <2>5. /\ d \in Md5States /\ Len(d.buf) = BlockSize /\ d.lo = c.lo /\ d.hi = c.hi
        /\ d.abcd \o SubSeq(d.buf, 1, Len(rest) % BlockSize) = (m \o first) \o rest
    <3>1. d.abcd \o SubSeq(d.buf, 1, Len(rest) % BlockSize) = f.abcd \o rest
      BY <1>1, <1>8, <2>4, BlocksIs
    <3>2. QED BY <1>1, <1>8, <2>4, <3>1, BlocksIs
  <2>. HIDE DEF d
  <2>6. (m \o first) \o rest = M
    <3>1. (m \o first) \o rest = m \o (first \o rest)
      <4>1. m \in Seq(Items) /\ first \in Seq(Items) /\ rest \in Seq(Items)
        BY <1>1, <1>8
      <4>2. QED BY <4>1, ConcatAssociative
    <3>2. QED BY <1>8, <3>1 DEF M
  <2>7. Len(M) % BlockSize = Len(rest) % BlockSize
    <3>. DEFINE x == Len(rest)
    <3>1. x \in Nat /\ o + l = BlockSize + x
      BY <1>1, <1>2, <1>7, <1>8, <2>1
    <3>. HIDE DEF x
    <3>2. BlockSize % BlockSize = 0
      <4>1. BlockSize \in Nat /\ BlockSize < BlockSize + BlockSize
        BY <1>1
      <4>2. QED BY <1>1, <4>1, RestOfLittle
    <3>3. ((BlockSize % BlockSize) + x) % BlockSize = (BlockSize + x) % BlockSize
      BY <1>1, <3>1, RestOfSum
    <3>4. (BlockSize + x) % BlockSize = x % BlockSize
      BY <3>1, <3>2, <3>3
    <3>5. QED BY <1>6, <3>1, <3>4 DEF x
  <2>8. HasTaken(d, M)
    BY <1>3, <1>4, <2>5, <2>6, <2>7 DEF HasTaken
  <2>9. QED BY <2>2, <2>8 DEF M
<1>15. QED BY <1>11, <1>12, <1>13, <1>14

(* md5_finish: the message is followed by a mark, fewer zeros than a block *)
(* has bytes, and the length that was counted before them.                 *)
Padded(m, z, l, h) == m \o <<D!Mark>> \o [i \in 1..z |-> 0] \o D!Length(l, h)

LEMMA FinishIs ==
  ASSUME Md5Sizes, NEW s, NEW m, HasTaken(s, m)
  PROVE  \E z \in 0..(BlockSize - 1) :
           D!md5_finish(s).abcd = Padded(m, z, s.lo, s.hi)
<1>. DEFINE z == (BlockSize - LenSize - 1 - (Len(m) % WordBytes)) % BlockSize
            mark == <<D!Mark>>
            zeros == [i \in 1..z |-> 0]
            pad == [i \in 1..D!PadLen(s) |-> IF i = 1 THEN D!Mark ELSE 0]
            end == D!Length(s.lo, s.hi)
            t == D!md5_append(s, pad)
            d == D!md5_append(t, end)
            M == (m \o pad) \o end
            da == d.abcd
            db == d.buf
<1>1. /\ Len(m) \in Nat /\ m \in Seq(Items) /\ BlockSize \in Nat \ {0} /\ LenSize \in Nat
      /\ s \in Md5States
  BY LenProperties DEF HasTaken, Md5Sizes
<1>2. z \in 0..(BlockSize - 1) /\ (Len(m) + z + 1 + LenSize) % BlockSize = 0
  <2>1. PICK k \in Nat \ {0} : WordBytes = BlockSize * k
    BY WordIs
  <2>2. QED BY <1>1, <2>1, FillsUp
<1>3. D!PadLen(s) = z + 1
  BY OffsetIs DEF D!PadLen
<1>4. D!md5_finish(s) = d
  BY DEF D!md5_finish
<1>. HIDE DEF z
<1>5. zeros \in Seq(Items) /\ Len(zeros) = z /\ \A i \in 1..z : zeros[i] = 0
  <2>1. zeros \in [1..z -> Items] /\ z \in Nat
    BY <1>2 DEF Items
  <2>2. QED BY <2>1, FunctionIsSeq
<1>6. mark \in Seq(Items) /\ Len(mark) = 1 /\ mark[1] = D!Mark
  BY DEF Items, D!Mark
<1>7. pad \in Seq(Items) /\ Len(pad) = z + 1
      /\ \A i \in 1..(z + 1) : pad[i] = IF i = 1 THEN D!Mark ELSE 0
  <2>1. pad \in [1..(z + 1) -> Items] /\ z + 1 \in Nat
    BY <1>2, <1>3 DEF Items, D!Mark
  <2>2. QED BY <1>3, <2>1, FunctionIsSeq
<1>8. end \in Seq(Items) /\ Len(end) = LenSize
  <2>1. end \in [1..LenSize -> Items]
    BY <1>1 DEF Items, D!Length, Md5States
  <2>2. QED BY <1>1, <2>1, FunctionIsSeq
<1>. HIDE DEF zeros, mark, pad, end
<1>9. pad = mark \o zeros
  <2>1. /\ mark \o zeros \in Seq(Items) /\ Len(mark \o zeros) = 1 + z
        /\ \A i \in 1..(1 + z) :
             (mark \o zeros)[i] = IF i <= 1 THEN mark[i] ELSE zeros[i - 1]
    <3>1. /\ mark \in Seq(Items) /\ zeros \in Seq(Items)
          /\ Len(mark) = 1 /\ Len(zeros) = z
      BY <1>5, <1>6
    <3>2. /\ mark \o zeros \in Seq(Items) /\ Len(mark \o zeros) = Len(mark) + Len(zeros)
          /\ \A i \in 1..(Len(mark) + Len(zeros)) :
               (mark \o zeros)[i]
                 = IF i <= Len(mark) THEN mark[i] ELSE zeros[i - Len(mark)]
      BY <3>1, ConcatProperties
    <3>3. QED BY <3>1, <3>2
  <2>2. \A i \in 1..(z + 1) : pad[i] = (mark \o zeros)[i]
    <3>. SUFFICES ASSUME NEW i \in 1..(z + 1) PROVE pad[i] = (mark \o zeros)[i]
      OBVIOUS
    <3>1. i \in 1..(1 + z) /\ (i <= 1 <=> i = 1) /\ (i # 1 => i - 1 \in 1..z)
      BY <1>2
    <3>2. QED BY <1>5, <1>6, <1>7, <2>1, <3>1
  <2>3. Len(pad) = Len(mark \o zeros)
    BY <1>2, <1>7, <2>1
  <2>4. \A i \in 1..Len(pad) : pad[i] = (mark \o zeros)[i]
    BY <1>7, <2>2
  <2>5. QED BY <1>7, <2>1, <2>3, <2>4, SeqEqual
<1>10. HasTaken(t, m \o pad)
  BY <1>7, AppendIs
<1>. HIDE DEF t
<1>11. HasTaken(d, M)
  BY <1>8, <1>10, AppendIs
<1>12. m \o pad \in Seq(Items) /\ Len(m \o pad) = Len(m) + (z + 1)
  <2>1. m \in Seq(Items) /\ pad \in Seq(Items) /\ Len(pad) = z + 1
    BY <1>1, <1>7
  <2>2. m \o pad \in Seq(Items) /\ Len(m \o pad) = Len(m) + Len(pad)
    BY <2>1, ConcatProperties
  <2>3. QED BY <2>1, <2>2
<1>13. Len(M) = Len(m) + z + 1 + LenSize
  <2>1. Len(M) = Len(m \o pad) + LenSize
    BY <1>8, <1>12, ConcatProperties
  <2>2. QED BY <1>1, <1>2, <1>12, <2>1
<1>14. Len(M) % BlockSize = 0
  BY <1>2, <1>13
<1>. HIDE DEF d, M
<1>15. da = M
  <2>1. da \in Seq(Items) /\ da \o SubSeq(db, 1, 0) = M
    BY <1>11, <1>14 DEF HasTaken, Md5States
  <2>. HIDE DEF da, db
  <2>2. SubSeq(db, 1, 0) = <<>>
    BY SubSeqEmpty
  <2>3. QED BY <2>1, <2>2, ConcatEmptySeq
<1>16. m \o pad = (m \o mark) \o zeros
  <2>1. (m \o mark) \o zeros = m \o (mark \o zeros)
    <3>1. m \in Seq(Items) /\ mark \in Seq(Items) /\ zeros \in Seq(Items)
      BY <1>1, <1>5, <1>6
    <3>2. QED BY <3>1, ConcatAssociative
  <2>2. QED BY <1>9, <2>1
<1>17. M = Padded(m, z, s.lo, s.hi)
  BY <1>16 DEF Padded, M, mark, zeros, end
<1>18. QED BY <1>2, <1>4, <1>15, <1>17

(* The length of the message in bits, of two words.                        *)
LEMMA LengthIs ==
  ASSUME Md5Sizes, NEW s, NEW m, HasTaken(s, m)
  PROVE  /\ s.lo = (Len(m) * ByteBits) % WordSize
         /\ s.hi = ((Len(m) * ByteBits) \div WordSize) % WordSize
<1>1. Len(m) \in Nat /\ s.lo = ByteBits * (Len(m) % WordBytes)
      /\ s.hi = (Len(m) \div WordBytes) % WordSize
  BY LenProperties DEF HasTaken
<1>2. WordBytes \in Nat \ {0} /\ WordSize = ByteBits * WordBytes
      /\ ByteBits \in Nat \ {0}
  BY WordIs DEF Md5Sizes
<1>3. /\ (ByteBits * Len(m)) % (ByteBits * WordBytes) = ByteBits * (Len(m) % WordBytes)
      /\ (ByteBits * Len(m)) \div (ByteBits * WordBytes) = Len(m) \div WordBytes
  BY <1>1, <1>2, RestOfMultiple
<1>4. ByteBits * Len(m) = Len(m) * ByteBits
  BY <1>1, <1>2
<1>5. QED BY <1>1, <1>2, <1>3, <1>4

-----------------------------------------------------------------------------
(* The state has taken the message, or what was digested is the padded one.*)
Md5Inv ==
  /\ len \in Nat /\ (~digested => HasTaken(D!State, D!Message(len)))
  /\ D!DigestIsPadded

(* The message grows by a piece.                                           *)
LEMMA MessageIs ==
  ASSUME NEW k \in Nat, NEW n \in Nat
  PROVE  /\ D!Message(k) \in Seq(Items) /\ Len(D!Message(k)) = k
         /\ [i \in 1..n |-> k + i] \in Seq(Items)
         /\ D!Message(k) \o [i \in 1..n |-> k + i] = D!Message(k + n)
         /\ D!Message(0) = <<>>
<1>. DEFINE m == D!Message(k)
            p == [i \in 1..n |-> k + i]
            w == D!Message(k + n)
<1>0. \A l \in Nat : D!Message(l) \in Seq(Items) /\ Len(D!Message(l)) = l
                     /\ \A i \in 1..l : D!Message(l)[i] = i
  <2>. SUFFICES ASSUME NEW l \in Nat
                PROVE  D!Message(l) \in Seq(Items) /\ Len(D!Message(l)) = l
                       /\ \A i \in 1..l : D!Message(l)[i] = i
    OBVIOUS
  <2>1. D!Message(l) \in [1..l -> Items]
    BY DEF D!Message, Items
  <2>2. QED BY <2>1, FunctionIsSeq DEF D!Message
<1>1. m \in Seq(Items) /\ Len(m) = k /\ \A i \in 1..k : m[i] = i
  BY <1>0
<1>2. w \in Seq(Items) /\ Len(w) = k + n /\ \A i \in 1..(k + n) : w[i] = i
  BY <1>0
<1>3. p \in Seq(Items) /\ Len(p) = n /\ \A i \in 1..n : p[i] = k + i
  <2>1. p \in [1..n -> Items]
    BY DEF Items
  <2>2. QED BY <2>1, FunctionIsSeq
<1>4. D!Message(0) = <<>>
  BY <1>0, EmptySeq
<1>. HIDE DEF m, p, w
<1>5. /\ m \o p \in Seq(Items) /\ Len(m \o p) = k + n
      /\ \A i \in 1..(k + n) : (m \o p)[i] = IF i <= k THEN m[i] ELSE p[i - k]
  BY <1>1, <1>3, ConcatProperties
<1>6. \A i \in 1..Len(w) : w[i] = (m \o p)[i]
  <2>. SUFFICES ASSUME NEW i \in 1..(k + n) PROVE w[i] = (m \o p)[i]
    BY <1>2
  <2>1. (i <= k => i \in 1..k) /\ (~(i <= k) => i - k \in 1..n /\ k + (i - k) = i)
    OBVIOUS
  <2>2. QED BY <1>1, <1>2, <1>3, <1>5, <2>1
<1>7. w = m \o p
  BY <1>2, <1>5, <1>6, SeqEqual
<1>8. QED BY <1>1, <1>3, <1>4, <1>7 DEF m, p, w

(* A fresh state has taken nothing.                                        *)
LEMMA StartIs ==
  ASSUME Md5Sizes PROVE HasTaken(D!md5_init, D!Message(0))
<1>. DEFINE b == [i \in 1..BlockSize |-> 0]
<1>1. BlockSize \in Nat \ {0} /\ WordBytes \in Nat \ {0} /\ WordSize \in Nat \ {0}
      /\ ByteBits \in Nat \ {0}
  BY WordIs DEF Md5Sizes
<1>2. b \in Seq(Items) /\ Len(b) = BlockSize
  <2>1. b \in [1..BlockSize -> Items]
    BY DEF Items
  <2>2. QED BY <1>1, <2>1, FunctionIsSeq
<1>. HIDE DEF b
<1>3. D!Message(0) = <<>> /\ <<>> \in Seq(Items) /\ Len(<<>>) = 0
  BY MessageIs, EmptySeq
<1>4. \A n \in Nat \ {0} : 0 % n = 0 /\ 0 \div n = 0
  <2>. SUFFICES ASSUME NEW n \in Nat \ {0} PROVE 0 % n = 0 /\ 0 \div n = 0
    OBVIOUS
  <2>1. 0 \in 0..(n - 1) /\ n * 0 + 0 = 0
    OBVIOUS
  <2>2. (n * 0 + 0) % n = 0 /\ (n * 0 + 0) \div n = 0
    BY <2>1, OneRest
  <2>3. QED BY <2>1, <2>2
<1>5. SubSeq(b, 1, 0) = <<>>
  BY SubSeqEmpty
<1>6. <<>> \o <<>> = <<>>
  BY <1>3, ConcatEmptySeq
<1>7. D!md5_init = [lo |-> 0, hi |-> 0, abcd |-> <<>>, buf |-> b]
  BY DEF D!md5_init, b
<1>8. /\ D!md5_init \in Md5States /\ D!md5_init.lo = 0 /\ D!md5_init.hi = 0
      /\ D!md5_init.abcd = <<>> /\ D!md5_init.buf = b
  BY <1>2, <1>3, <1>7 DEF Md5States
<1>9. /\ 0 % WordBytes = 0 /\ 0 \div WordBytes = 0 /\ 0 % WordSize = 0
      /\ 0 % BlockSize = 0 /\ ByteBits * 0 = 0
  BY <1>1, <1>4
<1>10. QED BY <1>2, <1>3, <1>5, <1>6, <1>8, <1>9 DEF HasTaken

(* The digest of a state that has taken the message.                       *)
LEMMA DigestIs ==
  ASSUME Md5Sizes, NEW k \in Nat, NEW s, HasTaken(s, D!Message(k)),
         D!Become(D!md5_finish(s)), len' = k
  PROVE  D!DigestIsPadded'
<1>1. Len(D!Message(k)) = k
  BY MessageIs
<1>2. PICK z \in 0..(BlockSize - 1) :
        D!md5_finish(s).abcd = Padded(D!Message(k), z, s.lo, s.hi)
  BY FinishIs
<1>3. /\ s.lo = (k * ByteBits) % WordSize
      /\ s.hi = ((k * ByteBits) \div WordSize) % WordSize
  BY <1>1, LengthIs
<1>4. abcd' = Padded(D!Message(len'), z, (len' * ByteBits) % WordSize,
                     ((len' * ByteBits) \div WordSize) % WordSize)
  BY <1>2, <1>3 DEF D!Become
<1>5. QED BY <1>4 DEF D!DigestIsPadded, Padded, D!Message, D!Length, D!Mark

(* A state is its four parts.                                              *)
LEMMA StateIs ==
  ASSUME NEW t, NEW m, HasTaken(t, m), D!Become(t) PROVE D!State' = t
BY DEF HasTaken, Md5States, D!Become, D!State

(* What a state has taken is the message so far, whatever its pieces.      *)
THEOREM Md5Invariance == ASSUME Md5Sizes PROVE D!Spec => []Md5Inv
<1>1. D!Init => Md5Inv
  <2>. SUFFICES ASSUME D!Init PROVE Md5Inv
    OBVIOUS
  <2>1. D!State = D!md5_init /\ len = 0 /\ ~digested
    BY DEF D!Init, D!State, D!md5_init
  <2>2. QED BY <2>1, StartIs DEF Md5Inv, D!DigestIsPadded
<1>2. Md5Inv /\ [D!Next]_(D!vars) => Md5Inv'
  <2>. SUFFICES ASSUME Md5Inv, [D!Next]_(D!vars) PROVE Md5Inv'
    OBVIOUS
  <2>1. CASE D!Begin
    <3>1. len' = 0 /\ ~digested' /\ D!State' = D!md5_init
      BY <2>1, StartIs, StateIs DEF D!Begin
    <3>2. HasTaken(D!State', D!Message(len'))
      BY <3>1, StartIs
    <3>3. QED BY <3>1, <3>2 DEF Md5Inv, D!DigestIsPadded, HasTaken, Md5States, D!State, D!Message
  <2>2. CASE D!Finish
    <3>1. HasTaken(D!State, D!Message(len)) /\ len' = len /\ digested' /\ len' \in Nat
      BY <2>2 DEF D!Finish, Md5Inv
    <3>2. D!DigestIsPadded'
      BY <2>2, <3>1, DigestIs DEF D!Finish
    <3>3. QED BY <3>1, <3>2 DEF Md5Inv
  <2>3. ASSUME NEW n \in Pieces, D!AppendPiece(n) PROVE Md5Inv'
    <3>. DEFINE p == [i \in 1..n |-> len + i]
                t == D!md5_append(D!State, p)
    <3>1. /\ HasTaken(D!State, D!Message(len)) /\ len' = len + n /\ ~digested'
          /\ len \in Nat /\ n \in Nat /\ len' \in Nat /\ D!Become(t)
      BY <2>3 DEF D!AppendPiece, Md5Inv, Md5Sizes
    <3>2. HasTaken(t, D!Message(len) \o p)
      BY <3>1, MessageIs, AppendIs
    <3>. HIDE DEF p, t
    <3>3. D!Message(len) \o p = D!Message(len')
      BY <3>1, MessageIs DEF p
    <3>4. HasTaken(D!State', D!Message(len'))
      BY <3>1, <3>2, <3>3, StateIs
    <3>5. QED BY <3>1, <3>4 DEF Md5Inv, D!DigestIsPadded, HasTaken, Md5States, D!State, D!Message
  <2>4. ASSUME NEW n \in Pieces, D!Whole(n) PROVE Md5Inv'
    <3>. DEFINE t == D!md5_append(D!md5_init, D!Message(n))
    <3>1. n \in Nat /\ len' = n /\ D!Become(D!md5_finish(t)) /\ (digested' <=> digested)
          /\ digested
      BY <2>4 DEF D!Whole, Md5Sizes
    <3>2. HasTaken(t, <<>> \o D!Message(n)) /\ <<>> \o D!Message(n) = D!Message(n)
      BY <3>1, MessageIs, StartIs, AppendIs, ConcatEmptySeq
    <3>. HIDE DEF t
    <3>3. D!DigestIsPadded'
      BY <3>1, <3>2, DigestIs
    <3>4. QED BY <3>1, <3>3 DEF Md5Inv
  <2>5. CASE UNCHANGED D!vars
    BY <2>5 DEF D!vars, Md5Inv, D!DigestIsPadded, HasTaken, Md5States, D!State, D!Message,
                D!Length, D!Mark
  <2>6. QED BY <2>1, <2>2, <2>3, <2>4, <2>5 DEF D!Next
<1>3. QED BY <1>1, <1>2, PTL DEF D!Spec

(* However the message was cut, what has been digested and what waits in   *)
(* the buffer are the message, each byte once and in its order.            *)
THEOREM NothingIsSkipped == ASSUME Md5Sizes PROVE D!Spec => []D!NothingSkipped
<1>1. Md5Inv => D!NothingSkipped
  <2>. SUFFICES ASSUME Md5Inv, ~digested
                PROVE  abcd \o SubSeq(buf, 1, D!Offset(D!State)) = D!Message(len)
    BY DEF D!NothingSkipped
  <2>1. HasTaken(D!State, D!Message(len))
    BY DEF Md5Inv
  <2>2. D!Offset(D!State) = Len(D!Message(len)) % BlockSize
    BY <2>1, OffsetIs
  <2>3. QED BY <2>1, <2>2 DEF HasTaken, D!State
<1>2. QED BY <1>1, Md5Invariance, PTL

(* The digest is that of the message, a mark, fewer than a block of zeros, *)
(* and its length in bits, for every way to cut the message.               *)
THEOREM DigestPads == ASSUME Md5Sizes PROVE D!Spec => []D!DigestIsPadded
<1>1. Md5Inv => D!DigestIsPadded
  BY DEF Md5Inv
<1>2. QED BY <1>1, Md5Invariance, PTL

-----------------------------------------------------------------------------
(* The rows as lists of nodes, laid out in a table and a heap.             *)
Laid(l, t, nd) ==
  /\ l \in [H!Rows -> Seq(H!Nodes)]
  /\ \A r \in H!Rows : \A i \in 1..Len(l[r]) :
       /\ nd[l[r][i]].next = IF i = Len(l[r]) THEN 0 ELSE l[r][i + 1]
       /\ nd[l[r][i]].prev = IF i = 1 THEN 0 ELSE l[r][i - 1]
  /\ \A r \in H!Rows : t[r] = IF Len(l[r]) = 0 THEN 0 ELSE l[r][1]
  /\ \A r, s \in H!Rows : \A i \in 1..Len(l[r]), j \in 1..Len(l[s]) :
       l[r][i] = l[s][j] => r = s /\ i = j
  /\ \A n \in H!Nodes :
       (\A r \in H!Rows : \A i \in 1..Len(l[r]) : l[r][i] # n) => nd[n].next = 0

(* HashMap's Chain, for any heap: the recursive function along the links.  *)
ChainOf(nd, first) ==
  LET from[n \in 0..Slots] == IF n = 0 THEN <<>> ELSE <<n>> \o from[nd[n].next]
  IN from[first]

(* What a recursive function along the links would be.                     *)
Follows(f, nd) ==
  f = [n \in 0..Slots |-> IF n = 0 THEN <<>> ELSE <<n>> \o f[nd[n].next]]

(* A list from its i-th node on.                                           *)
Onward(s, i) == [j \in 1..(Len(s) + 1 - i) |-> s[i + j - 1]]

(* The function's definition, which says no more than that it was chosen.  *)
LEMMA ChainIsChosen ==
  ASSUME NEW nd, NEW first
  PROVE  ChainOf(nd, first) = (CHOOSE f : Follows(f, nd))[first]
BY DEF ChainOf, Follows

(* A list from a node on is that node and what is behind it.               *)
LEMMA OnwardIs ==
  ASSUME NEW S, NEW s \in Seq(S), NEW i \in 1..Len(s)
  PROVE  /\ Onward(s, i) = <<s[i]>> \o Onward(s, i + 1)
         /\ Onward(s, i + 1) \in Seq(S)
         /\ Onward(s, Len(s) + 1) = <<>>
<1>1. Onward(s, i + 1) \in Seq(S)
  <2>1. \A j \in 1..(Len(s) + 1 - (i + 1)) : s[(i + 1) + j - 1] \in S
    OBVIOUS
  <2>2. Len(s) + 1 - (i + 1) \in Nat
    OBVIOUS
  <2>3. QED BY <2>1, <2>2, IsASeq DEF Onward
<1>2. <<s[i]>> \in Seq(S) /\ Len(<<s[i]>>) = 1 /\ <<s[i]>>[1] = s[i]
  OBVIOUS
<1>3. Onward(s, i) \in Seq(S)
  <2>1. \A j \in 1..(Len(s) + 1 - i) : s[i + j - 1] \in S
    OBVIOUS
  <2>2. QED BY <2>1, IsASeq DEF Onward
<1>4. Len(Onward(s, i + 1)) = Len(s) - i /\ Len(Onward(s, i)) = Len(s) + 1 - i
  BY <1>1, <1>3 DEF Onward
<1>. DEFINE o == Onward(s, i + 1)  p == Onward(s, i)  one == <<s[i]>>
<1>5. /\ \A j \in 1..(Len(s) - i) : o[j] = s[i + j]
      /\ \A j \in 1..(Len(s) + 1 - i) : p[j] = s[i + j - 1]
  BY DEF Onward
<1>6. one \o o = p
  <2>1. /\ o \in Seq(S) /\ p \in Seq(S) /\ one \in Seq(S)
        /\ Len(one) = 1 /\ one[1] = s[i]
        /\ Len(o) = Len(s) - i /\ Len(p) = Len(s) + 1 - i
    BY <1>1, <1>2, <1>3, <1>4
  <2>. HIDE DEF o, p, one
  <2>2a. /\ one \o o \in Seq(S) /\ Len(one \o o) = Len(one) + Len(o)
        /\ \A j \in 1..(Len(one) + Len(o)) :
             (one \o o)[j] = IF j <= Len(one) THEN one[j] ELSE o[j - Len(one)]
    BY <2>1, ConcatProperties
  <2>2. /\ one \o o \in Seq(S) /\ Len(one \o o) = 1 + Len(o)
        /\ \A j \in 1..(1 + Len(o)) : (one \o o)[j] = IF j <= 1 THEN one[j] ELSE o[j - 1]
    BY <2>1, <2>2a
  <2>3. Len(one \o o) = Len(p)
    BY <2>1, <2>2
  <2>4. ASSUME NEW j \in 1..Len(p) PROVE (one \o o)[j] = p[j]
    <3>1. CASE j = 1
      BY <3>1, <2>1, <2>2, <1>5
    <3>2. CASE j # 1
      <4>1. j - 1 \in 1..(Len(s) - i) /\ i + (j - 1) = i + j - 1
        BY <3>2, <2>1
      <4>2. (one \o o)[j] = o[j - 1]
        BY <3>2, <2>1, <2>2
      <4>3. QED BY <4>1, <4>2, <1>5, <2>1
    <3>3. QED BY <3>1, <3>2
  <2>5. QED BY <2>1, <2>2, <2>3, <2>4, SeqEqual
<1>7. Onward(s, Len(s) + 1) = <<>>
  BY DEF Onward
<1>. QED BY <1>1, <1>6, <1>7

(* The chain of a row is its list.                                         *)
LEMMA ChainIs ==
  ASSUME Slots \in Nat, NEW l, NEW t, NEW nd, Laid(l, t, nd), NEW r \in H!Rows
  PROVE  ChainOf(nd, t[r]) = l[r]
<1>. DEFINE
            Held == {n \in H!Nodes : \E q \in H!Rows : \E i \in 1..Len(l[q]) : l[q][i] = n}
            rowAt(n) == CHOOSE q \in H!Rows : \E i \in 1..Len(l[q]) : l[q][i] = n
            posAt(n) == CHOOSE i \in 1..Len(l[rowAt(n)]) : l[rowAt(n)][i] = n
            g == [n \in 0..Slots |-> IF n = 0 THEN <<>>
                                     ELSE IF n \in Held THEN Onward(l[rowAt(n)], posAt(n))
                                     ELSE <<n>>]
<1>1. \A q \in H!Rows : l[q] \in Seq(H!Nodes) /\ \A i \in 1..Len(l[q]) : l[q][i] \in H!Nodes
  BY DEF Laid
<1>2. ASSUME NEW q \in H!Rows, NEW i \in 1..Len(l[q])
      PROVE  g[l[q][i]] = Onward(l[q], i)
  <2>1. l[q][i] \in Held /\ l[q][i] \in 0..Slots /\ l[q][i] # 0
    BY <1>1 DEF H!Nodes
  <2>2. rowAt(l[q][i]) = q
    BY DEF Laid
  <2>3. posAt(l[q][i]) = i
    BY <2>2 DEF Laid
  <2>. HIDE DEF rowAt, posAt, Held
  <2>4. QED BY <2>1, <2>2, <2>3
<1>3. ASSUME NEW q \in H!Rows, NEW i \in 1..Len(l[q])
      PROVE  Onward(l[q], i) = <<l[q][i]>> \o g[nd[l[q][i]].next]
  <2>1. Onward(l[q], i) = <<l[q][i]>> \o Onward(l[q], i + 1) /\ Onward(l[q], Len(l[q]) + 1) = <<>>
    BY <1>1, OnwardIs
  <2>2. CASE i = Len(l[q])
    <3>1. nd[l[q][i]].next = 0 /\ g[0] = <<>>
      BY <2>2 DEF Laid
    <3>. HIDE DEF g
    <3>2. QED BY <2>1, <2>2, <3>1
  <2>3. CASE i # Len(l[q])
    <3>1. nd[l[q][i]].next = l[q][i + 1] /\ i + 1 \in 1..Len(l[q])
      BY <2>3, <1>1 DEF Laid
    <3>2. g[l[q][i + 1]] = Onward(l[q], i + 1)
      BY <3>1, <1>2
    <3>. HIDE DEF g
    <3>3. QED BY <2>1, <3>1, <3>2
  <2>4. QED BY <2>2, <2>3
<1>4. Follows(g, nd)
  <2>1. ASSUME NEW n \in 0..Slots
        PROVE  g[n] = IF n = 0 THEN <<>> ELSE <<n>> \o g[nd[n].next]
    <3>1. CASE n = 0
      BY <3>1
    <3>2. CASE n \in Held
      <4>1. PICK q \in H!Rows : \E i \in 1..Len(l[q]) : l[q][i] = n
        BY <3>2
      <4>2. PICK i \in 1..Len(l[q]) : l[q][i] = n
        BY <4>1
      <4>3. n # 0
        BY <3>2 DEF H!Nodes
      <4>. HIDE DEF g
      <4>4. QED BY <4>2, <4>3, <1>2, <1>3
    <3>3. CASE n # 0 /\ n \notin Held
      <4>1. nd[n].next = 0 /\ g[0] = <<>>
        <5>1. n \in H!Nodes
          BY <3>3 DEF H!Nodes
        <5>2. \A q \in H!Rows : \A i \in 1..Len(l[q]) : l[q][i] # n
          BY <5>1, <3>3
        <5>3. nd[n].next = 0
          <6>. HIDE DEF g
          <6>1. QED BY <5>1, <5>2 DEF Laid
        <5>4. 0 \in 0..Slots
          OBVIOUS
        <5>. HIDE DEF Held, rowAt, posAt
        <5>5. QED BY <5>3, <5>4
      <4>2. g[n] = <<n>>
        <5>. HIDE DEF Held, rowAt, posAt
        <5>1. QED BY <3>3
      <4>. HIDE DEF g
      <4>3. <<n>> \o <<>> = <<n>>
        <5>1. <<n>> \in Seq(0..Slots)
          OBVIOUS
        <5>2. QED BY <5>1, ConcatEmptySeq
      <4>4. QED BY <4>1, <4>2, <4>3, <3>3
    <3>4. QED BY <3>1, <3>2, <3>3
  <2>2. g = [n \in 0..Slots |-> g[n]]
    OBVIOUS
  <2>. HIDE DEF g
  <2>3. QED BY <2>1, <2>2 DEF Follows
<1>. HIDE DEF g
<1>. DEFINE f == CHOOSE f : Follows(f, nd)
<1>5. Follows(f, nd)
  BY <1>4
<1>. HIDE DEF f
<1>6. ASSUME NEW i \in 1..Len(l[r]) PROVE f[l[r][i]] = Onward(l[r], i)
  <2>. DEFINE Bad == {j \in 1..Len(l[r]) : f[l[r][j]] # Onward(l[r], j)}
  <2>1. SUFFICES ASSUME Bad # {} PROVE FALSE
    OBVIOUS
  <2>2. Len(l[r]) \in Nat
    BY <1>1
  <2>3a. Bad \subseteq Nat /\ \A k \in Bad : k <= Len(l[r])
    BY <2>2
  <2>3. PICK m \in Bad : \A k \in Bad : k <= m
    <3>. HIDE DEF Bad
    <3>1. QED BY <2>1, <2>2, <2>3a, Greatest
  <2>4. m \in 1..Len(l[r]) /\ f[l[r][m]] # Onward(l[r], m)
    OBVIOUS
  <2>5. f[l[r][m]] = <<l[r][m]>> \o f[nd[l[r][m]].next]
    <3>1. l[r][m] \in 0..Slots /\ l[r][m] # 0
      BY <1>1, <2>4 DEF H!Nodes
    <3>. DEFINE n == l[r][m]
    <3>. HIDE DEF n
    <3>2. f[n] = <<n>> \o f[nd[n].next]
      BY <3>1, <1>5 DEF Follows, n
    <3>3. QED BY <3>2 DEF n
  <2>6. Onward(l[r], m) = <<l[r][m]>> \o Onward(l[r], m + 1) /\ Onward(l[r], Len(l[r]) + 1) = <<>>
    BY <1>1, <2>4, OnwardIs
  <2>7. CASE m = Len(l[r])
    <3>1. nd[l[r][m]].next = 0 /\ f[0] = <<>>
      BY <2>7, <2>4, <1>5 DEF Laid, Follows
    <3>2. QED BY <2>4, <2>5, <2>6, <2>7, <3>1
  <2>8. CASE m # Len(l[r])
    <3>1. nd[l[r][m]].next = l[r][m + 1] /\ m + 1 \in 1..Len(l[r]) /\ ~(m + 1 <= m)
      BY <2>8, <2>4, <2>2 DEF Laid
    <3>2. f[l[r][m + 1]] = Onward(l[r], m + 1)
      BY <3>1, <2>3
    <3>3. QED BY <2>4, <2>5, <2>6, <3>1, <3>2
  <2>9. QED BY <2>7, <2>8
<1>7. CASE Len(l[r]) = 0
  <2>1. t[r] = 0 /\ f[0] = <<>> /\ l[r] = <<>>
    BY <1>1, <1>5, <1>7, EmptySeq DEF Laid, Follows
  <2>2. QED BY <2>1, ChainIsChosen DEF f
<1>8. CASE Len(l[r]) # 0
  <2>1. t[r] = l[r][1] /\ 1 \in 1..Len(l[r])
    BY <1>1, <1>8 DEF Laid
  <2>2. Onward(l[r], 1) = l[r]
    <3>1. l[r] = [j \in 1..Len(l[r]) |-> l[r][j]]
      BY <1>1
    <3>2. Len(l[r]) \in Nat /\ Len(l[r]) + 1 - 1 = Len(l[r]) /\ \A j \in 1..Len(l[r]) : 1 + j - 1 = j
      BY <1>1
    <3>3. QED BY <3>1, <3>2 DEF Onward
  <2>3. QED BY <1>6, <2>1, <2>2, ChainIsChosen DEF f
<1>9. QED BY <1>7, <1>8

(* A node put in front of a row's list, and one taken out of it.           *)
Front(l, r, n) ==
  [l EXCEPT ![r] = [j \in 1..(Len(l[r]) + 1) |-> IF j = 1 THEN n ELSE l[r][j - 1]]]
Without(l, r, i) ==
  [l EXCEPT ![r] = [j \in 1..(Len(l[r]) - 1) |-> IF j < i THEN l[r][j] ELSE l[r][j + 1]]]

(* What is needed of the two, without the functions that make them.        *)
IsFront(k, l, r, n) ==
  /\ k \in [H!Rows -> Seq(H!Nodes)]
  /\ \A q \in H!Rows \ {r} : k[q] = l[q]
  /\ Len(k[r]) = Len(l[r]) + 1 /\ k[r][1] = n
  /\ \A j \in 1..Len(l[r]) : k[r][j + 1] = l[r][j]

IsWithout(k, l, r, i) ==
  /\ k \in [H!Rows -> Seq(H!Nodes)]
  /\ \A q \in H!Rows \ {r} : k[q] = l[q]
  /\ Len(k[r]) = Len(l[r]) - 1
  /\ \A j \in 1..(Len(l[r]) - 1) : k[r][j] = IF j < i THEN l[r][j] ELSE l[r][j + 1]

(* A node put in front gives a list that has it first.                     *)
LEMMA FrontIs ==
  ASSUME NEW l \in [H!Rows -> Seq(H!Nodes)], NEW r \in H!Rows, NEW n \in H!Nodes
  PROVE  IsFront(Front(l, r, n), l, r, n)
<1>. DEFINE f == [j \in 1..(Len(l[r]) + 1) |-> IF j = 1 THEN n ELSE l[r][j - 1]]
<1>1. l[r] \in Seq(H!Nodes) /\ Len(l[r]) \in Nat
  OBVIOUS
<1>2. ASSUME NEW j \in 1..(Len(l[r]) + 1) PROVE (IF j = 1 THEN n ELSE l[r][j - 1]) \in H!Nodes
  BY <1>1, ElementOfSeq
<1>3. f \in [1..(Len(l[r]) + 1) -> H!Nodes]
  BY <1>2
<1>4. f \in Seq(H!Nodes) /\ Len(f) = Len(l[r]) + 1
  <2>1. Len(l[r]) + 1 \in Nat
    BY <1>1
  <2>. HIDE DEF f
  <2>2. QED BY <2>1, <1>3, FunctionIsSeq
<1>5. f[1] = n /\ \A j \in 1..Len(l[r]) : f[j + 1] = l[r][j]
  BY <1>1
<1>6. Front(l, r, n) = [l EXCEPT ![r] = f]
  BY DEF Front
<1>. HIDE DEF f
<1>7. QED BY <1>4, <1>5, <1>6 DEF IsFront

(* A node taken out gives a list without its place.                        *)
LEMMA WithoutIs ==
  ASSUME NEW l \in [H!Rows -> Seq(H!Nodes)], NEW r \in H!Rows, NEW i \in 1..Len(l[r])
  PROVE  IsWithout(Without(l, r, i), l, r, i)
<1>. DEFINE f == [j \in 1..(Len(l[r]) - 1) |-> IF j < i THEN l[r][j] ELSE l[r][j + 1]]
<1>1. l[r] \in Seq(H!Nodes) /\ Len(l[r]) \in Nat
  OBVIOUS
<1>2. ASSUME NEW j \in 1..(Len(l[r]) - 1)
      PROVE  (IF j < i THEN l[r][j] ELSE l[r][j + 1]) \in H!Nodes
  BY <1>1, ElementOfSeq
<1>3. f \in [1..(Len(l[r]) - 1) -> H!Nodes]
  BY <1>2
<1>4. f \in Seq(H!Nodes) /\ Len(f) = Len(l[r]) - 1
  <2>1. Len(l[r]) - 1 \in Nat
    BY <1>1
  <2>. HIDE DEF f
  <2>2. QED BY <2>1, <1>3, FunctionIsSeq
<1>5. \A j \in 1..(Len(l[r]) - 1) : f[j] = IF j < i THEN l[r][j] ELSE l[r][j + 1]
  BY <1>1
<1>6. Without(l, r, i) = [l EXCEPT ![r] = f]
  BY DEF Without
<1>. HIDE DEF f
<1>7. QED BY <1>4, <1>5, <1>6 DEF IsWithout

(* The links after a node is put in front.                                 *)
LEMMA FrontLaid ==
  ASSUME NEW l, NEW t, NEW nd, Laid(l, t, nd), t \in [H!Rows -> 0..Slots],
         NEW r \in H!Rows, NEW n \in H!Nodes,
         \A q \in H!Rows : \A i \in 1..Len(l[q]) : l[q][i] # n,
         NEW t2, t2 = [t EXCEPT ![r] = n], NEW nd2,
         \A m \in H!Nodes : nd2[m].next = IF m = n THEN t[r] ELSE nd[m].next,
         \A m \in H!Nodes : nd2[m].prev = IF m = n THEN 0 ELSE IF m = t[r] THEN n ELSE nd[m].prev
  PROVE  Laid(Front(l, r, n), t2, nd2)
<1>. DEFINE k == Front(l, r, n)
<1>1. /\ l \in [H!Rows -> Seq(H!Nodes)]
      /\ \A q \in H!Rows : Len(l[q]) \in Nat /\ \A i \in 1..Len(l[q]) : l[q][i] \in H!Nodes
  BY DEF Laid
<1>2. /\ k \in [H!Rows -> Seq(H!Nodes)]
      /\ \A q \in H!Rows \ {r} : k[q] = l[q]
      /\ Len(k[r]) = Len(l[r]) + 1 /\ k[r][1] = n
      /\ \A j \in 1..Len(l[r]) : k[r][j + 1] = l[r][j]
  <2>1. l \in [H!Rows -> Seq(H!Nodes)]
    BY <1>1
  <2>2. IsFront(k, l, r, n)
    BY <2>1, FrontIs
  <2>. HIDE DEF k
  <2>3. QED BY <2>2 DEF IsFront
<1>. HIDE DEF k
<1>3. \A j \in 2..Len(k[r]) : j - 1 \in 1..Len(l[r]) /\ k[r][j] = l[r][j - 1]
  <2>. SUFFICES ASSUME NEW j \in 2..Len(k[r])
                PROVE  j - 1 \in 1..Len(l[r]) /\ k[r][j] = l[r][j - 1]
    OBVIOUS
  <2>1. j - 1 \in 1..Len(l[r]) /\ (j - 1) + 1 = j
    BY <1>1, <1>2
  <2>2. QED BY <2>1, <1>2
<1>4. \A q \in H!Rows : \A i \in 1..Len(k[q]) :
        \/ q = r /\ i = 1 /\ k[q][i] = n
        \/ q = r /\ i \in 2..Len(k[r]) /\ k[q][i] = l[r][i - 1] /\ i - 1 \in 1..Len(l[r])
        \/ q # r /\ k[q] = l[q]
  BY <1>1, <1>2, <1>3
<1>5. \A q, s \in H!Rows : \A i \in 1..Len(k[q]), j \in 1..Len(k[s]) :
        k[q][i] = k[s][j] => q = s /\ i = j
  <2>. SUFFICES ASSUME NEW q \in H!Rows, NEW s \in H!Rows, NEW i \in 1..Len(k[q]),
                       NEW j \in 1..Len(k[s]), k[q][i] = k[s][j]
                PROVE  q = s /\ i = j
    OBVIOUS
  <2>1. CASE q = r /\ i = 1
    BY <2>1, <1>4
  <2>2. CASE q = r /\ i \in 2..Len(k[r]) /\ k[q][i] = l[r][i - 1] /\ i - 1 \in 1..Len(l[r])
    <3>1. CASE s = r /\ j = 1
      BY <2>2, <3>1, <1>4
    <3>2. CASE s = r /\ j \in 2..Len(k[r]) /\ k[s][j] = l[r][j - 1] /\ j - 1 \in 1..Len(l[r])
      <4>1. i - 1 = j - 1
        BY <2>2, <3>2 DEF Laid
      <4>2. QED BY <4>1, <2>2, <3>2
    <3>3. CASE s # r /\ k[s] = l[s]
      BY <2>2, <3>3 DEF Laid
    <3>4. QED BY <3>1, <3>2, <3>3, <1>4
  <2>3. CASE q # r /\ k[q] = l[q]
    <3>1. CASE s = r /\ j = 1
      BY <2>3, <3>1, <1>4
    <3>2. CASE s = r /\ j \in 2..Len(k[r]) /\ k[s][j] = l[r][j - 1] /\ j - 1 \in 1..Len(l[r])
      BY <2>3, <3>2 DEF Laid
    <3>3. CASE s # r /\ k[s] = l[s]
      BY <2>3, <3>3 DEF Laid
    <3>4. QED BY <3>1, <3>2, <3>3, <1>4
  <2>4. QED BY <2>1, <2>2, <2>3, <1>4
<1>6. \A q \in H!Rows : t2[q] = IF Len(k[q]) = 0 THEN 0 ELSE k[q][1]
  <2>. SUFFICES ASSUME NEW q \in H!Rows
                PROVE  t2[q] = IF Len(k[q]) = 0 THEN 0 ELSE k[q][1]
    OBVIOUS
  <2>1. CASE q = r
    BY <2>1, <1>1, <1>2
  <2>2. CASE q # r
    BY <2>2, <1>2 DEF Laid
  <2>3. QED BY <2>1, <2>2
<1>7. ASSUME NEW q \in H!Rows, NEW i \in 1..Len(k[q])
      PROVE  /\ nd2[k[q][i]].next = IF i = Len(k[q]) THEN 0 ELSE k[q][i + 1]
             /\ nd2[k[q][i]].prev = IF i = 1 THEN 0 ELSE k[q][i - 1]
  <2>1. CASE q = r /\ i = 1 /\ k[q][i] = n
    <3>1. nd2[n].next = t[r] /\ nd2[n].prev = 0
      OBVIOUS
    <3>2. t[r] = IF Len(l[r]) = 0 THEN 0 ELSE l[r][1]
      BY DEF Laid
    <3>3. Len(l[r]) # 0 => k[r][2] = l[r][1]
      <4>1. Len(l[r]) # 0 => 1 \in 1..Len(l[r])
        BY <1>1
      <4>2. 1 + 1 = 2
        OBVIOUS
      <4>3. QED BY <4>1, <4>2, <1>2
    <3>4. QED BY <2>1, <3>1, <3>2, <3>3, <1>1, <1>2
  <2>2. CASE q = r /\ i \in 2..Len(k[r]) /\ k[q][i] = l[r][i - 1] /\ i - 1 \in 1..Len(l[r])
    <3>1. nd2[k[q][i]].next = IF i = Len(k[q]) THEN 0 ELSE k[q][i + 1]
      <4>1. nd2[l[r][i - 1]].next = IF i - 1 = Len(l[r]) THEN 0 ELSE l[r][(i - 1) + 1]
        BY <1>1, <2>2 DEF Laid
      <4>2. CASE i = Len(k[r])
        BY <4>1, <4>2, <2>2, <1>1, <1>2
      <4>3. CASE i # Len(k[r])
        <5>1. i \in 1..Len(l[r]) /\ (i - 1) + 1 = i
          BY <4>3, <2>2, <1>1, <1>2
        <5>2. QED BY <4>1, <4>3, <5>1, <2>2, <1>1, <1>2
      <4>4. QED BY <4>2, <4>3
    <3>2. nd2[k[q][i]].prev = k[q][i - 1]
      <4>1. CASE i = 2
        <5>1. t[r] = l[r][1]
          BY <2>2, <4>1, <1>1 DEF Laid
        <5>2. l[r][1] # n /\ l[r][1] \in H!Nodes
          BY <2>2, <4>1, <1>1
        <5>3. nd2[l[r][1]].prev = n
          BY <5>1, <5>2
        <5>4. QED BY <5>3, <4>1, <2>2, <1>2
      <4>2. CASE i # 2
        <5>1. i - 1 \in 2..Len(l[r]) /\ (i - 1) - 1 = i - 2 /\ i - 2 \in 1..Len(l[r]) /\ (i - 2) + 1 = i - 1
          BY <2>2, <4>2, <1>1
        <5>2. l[r][i - 1] # t[r]
          BY <5>1, <2>2, <1>1 DEF Laid
        <5>3. nd2[l[r][i - 1]].prev = l[r][i - 2]
          <6>1. nd[l[r][i - 1]].prev = l[r][i - 2]
            BY <5>1, <2>2 DEF Laid
          <6>2. l[r][i - 1] # n /\ l[r][i - 1] \in H!Nodes
            BY <2>2, <1>1
          <6>3. QED BY <6>1, <6>2, <5>2
        <5>4. k[r][i - 1] = l[r][i - 2]
          BY <5>1, <1>2
        <5>5. QED BY <5>3, <5>4, <2>2
      <4>3. QED BY <4>1, <4>2
    <3>3. QED BY <3>1, <3>2, <2>2
  <2>3. CASE q # r /\ k[q] = l[q]
    <3>1. l[q][i] # n /\ l[q][i] \in H!Nodes /\ i \in 1..Len(l[q])
      BY <2>3, <1>1
    <3>2. l[q][i] # t[r]
      <4>1. CASE Len(l[r]) = 0
        <5>1. t[r] = 0
          BY <4>1 DEF Laid
        <5>2. QED BY <5>1, <3>1 DEF H!Nodes
      <4>2. CASE Len(l[r]) # 0
        <5>1. t[r] = l[r][1] /\ 1 \in 1..Len(l[r])
          BY <4>2, <1>1 DEF Laid
        <5>2. QED BY <5>1, <3>1, <2>3 DEF Laid
      <4>3. QED BY <4>1, <4>2
    <3>3. nd2[l[q][i]].next = nd[l[q][i]].next /\ nd2[l[q][i]].prev = nd[l[q][i]].prev
      BY <3>1, <3>2
    <3>4. QED BY <3>1, <3>3, <2>3 DEF Laid
  <2>4. QED BY <2>1, <2>2, <2>3, <1>4
<1>8. ASSUME NEW m \in H!Nodes, \A q \in H!Rows : \A i \in 1..Len(k[q]) : k[q][i] # m
      PROVE  nd2[m].next = 0
  <2>1. m # n
    BY <1>8, <1>1, <1>2
  <2>2. ASSUME NEW q \in H!Rows, NEW i \in 1..Len(l[q]) PROVE l[q][i] # m
    <3>1. CASE q = r
      <4>1. i + 1 \in 1..Len(k[r]) /\ k[r][i + 1] = l[r][i]
        BY <3>1, <1>1, <1>2
      <4>2. QED BY <4>1, <3>1, <1>8
    <3>2. CASE q # r
      BY <3>2, <1>2, <1>8
    <3>3. QED BY <3>1, <3>2
  <2>3. nd[m].next = 0
    BY <2>2 DEF Laid
  <2>4. QED BY <2>1, <2>3
<1>9. QED BY <1>2, <1>5, <1>6, <1>7, <1>8 DEF Laid, k

(* The links after node n, which stands at l[r][i], is taken out.          *)
UnlinkedFrom(t, nd, t2, nd2, l, r, i, n) ==
  /\ n = l[r][i]
  /\ t2 = IF nd[n].prev # 0 THEN t ELSE [t EXCEPT ![r] = nd[n].next]
  /\ \A m \in H!Nodes : nd2[m].next = IF m = n THEN 0
                             ELSE IF m = nd[n].prev THEN nd[n].next ELSE nd[m].next
  /\ \A m \in H!Nodes : nd2[m].prev = IF m = n THEN 0
                             ELSE IF m = nd[n].next THEN nd[n].prev ELSE nd[m].prev

(* HashMap's LinkedOut and the row's new head lay out the list without it. *)
LEMMA WithoutLaid ==
  ASSUME NEW l, NEW t, NEW nd, Laid(l, t, nd), t \in [H!Rows -> 0..Slots],
         NEW r \in H!Rows, NEW i \in 1..Len(l[r]), NEW n, NEW t2, NEW nd2,
         UnlinkedFrom(t, nd, t2, nd2, l, r, i, n)
  PROVE  Laid(Without(l, r, i), t2, nd2)
<1>. USE DEF UnlinkedFrom
<1>. DEFINE k == Without(l, r, i)
<1>1. /\ l \in [H!Rows -> Seq(H!Nodes)]
      /\ \A q \in H!Rows : Len(l[q]) \in Nat /\ \A j \in 1..Len(l[q]) : l[q][j] \in H!Nodes
  BY DEF Laid
<1>2. /\ k \in [H!Rows -> Seq(H!Nodes)]
      /\ \A q \in H!Rows \ {r} : k[q] = l[q]
      /\ Len(k[r]) = Len(l[r]) - 1
      /\ \A j \in 1..(Len(l[r]) - 1) : k[r][j] = IF j < i THEN l[r][j] ELSE l[r][j + 1]
  <2>1. l \in [H!Rows -> Seq(H!Nodes)]
    BY <1>1
  <2>2. IsWithout(k, l, r, i)
    BY <2>1, WithoutIs
  <2>. HIDE DEF k
  <2>3. QED BY <2>2 DEF IsWithout
<1>. HIDE DEF k
(* Where the nodes of the new list were, and that this keeps them apart.   *)
<1>. DEFINE old(q, j) == IF q = r /\ j >= i THEN j + 1 ELSE j
<1>3. \A q \in H!Rows : \A j \in 1..Len(k[q]) :
        old(q, j) \in 1..Len(l[q]) /\ k[q][j] = l[q][old(q, j)] /\ ~(q = r /\ old(q, j) = i)
  <2>. SUFFICES ASSUME NEW q \in H!Rows, NEW j \in 1..Len(k[q])
                PROVE  old(q, j) \in 1..Len(l[q]) /\ k[q][j] = l[q][old(q, j)]
                       /\ ~(q = r /\ old(q, j) = i)
    OBVIOUS
  <2>1. CASE q = r
    <3>1. j \in 1..(Len(l[r]) - 1)
      BY <2>1, <1>2
    <3>2. QED BY <2>1, <3>1, <1>1, <1>2
  <2>2. CASE q # r
    BY <2>2, <1>2
  <2>3. QED BY <2>1, <2>2
<1>4. ASSUME NEW q \in H!Rows, NEW s \in H!Rows, NEW a \in 1..Len(k[q]),
             NEW b \in 1..Len(k[s]), k[q][a] = k[s][b]
      PROVE  q = s /\ a = b
  <2>1. q = s /\ old(q, a) = old(s, b)
    <3>. HIDE DEF old
    <3>1. old(q, a) \in 1..Len(l[q]) /\ k[q][a] = l[q][old(q, a)]
      BY <1>3
    <3>2. old(s, b) \in 1..Len(l[s]) /\ k[s][b] = l[s][old(s, b)]
      BY <1>3
    <3>. DEFINE a1 == old(q, a)  b1 == old(s, b)
    <3>3. l[q][a1] = l[s][b1] /\ a1 \in 1..Len(l[q]) /\ b1 \in 1..Len(l[s])
      BY <3>1, <3>2, <1>4
    <3>. HIDE DEF a1, b1
    <3>4. q = s /\ a1 = b1
      BY <3>3 DEF Laid
    <3>5. QED BY <3>4 DEF a1, b1
  <2>2. Len(k[q]) \in Nat /\ Len(k[s]) \in Nat
    BY <1>2
  <2>3. QED BY <2>1, <2>2
<1>5. n \in H!Nodes /\ n # 0 /\ 0 \notin H!Nodes
  BY <1>1 DEF H!Nodes
<1>6. nd[n].next = (IF i = Len(l[r]) THEN 0 ELSE l[r][i + 1]) /\ nd[n].prev = (IF i = 1 THEN 0 ELSE l[r][i - 1])
  BY DEF Laid
<1>7. ASSUME NEW q \in H!Rows
      PROVE  t2[q] = IF Len(k[q]) = 0 THEN 0 ELSE k[q][1]
  <2>1. CASE q # r
    <3>1. t2[q] = t[q] /\ k[q] = l[q]
      BY <2>1, <1>2
    <3>2. QED BY <3>1 DEF Laid
  <2>2. CASE q = r /\ i = 1
    <3>1. nd[n].prev = 0 /\ t2[r] = nd[n].next
      BY <2>2, <1>6
    <3>2. CASE Len(l[r]) = 1
      BY <3>1, <3>2, <2>2, <1>2, <1>6
    <3>3. CASE Len(l[r]) # 1
      <4>1. 1 \in 1..(Len(l[r]) - 1)
        <5>1. Len(l[r]) \in Nat /\ Len(l[r]) # 0 /\ Len(l[r]) # 1
          BY <3>3, <1>1
        <5>2. \A x \in Nat : x # 0 /\ x # 1 => 1 \in 1..(x - 1)
          OBVIOUS
        <5>3. QED BY <5>1, <5>2
      <4>2. k[r][1] = l[r][1 + 1] /\ Len(k[r]) # 0
        BY <4>1, <2>2, <1>1, <1>2
      <4>3. t2[r] = l[r][1 + 1]
        BY <3>1, <3>3, <2>2, <1>6
      <4>4. QED BY <4>2, <4>3, <2>2
    <3>4. QED BY <3>2, <3>3
  <2>3. CASE q = r /\ i # 1
    <3>1. i - 1 \in 1..Len(l[r]) /\ Len(l[r]) # 0 /\ 1 \in 1..(Len(l[r]) - 1) /\ 1 < i
      BY <2>3, <1>1
    <3>2. nd[n].prev # 0
      <4>1. l[r][i - 1] \in H!Nodes
        BY <3>1, <1>1
      <4>2. QED BY <4>1, <2>3, <1>5, <1>6
    <3>3. t2[r] = l[r][1]
      BY <3>1, <3>2 DEF Laid
    <3>4. k[r][1] = l[r][1] /\ Len(k[r]) # 0
      BY <3>1, <1>1, <1>2
    <3>5. QED BY <3>3, <3>4, <2>3
  <2>4. QED BY <2>1, <2>2, <2>3
<1>8. ASSUME NEW q \in H!Rows, NEW j \in 1..Len(k[q])
      PROVE  nd2[k[q][j]].next = IF j = Len(k[q]) THEN 0 ELSE k[q][j + 1]
  <2>. DEFINE m == l[q][old(q, j)]
  <2>1. m \in H!Nodes /\ m # n /\ k[q][j] = m /\ old(q, j) \in 1..Len(l[q])
    <3>. HIDE DEF old
    <3>1. QED BY <1>1, <1>3 DEF Laid
  <2>2. nd[m].next = IF old(q, j) = Len(l[q]) THEN 0 ELSE l[q][old(q, j) + 1]
    <3>. HIDE DEF old
    <3>1. QED BY <2>1 DEF Laid
  <2>3. m = nd[n].prev <=> i # 1 /\ q = r /\ old(q, j) = i - 1
    <3>. HIDE DEF old
    <3>1. CASE i = 1
      BY <3>1, <1>6, <2>1, <1>5
    <3>2. CASE i # 1
      <4>1. i - 1 \in 1..Len(l[r]) /\ nd[n].prev = l[r][i - 1]
        BY <3>2, <1>1, <1>6
      <4>2. QED BY <4>1, <3>2, <2>1 DEF Laid
    <3>3. QED BY <3>1, <3>2
  <2>4. CASE m = nd[n].prev
    <3>1. q = r /\ j = i - 1 /\ i # 1
      BY <2>3, <2>4, <1>1
    <3>2. nd2[m].next = nd[n].next
      <4>. HIDE DEF m
      <4>1. QED BY <2>1, <2>4
    <3>3. CASE i = Len(l[r])
      <4>1. j = Len(k[r])
        BY <3>1, <3>3, <1>1, <1>2
      <4>2. QED BY <4>1, <3>1, <3>2, <3>3, <1>6, <2>1
    <3>4. CASE i # Len(l[r])
      <4>1. j # Len(k[r]) /\ i \in 1..(Len(l[r]) - 1) /\ j + 1 = i
        BY <3>1, <3>4, <1>1, <1>2
      <4>2. k[r][i] = l[r][i + 1]
        BY <4>1, <1>2
      <4>3. QED BY <4>1, <4>2, <3>1, <3>2, <3>4, <1>6, <2>1
    <3>5. QED BY <3>3, <3>4
  <2>5. CASE m # nd[n].prev
    <3>1. nd2[m].next = nd[m].next
      <4>. HIDE DEF m
      <4>1. QED BY <2>1, <2>5
    <3>2. CASE q # r
      BY <3>1, <3>2, <2>1, <2>2, <1>2
    <3>3. CASE q = r
      <4>1. j \in 1..(Len(l[r]) - 1)
        BY <3>3, <1>2
      <4>2. old(q, j) # i - 1
        <5>1. i = 1 => old(q, j) # 0
          BY <2>1
        <5>. HIDE DEF old, m
        <5>2. QED BY <5>1, <2>3, <2>5, <3>3
      <4>3. CASE j = Len(k[q])
        <5>1. old(q, j) = Len(l[q])
          BY <4>1, <4>2, <4>3, <3>3, <1>1, <1>2
        <5>2. QED BY <5>1, <4>3, <3>1, <2>1, <2>2
      <4>4. CASE j # Len(k[q])
        <5>1. j + 1 \in 1..Len(k[q]) /\ old(q, j + 1) = old(q, j) + 1 /\ old(q, j) # Len(l[q])
          BY <4>1, <4>2, <4>4, <3>3, <1>1, <1>2
        <5>2. k[q][j + 1] = l[q][old(q, j) + 1]
          <6>. HIDE DEF old
          <6>1. QED BY <5>1, <1>3
        <5>3. QED BY <5>1, <5>2, <4>4, <3>1, <2>1, <2>2
      <4>5. QED BY <4>3, <4>4
    <3>4. QED BY <3>2, <3>3
  <2>6. QED BY <2>4, <2>5
<1>9. ASSUME NEW q \in H!Rows, NEW j \in 1..Len(k[q])
      PROVE  nd2[k[q][j]].prev = IF j = 1 THEN 0 ELSE k[q][j - 1]
  <2>. DEFINE m == l[q][old(q, j)]
  <2>1. m \in H!Nodes /\ m # n /\ k[q][j] = m /\ old(q, j) \in 1..Len(l[q])
    <3>. HIDE DEF old
    <3>1. QED BY <1>1, <1>3 DEF Laid
  <2>2. nd[m].prev = IF old(q, j) = 1 THEN 0 ELSE l[q][old(q, j) - 1]
    <3>. HIDE DEF old
    <3>1. QED BY <2>1 DEF Laid
  <2>3. m = nd[n].next <=> i # Len(l[r]) /\ q = r /\ old(q, j) = i + 1
    <3>. HIDE DEF old
    <3>1. CASE i = Len(l[r])
      BY <3>1, <1>6, <2>1, <1>5
    <3>2. CASE i # Len(l[r])
      <4>1. i + 1 \in 1..Len(l[r]) /\ nd[n].next = l[r][i + 1]
        BY <3>2, <1>1, <1>6
      <4>2. QED BY <4>1, <3>2, <2>1 DEF Laid
    <3>3. QED BY <3>1, <3>2
  <2>4. CASE m = nd[n].next
    <3>1. q = r /\ j = i
      BY <2>3, <2>4, <1>1
    <3>2. nd2[m].prev = nd[n].prev
      <4>. HIDE DEF m
      <4>1. QED BY <2>1, <2>4
    <3>3. CASE i = 1
      BY <3>1, <3>2, <3>3, <1>6, <2>1
    <3>4. CASE i # 1
      <4>1. i - 1 \in 1..(Len(l[r]) - 1) /\ i - 1 < i
        BY <3>4, <1>1
      <4>2. k[r][i - 1] = l[r][i - 1]
        BY <4>1, <1>2
      <4>3. QED BY <4>2, <3>1, <3>2, <3>4, <1>6, <2>1
    <3>5. QED BY <3>3, <3>4
  <2>5. CASE m # nd[n].next
    <3>1. nd2[m].prev = nd[m].prev
      <4>. HIDE DEF m
      <4>1. QED BY <2>1, <2>5
    <3>2. CASE q # r
      BY <3>1, <3>2, <2>1, <2>2, <1>2
    <3>3. CASE q = r
      <4>1. j \in 1..(Len(l[r]) - 1) /\ Len(l[r]) \in Nat
        BY <3>3, <1>1, <1>2
      <4>2. j # i
        <5>1. i # Len(l[r]) \/ j # i
          BY <4>1
        <5>2. CASE i # Len(l[r])
          <6>1. old(q, j) # i + 1
            <7>. HIDE DEF old, m
            <7>1. QED BY <5>2, <2>3, <2>5, <3>3
          <6>2. QED BY <6>1, <3>3
        <5>3. QED BY <5>1, <5>2
      <4>3. CASE j = 1
        <5>1. old(q, j) = 1
          BY <4>1, <4>2, <4>3
        <5>2. QED BY <5>1, <4>3, <3>1, <2>1, <2>2
      <4>4. CASE j # 1
        <5>1. j - 1 \in 1..Len(k[q]) /\ old(q, j - 1) = old(q, j) - 1 /\ old(q, j) # 1
          BY <4>1, <4>2, <4>4, <3>3, <1>1, <1>2
        <5>2. k[q][j - 1] = l[q][old(q, j) - 1]
          <6>. HIDE DEF old
          <6>1. QED BY <5>1, <1>3
        <5>3. QED BY <5>1, <5>2, <4>4, <3>1, <2>1, <2>2
      <4>5. QED BY <4>3, <4>4
    <3>4. QED BY <3>2, <3>3
  <2>6. QED BY <2>4, <2>5
<1>10. ASSUME NEW m \in H!Nodes, \A q \in H!Rows : \A j \in 1..Len(k[q]) : k[q][j] # m
       PROVE  nd2[m].next = 0
  <2>1. CASE m = n
    BY <2>1
  <2>2. CASE m # n
    <3>1. ASSUME NEW q \in H!Rows, NEW j \in 1..Len(l[q]) PROVE l[q][j] # m
      <4>1. CASE q # r
        BY <4>1, <1>2, <1>10
      <4>2. CASE q = r /\ j < i
        <5>1. j \in 1..(Len(l[r]) - 1)
          BY <4>2, <1>1
        <5>2. QED BY <5>1, <4>2, <1>2, <1>10
      <4>3. CASE q = r /\ j = i
        BY <4>3, <2>2
      <4>4. CASE q = r /\ j > i
        <5>1. j - 1 \in 1..(Len(l[r]) - 1) /\ ~(j - 1 < i) /\ (j - 1) + 1 = j
          BY <4>4, <1>1
        <5>2. k[r][j - 1] = l[r][j]
          BY <5>1, <1>2
        <5>3. QED BY <5>1, <5>2, <4>4, <1>2, <1>10
      <4>5. QED BY <4>1, <4>2, <4>3, <4>4
    <3>2. nd[m].next = 0
      BY <3>1 DEF Laid
    <3>3. m # nd[n].prev
      <4>1. CASE i = 1
        BY <4>1, <1>5, <1>6
      <4>2. CASE i # 1
        <5>1. i - 1 \in 1..Len(l[r]) /\ nd[n].prev = l[r][i - 1]
          BY <4>2, <1>1, <1>6
        <5>2. QED BY <5>1, <3>1
      <4>3. QED BY <4>1, <4>2
    <3>4. QED BY <2>2, <3>2, <3>3
  <2>3. QED BY <2>1, <2>2
<1>11. QED
  <2>. HIDE DEF old
  <2>1. /\ k \in [H!Rows -> Seq(H!Nodes)]
        /\ \A q \in H!Rows : \A j \in 1..Len(k[q]) :
             /\ nd2[k[q][j]].next = IF j = Len(k[q]) THEN 0 ELSE k[q][j + 1]
             /\ nd2[k[q][j]].prev = IF j = 1 THEN 0 ELSE k[q][j - 1]
    BY <1>2, <1>8, <1>9
  <2>2. \A q, s \in H!Rows : \A a \in 1..Len(k[q]), b \in 1..Len(k[s]) :
          k[q][a] = k[s][b] => q = s /\ a = b
    BY <1>4
  <2>3. \A q \in H!Rows : t2[q] = IF Len(k[q]) = 0 THEN 0 ELSE k[q][1]
    BY <1>7
  <2>4. \A m \in H!Nodes : (\A q \in H!Rows : \A j \in 1..Len(k[q]) : k[q][j] # m) => nd2[m].next = 0
    BY <1>10
  <2>5. QED BY <2>1, <2>2, <2>3, <2>4 DEF Laid, k

(* What stands in the lists, and what the table is to be.                  *)
TableSizes == Slots \in Nat /\ nrows \in Nat \ {0} /\ NoData \notin Keys

(* The nodes in the lists.                                                 *)
Members(l) == {n \in H!Nodes : \E r \in H!Rows : \E i \in 1..Len(l[r]) : l[r][i] = n}

(* What a node can hold.                                                   *)
Fields == [key : Keys \cup {NoData}, data : Keys \cup {NoData}, next : 0..Slots, prev : 0..Slots]

(* The state of the table when l are its rows: they are laid out in the    *)
(* heap, hold what is allocated, each node in the row of its key, and what *)
(* is owed is their data.                                                  *)
MapIs(l) ==
  /\ made \in BOOLEAN /\ userfree \in BOOLEAN
  /\ rowOf \in [Keys -> H!Rows] /\ table \in [H!Rows -> 0..Slots]
  /\ node \in [H!Nodes -> Fields]
  /\ Laid(l, table, node)
  /\ live = Members(l) /\ count = Cardinality(live)
  /\ ~made => live = {}
  /\ \A r \in H!Rows : \A i \in 1..Len(l[r]) :
       node[l[r][i]].key \in Keys /\ rowOf[node[l[r][i]].key] = r
  /\ \A n, m \in live : node[n].key = node[m].key => n = m
  /\ \A n \in live : node[n].data \in {node[n].key, NoData}
  /\ userfree => owed = {node[n].data : n \in live} \ {NoData}

(* The chains of HashMap are the lists.                                    *)
LEMMA ChainNow == TableSizes => \A l : MapIs(l) => \A r \in H!Rows : H!Chain(r) = l[r]
<1>1. \A r : H!Chain(r) = ChainOf(node, table[r])
  BY DEF H!Chain, ChainOf
<1>2. QED BY <1>1, ChainIs DEF MapIs, TableSizes

(* Everything allocated is in one row.                                     *)
LEMMA HeldNow ==
  TableSizes => \A l : MapIs(l) =>
    /\ \A r \in H!Rows : H!InRow(r) = {l[r][i] : i \in 1..Len(l[r])}
    /\ H!Held = live
<1>. SUFFICES ASSUME TableSizes, NEW l, MapIs(l)
              PROVE  /\ \A r \in H!Rows : H!InRow(r) = {l[r][i] : i \in 1..Len(l[r])}
                     /\ H!Held = live
  OBVIOUS
<1>1. \A r \in H!Rows : H!Chain(r) = l[r] /\ l[r] \in Seq(H!Nodes)
  BY ChainNow DEF MapIs, Laid
<1>2. \A r \in H!Rows : DOMAIN l[r] = 1..Len(l[r]) /\ \A i \in 1..Len(l[r]) : l[r][i] \in H!Nodes
  BY <1>1
<1>3. \A r \in H!Rows : H!InRow(r) = {l[r][i] : i \in 1..Len(l[r])}
  BY <1>1, <1>2 DEF H!InRow
<1>4. live = Members(l)
  BY DEF MapIs
<1>5. H!Held = live
  BY <1>2, <1>3, <1>4 DEF H!Held, Members
<1>6. QED BY <1>3, <1>5

(* A walk for a key ends at its node.                                      *)
LEMMA NodeOfIs ==
  ASSUME TableSizes, NEW l, MapIs(l), NEW k \in Keys
  PROVE  \/ /\ H!NodeOf(k) = 0 /\ \A n \in live : node[n].key # k
         \/ /\ H!NodeOf(k) \in live /\ node[H!NodeOf(k)].key = k /\ H!NodeOf(k) # 0
            /\ \E i \in 1..Len(l[rowOf[k]]) : l[rowOf[k]][i] = H!NodeOf(k)
<1>. DEFINE r == rowOf[k]
            c == l[r]
            hits == {i \in DOMAIN c : node[c[i]].key = k}
            least == CHOOSE i \in hits : \A j \in hits : i <= j
<1>1. r \in H!Rows
  BY DEF MapIs
<1>2. c \in Seq(H!Nodes) /\ DOMAIN c = 1..Len(c) /\ Len(c) \in Nat /\ \A i \in 1..Len(c) : c[i] \in H!Nodes
  BY <1>1 DEF MapIs, Laid
<1>3. H!NodeOf(k) = IF hits = {} THEN 0 ELSE c[least]
  <2>1. H!Chain(rowOf[k]) = c
    BY <1>1, ChainNow
  <2>2. QED BY <2>1 DEF H!NodeOf, H!KeyOf
<1>4. live = Members(l)
  BY DEF MapIs
<1>5. CASE hits = {}
  <2>1. ASSUME NEW n \in live PROVE node[n].key # k
    <3>1. PICK q \in H!Rows : \E i \in 1..Len(l[q]) : l[q][i] = n
      BY <1>4 DEF Members
    <3>2. PICK i \in 1..Len(l[q]) : l[q][i] = n
      BY <3>1
    <3>3. rowOf[node[n].key] = q
      BY <3>2 DEF MapIs
    <3>4. QED BY <3>2, <3>3, <1>5, <1>2
  <2>2. QED BY <1>3, <1>5, <2>1
<1>6. CASE hits # {}
  <2>1. least \in hits
    <3>1. hits \subseteq Nat
      BY <1>2
    <3>2. \E m \in hits : \A j \in hits : m <= j
      <4>. HIDE DEF hits
      <4>1. QED BY <3>1, <1>6, Least
    <3>3. QED BY <3>2
  <2>. HIDE DEF least
  <2>2. least \in 1..Len(c) /\ node[c[least]].key = k
    BY <2>1, <1>2
  <2>3. c[least] \in live /\ c[least] # 0
    BY <2>2, <1>1, <1>2, <1>4 DEF Members, H!Nodes
  <2>. HIDE DEF hits
  <2>4. QED BY <1>3, <1>6, <2>2, <2>3
<1>7. QED BY <1>5, <1>6

(* What the table holds, as a function of its keys.                        *)
LEMMA ContentsNow ==
  TableSizes => \A l : MapIs(l) =>
    /\ ~made => H!Contents = <<>>
    /\ made => H!Contents = [k \in {node[n].key : n \in live} |-> H!Contents[k]]
    /\ made => \A n \in live : H!Contents[node[n].key] = node[n].data
<1>. SUFFICES ASSUME TableSizes, NEW l, MapIs(l), made
              PROVE  /\ H!Contents = [k \in {node[n].key : n \in live} |-> H!Contents[k]]
                     /\ \A n \in live : H!Contents[node[n].key] = node[n].data
  BY DEF H!Contents
<1>1. H!Contents = [k \in {node[n].key : n \in live} |-> node[CHOOSE n \in live : node[n].key = k].data]
  <2>1. H!Held = live
    BY HeldNow
  <2>2. QED BY <2>1 DEF H!Contents, H!KeyOf
<1>2. ASSUME NEW n \in live PROVE H!Contents[node[n].key] = node[n].data
  <2>. DEFINE m == CHOOSE m \in live : node[m].key = node[n].key
  <2>1. m \in live /\ node[m].key = node[n].key
    OBVIOUS
  <2>2. m = n
    BY <2>1 DEF MapIs
  <2>3. H!Contents[node[n].key] = node[m].data
    BY <1>1
  <2>4. QED BY <2>2, <2>3
<1>3. H!Contents = [k \in {node[n].key : n \in live} |-> H!Contents[k]]
  BY <1>1
<1>4. QED BY <1>2, <1>3

(* The same of the next state.                                             *)
LEMMA ContentsThen ==
  (TableSizes => \A l : MapIs(l) =>
    /\ ~made => H!Contents = <<>>
    /\ made => H!Contents = [k \in {node[n].key : n \in live} |-> H!Contents[k]]
    /\ made => \A n \in live : H!Contents[node[n].key] = node[n].data)'
BY ContentsNow, PTL

(* Members of the lists that a step makes.                                 *)
LEMMA MembersFinite ==
  ASSUME TableSizes, NEW l PROVE IsFiniteSet(Members(l)) /\ Cardinality(Members(l)) \in Nat
<1>1. IsFiniteSet(H!Nodes) /\ Members(l) \subseteq H!Nodes
  BY FS_Interval DEF H!Nodes, TableSizes, Members
<1>2. QED BY <1>1, FS_Subset, FS_CardinalityType

(* A node put in front is one more.                                        *)
LEMMA FrontMembers ==
  ASSUME NEW l \in [H!Rows -> Seq(H!Nodes)], NEW r \in H!Rows, NEW n \in H!Nodes
  PROVE  Members(Front(l, r, n)) = Members(l) \cup {n}
<1>. DEFINE k == Front(l, r, n)
<1>1. /\ \A q \in H!Rows \ {r} : k[q] = l[q]
      /\ Len(k[r]) = Len(l[r]) + 1 /\ k[r][1] = n
      /\ \A j \in 1..Len(l[r]) : k[r][j + 1] = l[r][j]
  <2>1. IsFront(k, l, r, n)
    BY FrontIs
  <2>. HIDE DEF k
  <2>2. QED BY <2>1 DEF IsFront
<1>2. \A q \in H!Rows : Len(l[q]) \in Nat /\ \A j \in 1..Len(l[q]) : l[q][j] \in H!Nodes
  OBVIOUS
<1>. HIDE DEF k
<1>3. ASSUME NEW m \in Members(k) PROVE m \in Members(l) \cup {n}
  <2>1. PICK q \in H!Rows : \E i \in 1..Len(k[q]) : k[q][i] = m
    BY DEF Members
  <2>2. PICK i \in 1..Len(k[q]) : k[q][i] = m
    BY <2>1
  <2>3. CASE q # r
    BY <1>1, <1>2, <2>2, <2>3 DEF Members
  <2>4. CASE q = r /\ i = 1
    BY <1>1, <2>2, <2>4
  <2>5. CASE q = r /\ i # 1
    <3>1. i - 1 \in 1..Len(l[r]) /\ (i - 1) + 1 = i
      BY <2>5, <1>1, <1>2
    <3>2. l[r][i - 1] = m
      BY <3>1, <1>1, <2>2, <2>5
    <3>3. QED BY <3>1, <3>2, <1>2 DEF Members
  <2>6. QED BY <2>3, <2>4, <2>5
<1>4. ASSUME NEW m \in Members(l) \cup {n} PROVE m \in Members(k)
  <2>1. CASE m = n
    <3>1. 1 \in 1..Len(k[r])
      BY <1>1, <1>2
    <3>2. QED BY <3>1, <2>1, <1>1 DEF Members
  <2>2. CASE m \in Members(l)
    <3>1. PICK q \in H!Rows : \E i \in 1..Len(l[q]) : l[q][i] = m
      BY <2>2 DEF Members
    <3>2. PICK i \in 1..Len(l[q]) : l[q][i] = m
      BY <3>1
    <3>3. CASE q # r
      BY <1>1, <2>2, <3>2, <3>3 DEF Members
    <3>4. CASE q = r
      <4>1. i + 1 \in 1..Len(k[r]) /\ k[r][i + 1] = m
        BY <3>2, <3>4, <1>1, <1>2
      <4>2. QED BY <4>1, <2>2 DEF Members
    <3>5. QED BY <3>3, <3>4
  <2>3. QED BY <2>1, <2>2
<1>5. QED BY <1>3, <1>4 DEF k

(* A node taken out is one fewer, as no node stands twice.                 *)
LEMMA WithoutMembers ==
  ASSUME NEW l, NEW t, NEW nd, Laid(l, t, nd), NEW r \in H!Rows, NEW i \in 1..Len(l[r])
  PROVE  Members(Without(l, r, i)) = Members(l) \ {l[r][i]}
<1>. DEFINE k == Without(l, r, i)
<1>1. /\ \A q \in H!Rows \ {r} : k[q] = l[q]
      /\ Len(k[r]) = Len(l[r]) - 1
      /\ \A j \in 1..(Len(l[r]) - 1) : k[r][j] = IF j < i THEN l[r][j] ELSE l[r][j + 1]
  <2>1. l \in [H!Rows -> Seq(H!Nodes)]
    BY DEF Laid
  <2>2. IsWithout(k, l, r, i)
    BY <2>1, WithoutIs
  <2>. HIDE DEF k
  <2>3. QED BY <2>2 DEF IsWithout
<1>2. \A q \in H!Rows : Len(l[q]) \in Nat /\ \A j \in 1..Len(l[q]) : l[q][j] \in H!Nodes
  BY DEF Laid
<1>. HIDE DEF k
<1>3. ASSUME NEW m \in Members(k) PROVE m \in Members(l) \ {l[r][i]}
  <2>1. PICK q \in H!Rows : \E j \in 1..Len(k[q]) : k[q][j] = m
    BY DEF Members
  <2>2. PICK j \in 1..Len(k[q]) : k[q][j] = m
    BY <2>1
  <2>3. PICK j1 \in 1..Len(l[q]) : l[q][j1] = m /\ ~(q = r /\ j1 = i)
    <3>1. CASE q # r
      BY <1>1, <2>2, <3>1
    <3>2. CASE q = r
      <4>1. j \in 1..(Len(l[r]) - 1) /\ j \in 1..Len(l[r]) /\ j + 1 \in 1..Len(l[r]) /\ j + 1 # j
        BY <1>1, <1>2, <3>2
      <4>2. CASE j < i
        BY <4>1, <4>2, <1>1, <2>2, <3>2
      <4>3. CASE ~(j < i)
        <5>1. l[r][j + 1] = m /\ j + 1 # i
          BY <4>1, <4>3, <1>1, <2>2, <3>2
        <5>2. QED BY <5>1, <4>1, <3>2
      <4>4. QED BY <4>2, <4>3
    <3>3. QED BY <3>1, <3>2
  <2>4. m \in Members(l)
    BY <2>3, <1>2 DEF Members
  <2>5. m # l[r][i]
    BY <2>3 DEF Laid
  <2>6. QED BY <2>4, <2>5
<1>4. ASSUME NEW m \in Members(l), m # l[r][i] PROVE m \in Members(k)
  <2>1. PICK q \in H!Rows : \E j \in 1..Len(l[q]) : l[q][j] = m
    BY DEF Members
  <2>2. PICK j \in 1..Len(l[q]) : l[q][j] = m
    BY <2>1
  <2>3. CASE q # r
    BY <1>1, <2>2, <2>3 DEF Members
  <2>4. CASE q = r /\ j < i
    <3>1. j \in 1..(Len(l[r]) - 1)
      BY <2>4, <1>2
    <3>2. QED BY <3>1, <2>2, <2>4, <1>1 DEF Members
  <2>5. CASE q = r /\ j > i
    <3>1. j - 1 \in 1..(Len(l[r]) - 1) /\ ~(j - 1 < i) /\ (j - 1) + 1 = j
      BY <2>5, <1>2
    <3>2. k[r][j - 1] = m
      BY <3>1, <2>2, <2>5, <1>1
    <3>3. QED BY <3>1, <3>2, <1>1 DEF Members
  <2>6. j # i \/ q # r
    BY <2>2, <1>4
  <2>7. QED BY <2>3, <2>4, <2>5, <2>6, <1>2
<1>5. QED BY <1>3, <1>4 DEF k

(* An empty table.                                                         *)
NoLists == [r \in H!Rows |-> <<>>]

(* The empty lists, laid out.                                              *)
LEMMA EmptyIs ==
  ASSUME TableSizes, NEW t, t = [r \in H!Rows |-> 0], NEW nd, nd = [n \in H!Nodes |-> H!Blank]
  PROVE  /\ Laid(NoLists, t, nd) /\ Members(NoLists) = {}
         /\ t \in [H!Rows -> 0..Slots] /\ nd \in [H!Nodes -> Fields]
         /\ \A r \in H!Rows : Len(NoLists[r]) = 0
<1>1. NoLists \in [H!Rows -> Seq(H!Nodes)] /\ \A r \in H!Rows : NoLists[r] = <<>> /\ Len(NoLists[r]) = 0
  BY EmptySeq DEF NoLists
<1>2. \A n \in H!Nodes : nd[n].next = 0
  BY DEF H!Blank
<1>3. Laid(NoLists, t, nd)
  BY <1>1, <1>2 DEF Laid
<1>4. Members(NoLists) = {}
  BY <1>1 DEF Members
<1>5. t \in [H!Rows -> 0..Slots] /\ nd \in [H!Nodes -> Fields]
  BY DEF TableSizes, Fields, H!Blank
<1>6. QED BY <1>1, <1>3, <1>4, <1>5

(* The table before hashmap_new.                                           *)
LEMMA MapInit == ASSUME TableSizes, H!Init PROVE MapIs(NoLists)
<1>1. /\ Laid(NoLists, table, node) /\ Members(NoLists) = {}
      /\ table \in [H!Rows -> 0..Slots] /\ node \in [H!Nodes -> Fields]
      /\ \A r \in H!Rows : Len(NoLists[r]) = 0
  BY EmptyIs DEF H!Init
<1>2. rowOf \in [Keys -> H!Rows]
  BY DEF H!Init, TableSizes, H!Rows
<1>3. count = Cardinality(live)
  BY FS_EmptySet DEF H!Init
<1>4. made \in BOOLEAN /\ userfree \in BOOLEAN /\ ~userfree /\ live = {}
  BY DEF H!Init
<1>5. \A r \in H!Rows : \A i \in 1..Len(NoLists[r]) : FALSE
  BY <1>1
<1>6. QED BY <1>1, <1>2, <1>3, <1>4, <1>5 DEF MapIs

(* What Empty leaves, in hashmap_new and hashmap_delete.                   *)
LEMMA MapEmpty ==
  ASSUME TableSizes, H!Empty, made' \in BOOLEAN, userfree' \in BOOLEAN,
         rowOf' \in [Keys -> H!Rows], userfree' => owed' = {}
  PROVE  MapIs(NoLists)'
<1>1. /\ Laid(NoLists, table', node') /\ Members(NoLists) = {}
      /\ table' \in [H!Rows -> 0..Slots] /\ node' \in [H!Nodes -> Fields]
      /\ \A r \in H!Rows : Len(NoLists[r]) = 0
  BY EmptyIs DEF H!Empty
<1>2. live' = {} /\ count' = Cardinality(live')
  BY FS_EmptySet DEF H!Empty
<1>3. QED BY <1>1, <1>2 DEF MapIs

(* hashmap_add of a key that is not in the table.                          *)
LEMMA AddNewStep ==
  ASSUME TableSizes, NEW l, MapIs(l), NEW k \in Keys, NEW d \in {k, NoData}, H!AddNew(k, d)
  PROVE  \E n \in H!Nodes \ live : \E q :
           /\ q = Front(l, rowOf[k], n) /\ MapIs(q)' /\ live' = live \cup {n}
           /\ node'[n].key = k /\ node'[n].data = d
           /\ \A m \in live : node'[m].key = node[m].key /\ node'[m].data = node[m].data
<1>. DEFINE r == rowOf[k]
<1>1. r \in H!Rows /\ made /\ H!NodeOf(k) = 0
  BY DEF MapIs, H!AddNew
<1>2. PICK n \in H!Nodes \ live :
        /\ live' = live \cup {n} /\ node' = H!LinkedIn(n, k, d, table[rowOf[k]])
        /\ table' = [table EXCEPT ![rowOf[k]] = n]
  BY DEF H!AddNew
<1>3a. PICK q : q = Front(l, r, n)
  OBVIOUS
<1>3. Laid(l, table, node) /\ table \in [H!Rows -> 0..Slots] /\ node \in [H!Nodes -> Fields]
      /\ l \in [H!Rows -> Seq(H!Nodes)] /\ live = Members(l)
  BY DEF MapIs, Laid
<1>4. table[r] # n
  <2>1. CASE Len(l[r]) = 0
    BY <2>1, <1>1, <1>3 DEF Laid, H!Nodes
  <2>2. CASE Len(l[r]) # 0
    <3>1. Len(l[r]) \in Nat /\ l[r] \in Seq(H!Nodes)
      BY <1>1, <1>3
    <3>2. 1 \in 1..Len(l[r]) /\ table[r] = l[r][1]
      BY <3>1, <2>2, <1>1, <1>3 DEF Laid
    <3>3. table[r] \in live
      BY <3>1, <3>2, <1>1, <1>3 DEF Members
    <3>4. QED BY <3>3
  <2>3. QED BY <2>1, <2>2
<1>5. \A m \in H!Nodes :
        /\ m = n => node'[m] = [key |-> k, data |-> d, next |-> table[r], prev |-> 0]
        /\ m # n /\ m = table[r] => node'[m] = [node[m] EXCEPT !.prev = n]
        /\ m # n /\ m # table[r] => node'[m] = node[m]
  BY <1>2, <1>4 DEF H!LinkedIn
<1>6. /\ \A m \in H!Nodes : node'[m].next = IF m = n THEN table[r] ELSE node[m].next
      /\ \A m \in H!Nodes : node'[m].prev = IF m = n THEN 0 ELSE IF m = table[r] THEN n ELSE node[m].prev
      /\ \A m \in H!Nodes : node'[m].key = IF m = n THEN k ELSE node[m].key
      /\ \A m \in H!Nodes : node'[m].data = IF m = n THEN d ELSE node[m].data
  <2>. SUFFICES ASSUME NEW m \in H!Nodes
                PROVE  /\ node'[m].next = IF m = n THEN table[r] ELSE node[m].next
                       /\ node'[m].prev = IF m = n THEN 0 ELSE IF m = table[r] THEN n ELSE node[m].prev
                       /\ node'[m].key = IF m = n THEN k ELSE node[m].key
                       /\ node'[m].data = IF m = n THEN d ELSE node[m].data
    OBVIOUS
  <2>1. node[m] \in Fields
    BY <1>3
  <2>2. CASE m = n
    <3>1. node'[m] = [key |-> k, data |-> d, next |-> table[r], prev |-> 0]
      BY <2>2, <1>5
    <3>. HIDE DEF r
    <3>2. QED BY <3>1, <2>2
  <2>3. CASE m # n /\ m = table[r]
    BY <2>3, <2>1, <1>5 DEF Fields
  <2>4. CASE m # n /\ m # table[r]
    BY <2>4, <1>5
  <2>5. QED BY <2>2, <2>3, <2>4
<1>7. node' \in [H!Nodes -> Fields]
  <2>1. ASSUME NEW m \in H!Nodes PROVE node'[m] \in Fields
    <3>1. node[m] \in Fields /\ table[r] \in 0..Slots /\ n \in 0..Slots /\ 0 \in 0..Slots
      BY <1>1, <1>3 DEF H!Nodes, TableSizes
    <3>2. CASE m = n
      <4>1. node'[m] = [key |-> k, data |-> d, next |-> table[r], prev |-> 0]
        BY <3>2, <1>5
      <4>. HIDE DEF r
      <4>2. QED BY <4>1, <3>1 DEF Fields
    <3>3. CASE m # n /\ m = table[r]
      BY <3>3, <3>1, <1>5 DEF Fields
    <3>4. CASE m # n /\ m # table[r]
      BY <3>4, <3>1, <1>5
    <3>5. QED BY <3>2, <3>3, <3>4
  <2>2. node' = [m \in H!Nodes |-> node'[m]]
    BY <1>2 DEF H!LinkedIn
  <2>3. QED BY <2>1, <2>2
<1>8. \A p \in H!Rows : \A i \in 1..Len(l[p]) : l[p][i] # n /\ l[p][i] \in live
  BY <1>3 DEF Members
<1>9. Laid(q, table', node')
  <2>. HIDE DEF r
  <2>1. table' = [table EXCEPT ![r] = n]
    BY <1>2 DEF r
  <2>2. \A p \in H!Rows : \A i \in 1..Len(l[p]) : l[p][i] # n
    BY <1>8
  <2>3. /\ \A m \in H!Nodes : node'[m].next = IF m = n THEN table[r] ELSE node[m].next
        /\ \A m \in H!Nodes : node'[m].prev = IF m = n THEN 0 ELSE IF m = table[r] THEN n ELSE node[m].prev
    BY <1>6
  <2>4. r \in H!Rows /\ Laid(l, table, node) /\ table \in [H!Rows -> 0..Slots]
    BY <1>1, <1>3
  <2>5. Laid(Front(l, r, n), table', node')
    BY <2>1, <2>2, <2>3, <2>4, FrontLaid
  <2>6. q = Front(l, r, n)
    BY <1>3a DEF r
  <2>7. QED BY <2>5, <2>6
<1>10. live' = Members(q) /\ count' = Cardinality(live')
  <2>1. Members(q) = Members(l) \cup {n}
    BY <1>1, <1>3, <1>3a, FrontMembers
  <2>2. IsFiniteSet(Members(l))
    BY MembersFinite
  <2>3. Cardinality(Members(l) \cup {n}) = Cardinality(Members(l)) + 1
    BY <2>2, <1>3, FS_AddElement
  <2>4. count' = count + 1 /\ count = Cardinality(Members(l))
    BY <1>3 DEF H!AddNew, MapIs
  <2>5. QED BY <2>1, <2>3, <2>4, <1>2, <1>3
<1>11. \A m \in live : node'[m].key = node[m].key /\ node'[m].data = node[m].data /\ m # n /\ m \in H!Nodes
  BY <1>3, <1>6 DEF Members
<1>12. node'[n].key = k /\ node'[n].data = d
  BY <1>6
<1>13. \A m \in live : node[m].key # k /\ node[m].key \in Keys /\ rowOf[node[m].key] \in H!Rows
  <2>1. \A m \in live : node[m].key # k
    BY <1>1, NodeOfIs
  <2>2. \A m \in live : node[m].key \in Keys /\ rowOf[node[m].key] \in H!Rows
    BY <1>3 DEF MapIs, Members
  <2>3. QED BY <2>1, <2>2
<1>14. ASSUME NEW p \in H!Rows, NEW i \in 1..Len(q[p])
       PROVE  node'[q[p][i]].key \in Keys /\ rowOf[node'[q[p][i]].key] = p
  <2>1. /\ \A o \in H!Rows \ {r} : q[o] = l[o]
        /\ Len(q[r]) = Len(l[r]) + 1 /\ q[r][1] = n
        /\ \A j \in 1..Len(l[r]) : q[r][j + 1] = l[r][j]
    <3>1. IsFront(q, l, r, n)
      BY <1>1, <1>3, <1>3a, FrontIs
    <3>. HIDE DEF r
    <3>2. QED BY <3>1 DEF IsFront
  <2>. HIDE DEF r
  <2>2. ASSUME NEW o \in H!Rows, NEW j \in 1..Len(l[o])
        PROVE  node'[l[o][j]].key \in Keys /\ rowOf[node'[l[o][j]].key] = o
    <3>1. node'[l[o][j]].key = node[l[o][j]].key
      BY <1>8, <1>11
    <3>2. QED BY <3>1 DEF MapIs
  <2>3. CASE p # r
    BY <2>1, <2>2, <2>3
  <2>4. CASE p = r /\ i = 1
    BY <2>1, <2>4, <1>12 DEF r
  <2>5. CASE p = r /\ i # 1
    <3>1. Len(l[r]) \in Nat
      BY <1>1, <1>3
    <3>2. i - 1 \in 1..Len(l[r]) /\ (i - 1) + 1 = i
      BY <3>1, <2>1, <2>5
    <3>3. q[r][i] = l[r][i - 1]
      BY <3>2, <2>1
    <3>4. QED BY <3>2, <3>3, <2>2, <2>5, <1>1
  <2>6. QED BY <2>3, <2>4, <2>5
<1>15. \A a, b \in live' : node'[a].key = node'[b].key => a = b
  <2>. SUFFICES ASSUME NEW a \in live', NEW b \in live', node'[a].key = node'[b].key PROVE a = b
    OBVIOUS
  <2>1. a \in live \cup {n} /\ b \in live \cup {n}
    BY <1>2
  <2>2. CASE a \in live /\ b \in live
    BY <2>2, <1>11 DEF MapIs
  <2>3. CASE a = n \/ b = n
    BY <2>1, <2>3, <1>11, <1>12, <1>13
  <2>4. QED BY <2>1, <2>2, <2>3
<1>16. \A m \in live' : node'[m].data \in {node'[m].key, NoData}
  BY <1>2, <1>11, <1>12 DEF MapIs
<1>17. userfree' => owed' = {node'[m].data : m \in live'} \ {NoData}
  <2>. SUFFICES ASSUME userfree' PROVE owed' = {node'[m].data : m \in live'} \ {NoData}
    OBVIOUS
  <2>1. owed' = owed \cup ({d} \ {NoData}) /\ owed = {node[m].data : m \in live} \ {NoData}
    BY DEF H!AddNew, MapIs
  <2>2. {node'[m].data : m \in live'} = {node[m].data : m \in live} \cup {d}
    BY <1>2, <1>11, <1>12
  <2>3. QED BY <2>1, <2>2
<1>18. made' \in BOOLEAN /\ userfree' \in BOOLEAN /\ rowOf' \in [Keys -> H!Rows] /\ made' /\ rowOf' = rowOf
  BY DEF H!AddNew, MapIs
<1>19. table' \in [H!Rows -> 0..Slots]
  <2>1. n \in 0..Slots
    BY DEF H!Nodes, TableSizes
  <2>2. QED BY <2>1, <1>2, <1>3
<1>20. MapIs(q)'
  <2>1. \A p \in H!Rows : \A i \in 1..Len(q[p]) :
          node'[q[p][i]].key \in Keys /\ rowOf'[node'[q[p][i]].key] = p
    BY <1>14, <1>18
  <2>2. ~made' => live' = {}
    BY <1>18
  <2>3. QED BY <1>7, <1>9, <1>10, <1>15, <1>16, <1>17, <1>18, <1>19, <2>1, <2>2 DEF MapIs
<1>21. QED BY <1>2, <1>3a, <1>11, <1>12, <1>20

(* hashmap_remove of a key that is in the table.                           *)
LEMMA FreeOne ==
  ASSUME TableSizes, NEW l, MapIs(l), NEW n \in live, H!Free(<<n>>)
  PROVE  mapFault' = mapFault /\ (userfree => owed' = owed \ {node[n].data})
<1>1. DOMAIN <<n>> = {1} /\ <<n>>[1] = n
  OBVIOUS
<1>. DEFINE f == <<n>>
<1>2. DOMAIN f = {1} /\ f[1] = n
  BY <1>1
<1>. HIDE DEF f
<1>3. H!Free(f)
  BY DEF f
<1>4. CASE ~userfree
  BY <1>3, <1>4 DEF H!Free
<1>5. CASE userfree
  <2>1. {node[f[p]].data : p \in DOMAIN f} \ {NoData} = {node[n].data} \ {NoData}
    BY <1>2
  <2>2. \A p, q \in DOMAIN f : p = q
    BY <1>2
  <2>3. {node[n].data} \ {NoData} \subseteq owed
    BY <1>5 DEF MapIs
  <2>4. NoData \notin owed
    BY <1>5 DEF MapIs
  <2>5. owed' = owed \ ({node[n].data} \ {NoData}) /\ mapFault' = mapFault
    BY <1>3, <1>5, <2>1, <2>2, <2>3 DEF H!Free
  <2>6. QED BY <2>4, <2>5
<1>6. QED BY <1>4, <1>5

(* The step as a whole: the node's place is taken out of its row.          *)
LEMMA RemoveStep ==
  ASSUME TableSizes, NEW l, MapIs(l), NEW k \in Keys, H!hashmap_remove(k)
  PROVE  \E r \in H!Rows : \E i \in 1..Len(l[r]) : \E n \in live : \E q :
           /\ r = rowOf[k] /\ n = l[r][i] /\ n = H!NodeOf(k) /\ q = Without(l, r, i)
           /\ MapIs(q)' /\ live' = live \ {n} /\ node[n].key = k /\ mapFault' = mapFault
           /\ \A m \in live' : node'[m].key = node[m].key /\ node'[m].data = node[m].data
<1>1. PICK r \in H!Rows : r = rowOf[k]
  BY DEF MapIs
<1>2. PICK n \in live : n = H!NodeOf(k) /\ node[n].key = k /\ n # 0 /\ \E i \in 1..Len(l[r]) : l[r][i] = n
  BY NodeOfIs, <1>1 DEF H!hashmap_remove
<1>3. PICK i \in 1..Len(l[r]) : l[r][i] = n
  BY <1>2
<1>4. PICK q : q = Without(l, r, i)
  OBVIOUS
<1>5. /\ H!Free(<<n>>) /\ node' = H!LinkedOut(n) /\ live' = live \ {n}
      /\ table' = IF node[n].prev # 0 THEN table ELSE [table EXCEPT ![r] = node[n].next]
      /\ count' = count - 1 /\ made /\ UNCHANGED <<made, userfree, rowOf>>
  BY <1>1, <1>2 DEF H!hashmap_remove
<1>6. Laid(l, table, node) /\ table \in [H!Rows -> 0..Slots] /\ node \in [H!Nodes -> Fields]
      /\ l \in [H!Rows -> Seq(H!Nodes)] /\ live = Members(l)
  BY DEF MapIs, Laid
<1>. DEFINE before == node[n].prev  behind == node[n].next
<1>7. before # n /\ behind # n /\ before \in 0..Slots /\ behind \in 0..Slots /\ n \in H!Nodes
      /\ (before = behind => before = 0)
  <2>1. n \in H!Nodes /\ node[n] \in Fields
    BY <1>6 DEF Members
  <2>2. /\ behind = IF i = Len(l[r]) THEN 0 ELSE l[r][i + 1]
        /\ before = IF i = 1 THEN 0 ELSE l[r][i - 1]
    BY <1>3, <1>6 DEF Laid
  <2>3. Len(l[r]) \in Nat
    BY <1>6
  <2>4. i # Len(l[r]) => i + 1 \in 1..Len(l[r]) /\ i + 1 # i
    BY <2>3
  <2>5. i # 1 => i - 1 \in 1..Len(l[r]) /\ i - 1 # i /\ i - 1 # i + 1
    BY <2>3
  <2>6. before # n
    BY <2>2, <2>5, <1>2, <1>3, <1>6 DEF Laid
  <2>7. behind # n
    BY <2>2, <2>4, <1>2, <1>3, <1>6 DEF Laid
  <2>8. before = behind => before = 0
    BY <2>2, <2>4, <2>5, <1>6 DEF Laid
  <2>9. before \in 0..Slots /\ behind \in 0..Slots
    BY <2>1 DEF Fields
  <2>10. QED BY <2>1, <2>6, <2>7, <2>8, <2>9
<1>8. ASSUME NEW m \in H!Nodes
      PROVE  /\ node'[m].next = IF m = n THEN 0 ELSE IF m = before THEN behind ELSE node[m].next
             /\ node'[m].prev = IF m = n THEN 0 ELSE IF m = behind THEN before ELSE node[m].prev
             /\ m # n => node'[m].key = node[m].key /\ node'[m].data = node[m].data
             /\ node'[m] \in Fields
  <2>1. node[m] \in Fields /\ m # 0 /\ before \in 0..Slots /\ behind \in 0..Slots /\ 0 \in 0..Slots
    BY <1>6, <1>7 DEF H!Nodes, TableSizes
  <2>2. /\ m = n => node'[m] = H!Blank
        /\ m # n /\ m = before => node'[m] = [node[m] EXCEPT !.next = behind]
        /\ m # n /\ m = behind => node'[m] = [node[m] EXCEPT !.prev = before]
        /\ m # n /\ m # before /\ m # behind => node'[m] = node[m]
    <3>1. node'[m] = CASE m = n -> H!Blank
                       [] m = before -> [node[m] EXCEPT !.next = behind]
                       [] m = behind -> [node[m] EXCEPT !.prev = before]
                       [] OTHER -> node[m]
      BY <1>5 DEF H!LinkedOut
    <3>2. ~(m = n /\ m = before) /\ ~(m = n /\ m = behind) /\ ~(m = before /\ m = behind)
      BY <1>7, <2>1
    <3>. HIDE DEF before, behind
    <3>3. QED BY <3>1, <3>2
  <2>3. ~(m = before /\ m = behind)
    BY <1>7, <2>1
  <2>. HIDE DEF before, behind
  <2>4. CASE m = n
    BY <2>1, <2>2, <2>4 DEF H!Blank, Fields
  <2>5. CASE m # n /\ m = before
    BY <2>1, <2>2, <2>3, <2>5 DEF Fields
  <2>6. CASE m # n /\ m = behind
    BY <2>1, <2>2, <2>3, <2>6 DEF Fields
  <2>7. CASE m # n /\ m # before /\ m # behind
    BY <2>1, <2>2, <2>7
  <2>8. QED BY <2>4, <2>5, <2>6, <2>7
<1>9. node' \in [H!Nodes -> Fields]
  <2>1. node' = [m \in H!Nodes |-> node'[m]]
    BY <1>5 DEF H!LinkedOut
  <2>2. QED BY <2>1, <1>8
<1>10. Laid(q, table', node')
  <2>1. /\ \A m \in H!Nodes : node'[m].next = IF m = n THEN 0
                             ELSE IF m = node[n].prev THEN node[n].next ELSE node[m].next
        /\ \A m \in H!Nodes : node'[m].prev = IF m = n THEN 0
                             ELSE IF m = node[n].next THEN node[n].prev ELSE node[m].prev
    BY <1>8
  <2>2. Laid(Without(l, r, i), table', node')
    <3>1. UnlinkedFrom(table, node, table', node', l, r, i, n)
      BY <2>1, <1>3, <1>5 DEF UnlinkedFrom
    <3>2. QED BY <3>1, <1>6, WithoutLaid
  <2>3. QED BY <2>2, <1>4
<1>11. live' = Members(q) /\ count' = Cardinality(live')
  <2>1. Members(Without(l, r, i)) = Members(l) \ {l[r][i]}
    BY <1>6, WithoutMembers
  <2>2. live' = Members(q)
    BY <2>1, <1>3, <1>4, <1>5, <1>6
  <2>3. IsFiniteSet(Members(l))
    BY MembersFinite
  <2>4. Cardinality(Members(l) \ {n}) = Cardinality(Members(l)) - 1
    BY <2>3, <1>6, FS_RemoveElement
  <2>5. count = Cardinality(Members(l))
    BY <1>6 DEF MapIs
  <2>6. QED BY <2>2, <2>4, <2>5, <1>5, <1>6
<1>12. \A m \in live' : node'[m].key = node[m].key /\ node'[m].data = node[m].data /\ m \in live /\ m # n
  BY <1>5, <1>6, <1>8 DEF Members
<1>13. ASSUME NEW p \in H!Rows, NEW j \in 1..Len(q[p])
       PROVE  node'[q[p][j]].key \in Keys /\ rowOf'[node'[q[p][j]].key] = p
  <2>1. \E o \in 1..Len(l[p]) : q[p][j] = l[p][o]
    <3>1. IsWithout(q, l, r, i)
      BY <1>4, <1>6, WithoutIs
    <3>2. CASE p # r
      BY <3>1, <3>2 DEF IsWithout
    <3>3. CASE p = r
      <4>1. Len(l[r]) \in Nat
        BY <1>6
      <4>2. j \in 1..(Len(l[r]) - 1) /\ j \in 1..Len(l[r]) /\ j + 1 \in 1..Len(l[r])
        BY <3>1, <3>3, <4>1 DEF IsWithout
      <4>3. q[r][j] = IF j < i THEN l[r][j] ELSE l[r][j + 1]
        BY <3>1, <4>2 DEF IsWithout
      <4>4. QED BY <4>2, <4>3, <3>3
    <3>4. QED BY <3>2, <3>3
  <2>2. PICK o \in 1..Len(l[p]) : q[p][j] = l[p][o]
    BY <2>1
  <2>3. q[p][j] \in live'
    <3>1. Laid(q, table', node')
      BY <1>10
    <3>2. QED BY <3>1, <1>11 DEF Members, Laid
  <2>4. node'[q[p][j]].key = node[l[p][o]].key
    BY <2>2, <2>3, <1>12
  <2>5. QED BY <2>4, <1>5 DEF MapIs
<1>14. \A a, b \in live' : node'[a].key = node'[b].key => a = b
  BY <1>12 DEF MapIs
<1>15. \A m \in live' : node'[m].data \in {node'[m].key, NoData}
  BY <1>12 DEF MapIs
<1>16. mapFault' = mapFault /\ (userfree => owed' = owed \ {node[n].data})
  BY <1>5, FreeOne
<1>17. userfree' => owed' = {node'[m].data : m \in live'} \ {NoData}
  <2>. SUFFICES ASSUME userfree' PROVE owed' = {node'[m].data : m \in live'} \ {NoData}
    OBVIOUS
  <2>1. owed = {node[m].data : m \in live} \ {NoData} /\ owed' = owed \ {node[n].data}
    BY <1>5, <1>16 DEF MapIs
  <2>2. \A m \in live' : node[m].data = node[n].data => node[n].data = NoData
    <3>1. \A m \in live : node[m].key \in Keys
      BY <1>6 DEF MapIs, Members
    <3>2. ASSUME NEW m \in live', node[m].data = node[n].data, node[n].data # NoData PROVE FALSE
      <4>1. node[m].data = node[m].key /\ node[n].data = node[n].key /\ m # n /\ m \in live
        BY <3>2, <1>12 DEF MapIs
      <4>2. QED BY <4>1, <3>2 DEF MapIs
    <3>3. QED BY <3>2
  <2>3. {node'[m].data : m \in live'} = {node[m].data : m \in live'}
    BY <1>12
  <2>4. {node[m].data : m \in live} \ {NoData, node[n].data} = {node[m].data : m \in live'} \ {NoData}
    BY <2>2, <1>5
  <2>5. QED BY <2>1, <2>3, <2>4
<1>18. made' \in BOOLEAN /\ userfree' \in BOOLEAN /\ rowOf' \in [Keys -> H!Rows] /\ made'
  BY <1>5 DEF MapIs
<1>19. table' \in [H!Rows -> 0..Slots]
  BY <1>5, <1>6, <1>7
<1>20. MapIs(q)'
  <2>1. \A p \in H!Rows : \A j \in 1..Len(q[p]) :
          node'[q[p][j]].key \in Keys /\ rowOf'[node'[q[p][j]].key] = p
    BY <1>13
  <2>2. ~made' => live' = {}
    BY <1>18
  <2>3. QED BY <1>9, <1>10, <1>11, <1>14, <1>15, <1>17, <1>18, <1>19, <2>1, <2>2 DEF MapIs
<1>21. QED BY <1>1, <1>2, <1>3, <1>4, <1>5, <1>12, <1>16, <1>20

(* hashmap_delete frees the data of every node, each once.                 *)
LEMMA DeleteFrees ==
  ASSUME TableSizes, NEW l, MapIs(l), H!Free(H!AllNodes)
  PROVE  mapFault' = mapFault /\ (userfree => owed' = {})
<1>. DEFINE f == H!AllNodes
<1>1. l \in [H!Rows -> Seq(H!Nodes)] /\ Laid(l, table, node) /\ live = Members(l)
  BY DEF MapIs, Laid
<1>2. \A r \in H!Rows : H!Chain(r) = l[r] /\ DOMAIN l[r] = 1..Len(l[r])
  BY <1>1, ChainNow
<1>3. H!Places = UNION {{r} \X (1..Len(l[r])) : r \in H!Rows}
  BY <1>2 DEF H!Places
<1>4. \A p \in H!Places : p[1] \in H!Rows /\ p[2] \in 1..Len(l[p[1]]) /\ p = <<p[1], p[2]>>
  BY <1>3
<1>5. \A r \in H!Rows : \A i \in 1..Len(l[r]) : <<r, i>> \in H!Places
  BY <1>3
<1>6. f = [p \in H!Places |-> H!Chain(p[1])[p[2]]]
  BY DEF H!AllNodes
<1>7. DOMAIN f = H!Places /\ \A p \in H!Places : f[p] = l[p[1]][p[2]]
  BY <1>6, <1>4, <1>2
<1>. HIDE DEF f
<1>8. H!Free(f)
  BY DEF f
<1>9. CASE ~userfree
  BY <1>8, <1>9 DEF H!Free
<1>10. CASE userfree
  <2>1. \A p \in DOMAIN f : f[p] \in live
    BY <1>1, <1>4, <1>7 DEF Members
  <2>2. \A n \in live : \E p \in DOMAIN f : f[p] = n
    <3>. SUFFICES ASSUME NEW n \in live PROVE \E p \in DOMAIN f : f[p] = n
      OBVIOUS
    <3>1. PICK r \in H!Rows : \E i \in 1..Len(l[r]) : l[r][i] = n
      BY <1>1 DEF Members
    <3>2. PICK i \in 1..Len(l[r]) : l[r][i] = n
      BY <3>1
    <3>3. <<r, i>> \in DOMAIN f /\ f[<<r, i>>] = n
      BY <3>2, <1>5, <1>7
    <3>4. QED BY <3>3
  <2>3. {node[f[p]].data : p \in DOMAIN f} = {node[n].data : n \in live}
    BY <2>1, <2>2
  <2>4. owed = {node[n].data : n \in live} \ {NoData}
    BY <1>10 DEF MapIs
  <2>5. ASSUME NEW p \in DOMAIN f, NEW q \in DOMAIN f, p # q, node[f[p]].data = node[f[q]].data,
               node[f[p]].data # NoData
        PROVE  FALSE
    <3>1. node[f[p]].data = node[f[p]].key /\ node[f[q]].data = node[f[q]].key
      BY <2>1, <2>5 DEF MapIs
    <3>2. f[p] = f[q]
      BY <3>1, <2>1, <2>5 DEF MapIs
    <3>3. p[1] = q[1] /\ p[2] = q[2]
      BY <3>2, <1>4, <1>7, <1>1 DEF Laid
    <3>4. QED BY <3>3, <1>4, <1>7, <2>5
  <2>6. owed' = owed \ ({node[n].data : n \in live} \ {NoData})
    BY <1>8, <1>10, <2>3 DEF H!Free
  <2>7. mapFault' = mapFault
    <3>1. {node[f[p]].data : p \in DOMAIN f} \ {NoData} \subseteq owed
      BY <2>3, <2>4
    <3>2. \A p, q \in DOMAIN f : p # q /\ node[f[p]].data = node[f[q]].data => node[f[p]].data = NoData
      BY <2>5
    <3>3. QED BY <1>8, <1>10, <3>1, <3>2 DEF H!Free
  <2>8. QED BY <2>4, <2>6, <2>7
<1>11. QED BY <1>9, <1>10

(* hashmap_delete leaves nothing owed and no lists.                        *)
LEMMA DeleteStep ==
  ASSUME TableSizes, NEW l, MapIs(l), H!hashmap_delete
  PROVE  MapIs(NoLists)' /\ mapFault' = mapFault
<1>1. mapFault' = mapFault /\ (userfree => owed' = {})
  BY DeleteFrees DEF H!hashmap_delete
<1>2. /\ H!Empty /\ made' \in BOOLEAN /\ userfree' \in BOOLEAN /\ rowOf' \in [Keys -> H!Rows]
      /\ (userfree' => owed' = {})
  BY <1>1 DEF H!hashmap_delete, MapIs
<1>3. QED BY <1>1, <1>2, MapEmpty

(* hashmap_new starts with empty lists.                                    *)
LEMMA NewStep ==
  ASSUME TableSizes, NEW rows \in [Keys -> H!Rows], NEW frees \in BOOLEAN, H!hashmap_new(rows, frees)
  PROVE  MapIs(NoLists)' /\ mapFault' = mapFault
<1>1. /\ H!Empty /\ made' \in BOOLEAN /\ userfree' \in BOOLEAN /\ rowOf' \in [Keys -> H!Rows]
      /\ owed' = {} /\ mapFault' = mapFault
  BY DEF H!hashmap_new
<1>2. QED BY <1>1, MapEmpty

(* hashmap_set_keyops, of an empty table only.                             *)
LEMMA KeyopsStep ==
  ASSUME TableSizes, NEW l, MapIs(l), NEW rows \in [Keys -> H!Rows], H!hashmap_set_keyops(rows)
  PROVE  MapIs(l)' /\ mapFault' = mapFault /\ live = {} /\ live' = live /\ node' = node
<1>1. /\ made /\ count = 0 /\ rowOf' = rows
      /\ UNCHANGED <<made, userfree, table, node, live, count, owed>> /\ mapFault' = mapFault
  BY DEF H!hashmap_set_keyops
<1>2. live = Members(l) /\ Cardinality(live) = 0 /\ Laid(l, table, node)
  BY <1>1 DEF MapIs
<1>3. live = {}
  BY <1>2, MembersFinite, FS_EmptySet
<1>4. \A r \in H!Rows : \A i \in 1..Len(l[r]) : FALSE
  BY <1>2, <1>3 DEF Members, Laid
<1>5. MapIs(l)'
  <2>1. /\ made' = made /\ userfree' = userfree /\ table' = table /\ node' = node
        /\ live' = live /\ count' = count /\ owed' = owed /\ rowOf' \in [Keys -> H!Rows]
    BY <1>1
  <2>2. \A r \in H!Rows : \A i \in 1..Len(l[r]) :
          node'[l[r][i]].key \in Keys /\ rowOf'[node'[l[r][i]].key] = r
    BY <1>4
  <2>3. Laid(l, table', node') /\ live' = Members(l)
    BY <2>1, <1>2
  <2>4. QED BY <2>1, <2>2, <2>3 DEF MapIs
<1>6. QED BY <1>1, <1>3, <1>5

(* A step that only moves the cursor.                                      *)
LEMMA SameMap ==
  ASSUME NEW l, MapIs(l), UNCHANGED H!dataVars
  PROVE  MapIs(l)'
BY DEF H!dataVars, MapIs

(* The lists, what is owed for them, and that nothing is freed twice.      *)
MapInv == mapFault # "twice" /\ (mapFault = "none" => \E l : MapIs(l))

(* Every step of the table keeps it.                                       *)
LEMMA MapStep == ASSUME TableSizes, MapInv, [H!Next]_H!vars PROVE MapInv'
<1>1. CASE UNCHANGED H!vars
  BY <1>1, SameMap DEF H!vars, MapInv
<1>2. CASE H!Next
  <2>1. mapFault = "none" /\ \E l : MapIs(l)
    BY <1>2 DEF H!Next, MapInv
  <2>2. PICK l : MapIs(l)
    BY <2>1
  <2>3. ASSUME NEW rows \in [Keys -> H!Rows], NEW b \in BOOLEAN, H!hashmap_new(rows, b) PROVE MapInv'
    BY <2>1, <2>3, NewStep DEF MapInv
  <2>4. ASSUME NEW rows \in [Keys -> H!Rows], H!hashmap_set_keyops(rows) PROVE MapInv'
    BY <2>1, <2>2, <2>4, KeyopsStep DEF MapInv
  <2>5. CASE H!hashmap_delete
    BY <2>1, <2>2, <2>5, DeleteStep DEF MapInv
  <2>6. CASE H!hashmap_findfirst \/ H!hashmap_findnext
    <3>1. UNCHANGED H!dataVars /\ mapFault' = mapFault
      BY <2>6 DEF H!hashmap_findfirst, H!hashmap_findnext
    <3>2. QED BY <3>1, <2>1, <2>2, SameMap DEF MapInv
  <2>7. CASE H!FindNextFreed
    BY <2>7 DEF MapInv, H!FindNextFreed
  <2>8. ASSUME NEW k \in Keys, H!AddKnown(k) PROVE MapInv'
    <3>1. UNCHANGED H!dataVars /\ mapFault' = mapFault
      BY <2>8 DEF H!AddKnown
    <3>2. QED BY <3>1, <2>1, <2>2, SameMap DEF MapInv
  <2>9. ASSUME NEW k \in Keys, H!hashmap_remove(k) PROVE MapInv'
    <3>1. mapFault' = mapFault /\ \E q : MapIs(q)'
      BY <2>2, <2>9, RemoveStep
    <3>2. QED BY <3>1, <2>1 DEF MapInv
  <2>10. ASSUME NEW k \in Keys, H!FindMoves(k) PROVE MapInv'
    BY <2>10 DEF MapInv, H!FindMoves
  <2>11. ASSUME NEW k \in Keys, NEW d \in {k, NoData}, H!AddNew(k, d) PROVE MapInv'
    <3>1. mapFault' = mapFault
      BY <2>11 DEF H!AddNew
    <3>2. \E q : MapIs(q)'
      BY <2>2, <2>11, AddNewStep
    <3>3. QED BY <3>1, <3>2, <2>1 DEF MapInv
  <2>12. QED BY <1>2, <2>3, <2>4, <2>5, <2>6, <2>7, <2>8, <2>9, <2>10, <2>11 DEF H!Next
<1>3. QED BY <1>1, <1>2

(* hashmap.c, any sequence of calls: as long as no splay lookup has lost a *)
(* node, some lists of nodes are laid out in the heap, and nothing is      *)
(* freed twice.                                                            *)
THEOREM MapInvariance == ASSUME TableSizes PROVE H!Spec => []MapInv
<1>1. H!Init => MapInv
  BY MapInit DEF MapInv, H!Init
<1>2. MapInv /\ [H!Next]_H!vars => MapInv'
  BY MapStep
<1>3. QED BY <1>1, <1>2, PTL DEF H!Spec

(* The instance has a Cardinality of its own.                              *)
LEMMA SameCardinality == \A S : H!Cardinality(S) = Cardinality(S)
BY DEF H!Cardinality, Cardinality

(* What the lists, laid out, say of the links.                             *)
LEMMA LinksAgree ==
  ASSUME TableSizes, NEW l, MapIs(l) PROVE H!ListsAgree
<1>1. /\ \A r \in H!Rows : H!InRow(r) = {l[r][i] : i \in 1..Len(l[r])}
      /\ H!Held = live
  BY HeldNow
<1>2. Laid(l, table, node) /\ live = Members(l) /\ count = Cardinality(live)
  BY DEF MapIs
<1>3. \A r \in H!Rows : \A n \in H!InRow(r) : rowOf[H!KeyOf(n)] = r
  BY <1>1 DEF MapIs, H!KeyOf
<1>4. \A n, m \in live : n # m => H!KeyOf(n) # H!KeyOf(m)
  BY DEF MapIs, H!KeyOf
<1>5. ASSUME NEW r \in H!Rows, table[r] # 0 PROVE node[table[r]].prev = 0
  <2>1. table[r] = l[r][1] /\ 1 \in 1..Len(l[r])
    BY <1>2, <1>5 DEF Laid
  <2>2. QED BY <2>1, <1>2 DEF Laid
<1>6. ASSUME NEW n \in live, node[n].next # 0 PROVE node[node[n].next].prev = n
  <2>1. PICK r \in H!Rows : \E i \in 1..Len(l[r]) : l[r][i] = n
    BY <1>2 DEF Members
  <2>2. PICK i \in 1..Len(l[r]) : l[r][i] = n
    BY <2>1
  <2>3. Len(l[r]) \in Nat
    BY <1>2 DEF Laid
  <2>4. i # Len(l[r]) /\ node[n].next = l[r][i + 1]
    BY <2>2, <1>2, <1>6 DEF Laid
  <2>5. i + 1 \in 1..Len(l[r]) /\ i + 1 # 1 /\ (i + 1) - 1 = i
    BY <2>3, <2>4
  <2>6. node[l[r][i + 1]].prev = l[r][i]
    BY <2>5, <1>2 DEF Laid
  <2>7. QED BY <2>2, <2>4, <2>6
<1>7. \A r \in H!Rows : table[r] # 0 => node[table[r]].prev = 0
  BY <1>5
<1>8. \A n \in live : node[n].next # 0 => node[node[n].next].prev = n
  BY <1>6
<1>9. live = H!Held /\ count = H!Cardinality(live)
  BY <1>1, <1>2, SameCardinality
<1>10. QED BY <1>3, <1>4, <1>7, <1>8, <1>9 DEF H!ListsAgree

(* hashmap.c: rows, links, count and what is allocated agree, whatever is  *)
(* added, removed and walked, for any keys, rows and size of the heap.     *)
THEOREM MapListsAgree == ASSUME TableSizes PROVE H!Spec => []H!ListsAgree
<1>1. MapInv => H!ListsAgree
  BY LinksAgree DEF MapInv, H!ListsAgree
<1>2. QED BY <1>1, MapInvariance, PTL

(* hashmap.c:92-97: a table that frees its data owes a free for just what  *)
(* it holds; nothing is freed early or twice, nothing is left.             *)
THEOREM MapFreesWhatGoes == ASSUME TableSizes PROVE H!Spec => []H!FreesWhatGoes
<1>1. ASSUME NEW l, MapIs(l), userfree
      PROVE  owed = {H!Contents[k] : k \in DOMAIN H!Contents} \ {NoData}
  <2>1. owed = {node[n].data : n \in live} \ {NoData}
    BY <1>1 DEF MapIs
  <2>2. CASE made
    <3>1. DOMAIN H!Contents = {node[n].key : n \in live}
      BY <1>1, <2>2, ContentsNow
    <3>2. \A n \in live : H!Contents[node[n].key] = node[n].data
      BY <1>1, <2>2, ContentsNow
    <3>. HIDE DEF H!Contents
    <3>3. QED BY <2>1, <3>1, <3>2
  <2>3. CASE ~made
    <3>1. DOMAIN H!Contents = {} /\ live = {}
      <4>1. H!Contents = <<>>
        BY <2>3 DEF H!Contents
      <4>2. QED BY <4>1, <1>1, <2>3 DEF MapIs
    <3>2. QED BY <2>1, <3>1
  <2>4. QED BY <2>2, <2>3 DEF MapIs
<1>2. MapInv => H!FreesWhatGoes
  BY <1>1 DEF MapInv, H!FreesWhatGoes
<1>3. QED BY <1>2, MapInvariance, PTL

-----------------------------------------------------------------------------
(* The table implements Dictionary, one action at a time.                  *)
LEMMA EmptyFunction == \A f : f = [k \in {} |-> f[k]] => f = <<>>
OBVIOUS

(* The keys of the table are those of its nodes.                           *)
LEMMA KeysNow ==
  ASSUME TableSizes, NEW l, MapIs(l), made
  PROVE  DOMAIN H!Contents = {node[n].key : n \in live}
BY ContentsNow

(* A step that keeps nodes, keys and data keeps the contents.              *)
LEMMA ContentsSame ==
  ASSUME TableSizes, NEW l, MapIs(l), NEW q, MapIs(q)', made' = made, live' = live,
         \A m \in live : node'[m].key = node[m].key /\ node'[m].data = node[m].data
  PROVE  H!Contents' = H!Contents
<1>. DEFINE c == H!Contents  d == H!Contents'
<1>1. CASE ~made
  BY <1>1, ContentsNow, ContentsThen
<1>2. CASE made
  <2>1. c = [k \in {node[n].key : n \in live} |-> c[k]] /\ \A n \in live : c[node[n].key] = node[n].data
    BY <1>2, ContentsNow
  <2>2. /\ d = [k \in {node'[n].key : n \in live'} |-> d[k]]
        /\ \A n \in live' : d[node'[n].key] = node'[n].data
    BY <1>2, ContentsThen DEF TableSizes
  <2>. HIDE DEF c, d
  <2>3. {node'[n].key : n \in live'} = {node[n].key : n \in live}
    OBVIOUS
  <2>4. \A k \in {node[n].key : n \in live} : d[k] = c[k]
    BY <2>1, <2>2
  <2>5. c = d
    BY <2>1, <2>2, <2>3, <2>4
  <2>6. QED BY <2>5 DEF c, d
<1>3. QED BY <1>1, <1>2

(* Without lists there are no contents.                                    *)
LEMMA ContentsNone ==
  ASSUME TableSizes, MapIs(NoLists)'
  PROVE  H!Contents' = <<>>
<1>. DEFINE d == H!Contents'
<1>1. live' = {}
  <2>1. live' = Members(NoLists)
    BY DEF MapIs
  <2>2. Members(NoLists) = {}
    BY EmptySeq DEF Members, NoLists
  <2>3. QED BY <2>1, <2>2
<1>2. CASE ~made'
  BY <1>2, ContentsThen DEF TableSizes
<1>3. CASE made'
  <2>1. d = [k \in {node'[n].key : n \in live'} |-> d[k]]
    BY <1>3, ContentsThen DEF TableSizes
  <2>2. {node'[n].key : n \in live'} = {}
    BY <1>1
  <2>. HIDE DEF d
  <2>3. d = <<>>
    BY <2>1, <2>2, EmptyFunction
  <2>4. QED BY <2>3 DEF d
<1>4. QED BY <1>2, <1>3 DEF MapIs

(* hashmap_add of a new key is a Put of the dictionary.                    *)
LEMMA AddPuts ==
  ASSUME TableSizes, NEW l, MapIs(l), NEW k \in Keys, NEW d \in {k, NoData}, H!AddNew(k, d)
  PROVE  H!Dict!Put(k, d)
<1>1a. PICK n \in H!Nodes \ live : \E q :
           /\ MapIs(q)' /\ live' = live \cup {n}
           /\ node'[n].key = k /\ node'[n].data = d
           /\ \A m \in live : node'[m].key = node[m].key /\ node'[m].data = node[m].data
  BY AddNewStep
<1>1. PICK q :
           /\ MapIs(q)' /\ live' = live \cup {n}
           /\ node'[n].key = k /\ node'[n].data = d
           /\ \A m \in live : node'[m].key = node[m].key /\ node'[m].data = node[m].data
  BY <1>1a
<1>2. made /\ made' = made /\ \A m \in live : node[m].key # k
  BY NodeOfIs DEF H!AddNew
<1>. DEFINE a == H!Contents  b == H!Contents'
            K == {node[n1].key : n1 \in live}
<1>3. a = [j \in K |-> a[j]] /\ \A m \in live : a[node[m].key] = node[m].data
  BY <1>2, ContentsNow
<1>4. /\ b = [j \in {node'[n1].key : n1 \in live'} |-> b[j]]
      /\ \A m \in live' : b[node'[m].key] = node'[m].data
  BY <1>1, <1>2, ContentsThen DEF TableSizes
<1>. HIDE DEF a, b
<1>5. {node'[n1].key : n1 \in live'} = K \cup {k}
  BY <1>1
<1>6. b[k] = d /\ k \notin K
  BY <1>1, <1>2, <1>4
<1>7. \A j \in K : b[j] = a[j]
  BY <1>1, <1>3, <1>4
<1>8. DOMAIN a = K
  BY <1>3
<1>. HIDE DEF K
<1>9. b = [j \in K \cup {k} |-> IF j = k THEN d ELSE a[j]]
  BY <1>4, <1>5, <1>6, <1>7
<1>10. QED BY <1>6, <1>8, <1>9 DEF H!Dict!Put, a, b

(* hashmap_remove is a Drop of the dictionary.                             *)
LEMMA RemoveDrops ==
  ASSUME TableSizes, NEW l, MapIs(l), NEW k \in Keys, H!hashmap_remove(k)
  PROVE  H!Dict!Drop(k)
<1>1a. PICK n \in live : \E q :
           /\ MapIs(q)' /\ live' = live \ {n} /\ node[n].key = k
           /\ \A m \in live' : node'[m].key = node[m].key /\ node'[m].data = node[m].data
  BY RemoveStep
<1>1. PICK q :
           /\ MapIs(q)' /\ live' = live \ {n} /\ node[n].key = k
           /\ \A m \in live' : node'[m].key = node[m].key /\ node'[m].data = node[m].data
  BY <1>1a
<1>2. made /\ made' = made
  BY DEF H!hashmap_remove
<1>. DEFINE a == H!Contents  b == H!Contents'
            K == {node[n1].key : n1 \in live}
<1>3. a = [j \in K |-> a[j]] /\ \A m \in live : a[node[m].key] = node[m].data
  BY <1>2, ContentsNow
<1>4. /\ b = [j \in {node'[n1].key : n1 \in live'} |-> b[j]]
      /\ \A m \in live' : b[node'[m].key] = node'[m].data
  BY <1>1, <1>2, ContentsThen DEF TableSizes
<1>. HIDE DEF a, b
<1>5. {node'[n1].key : n1 \in live'} = K \ {k}
  <2>1. \A m \in live : m # n => node[m].key # k
    BY <1>1 DEF MapIs
  <2>2. QED BY <2>1, <1>1
<1>6. k \in K
  BY <1>1
<1>7. \A j \in K \ {k} : b[j] = a[j]
  BY <1>1, <1>3, <1>4, <1>5
<1>8. DOMAIN a = K
  BY <1>3
<1>. HIDE DEF K
<1>9. b = [j \in K \ {k} |-> a[j]]
  BY <1>4, <1>5, <1>7
<1>10. QED BY <1>6, <1>8, <1>9 DEF H!Dict!Drop, a, b

(* Every step is one of the dictionary's, or changes no contents.          *)
LEMMA DictStep == ASSUME TableSizes, MapInv, [H!Next]_H!vars PROVE H!IsDictionary \/ UNCHANGED H!vars
<1>. SUFFICES ASSUME mapFault' = "none", H!Next PROVE [H!Dict!Change]_H!Contents
  BY DEF H!IsDictionary
<1>1. PICK l : MapIs(l)
  BY DEF H!Next, MapInv
<1>2. ASSUME NEW rows \in [Keys -> H!Rows], NEW b \in BOOLEAN, H!hashmap_new(rows, b)
      PROVE  [H!Dict!Change]_H!Contents
  BY <1>2, NewStep, ContentsNone DEF H!Dict!Change, H!Dict!GiveUp
<1>3. ASSUME NEW rows \in [Keys -> H!Rows], H!hashmap_set_keyops(rows)
      PROVE  [H!Dict!Change]_H!Contents
  <2>1. made' = made
    BY <1>3 DEF H!hashmap_set_keyops
  <2>2. QED BY <2>1, <1>1, <1>3, KeyopsStep, ContentsSame
<1>4. CASE H!hashmap_delete
  BY <1>1, <1>4, DeleteStep, ContentsNone DEF H!Dict!Change, H!Dict!GiveUp
<1>5. ASSUME UNCHANGED H!dataVars PROVE [H!Dict!Change]_H!Contents
  <2>1. MapIs(l)'
    BY <1>1, <1>5, SameMap
  <2>2. made' = made /\ live' = live /\ node' = node
    BY <1>5 DEF H!dataVars
  <2>3. QED BY <2>1, <2>2, <1>1, ContentsSame
<1>6. CASE H!hashmap_findfirst \/ H!hashmap_findnext \/ H!FindNextFreed
  BY <1>5, <1>6 DEF H!hashmap_findfirst, H!hashmap_findnext, H!FindNextFreed
<1>7. ASSUME NEW k \in Keys, H!AddKnown(k) PROVE [H!Dict!Change]_H!Contents
  BY <1>5, <1>7 DEF H!AddKnown
<1>8. ASSUME NEW k \in Keys, H!hashmap_remove(k) PROVE [H!Dict!Change]_H!Contents
  BY <1>1, <1>8, RemoveDrops DEF H!Dict!Change
<1>9. ASSUME NEW k \in Keys, H!FindMoves(k) PROVE [H!Dict!Change]_H!Contents
  BY <1>9 DEF H!FindMoves
<1>10. ASSUME NEW k \in Keys, NEW d \in {k, NoData}, H!AddNew(k, d) PROVE [H!Dict!Change]_H!Contents
  <2>1. d \in Keys \cup {NoData}
    OBVIOUS
  <2>2. QED BY <2>1, <1>1, <1>10, AddPuts DEF H!Dict!Change
<1>11. QED BY <1>2, <1>3, <1>4, <1>6, <1>7, <1>8, <1>9, <1>10 DEF H!Next

(* hashmap.c:216-234, 474-478: the table implements Dictionary, but for a  *)
(* lookup in splay mode that loses a node.                                 *)
THEOREM MapIsDictionary ==
  ASSUME TableSizes
  PROVE  H!Spec => /\ H!Dict!Start /\ [](H!ListsAgree /\ H!FreesWhatGoes)
                   /\ [][H!IsDictionary]_H!vars
<1>1. H!Init => H!Dict!Start
  BY DEF H!Init, H!Dict!Start, H!Contents
<1>2. MapInv /\ [H!Next]_H!vars => [H!IsDictionary]_H!vars
  BY DictStep
<1>3. QED BY <1>1, <1>2, MapInvariance, MapListsAgree, MapFreesWhatGoes, PTL DEF H!Spec

-----------------------------------------------------------------------------
(* A walk.  The place j of row r is ahead of a cursor at node n of row c,  *)
(* which it hands out next, and the rows behind.                           *)
Ahead(l, c, n, r, j) == c < r \/ (c = r /\ \E i \in 1..j : l[c][i] = n)

(* A walk whose cursor is at node n of row c and that has handed out the   *)
(* keys met: what has been handed out is not ahead, even after it has been *)
(* removed and added again; what was there all the time is ahead or has    *)
(* been handed out.                                                        *)
Met(s) == {s[i] : i \in 1..Len(s)}

WalkAt(l, c, n, s, st) ==
  /\ s \in Seq(Keys)
  /\ \A i, j \in 1..Len(s) : s[i] = s[j] => i = j
  /\ c \in 0..nrows
  /\ n = 0 => c = nrows
  /\ n # 0 => c \in H!Rows /\ \E i \in 1..Len(l[c]) : l[c][i] = n
  /\ \A k \in Met(s) : rowOf[k] <= c
  /\ \A r \in H!Rows : \A j \in 1..Len(l[r]) :
       node[l[r][j]].key \in Met(s) => ~Ahead(l, c, n, r, j)
  /\ \A k \in st : \/ k \in Met(s)
                  \/ \E r \in H!Rows : \E j \in 1..Len(l[r]) :
                       node[l[r][j]].key = k /\ Ahead(l, c, n, r, j)

(* The walk of the table's own cursor.                                     *)
WalkIs(l) == WalkAt(l, crow, cnode, seen, stayed)

(* The first row that is not empty, from row a on.                         *)
LEMMA FirstRow ==
  ASSUME TableSizes, NEW l, MapIs(l), NEW a \in 0..nrows
  PROVE  /\ H!FirstRowFrom(a) \in a..nrows
         /\ \A s \in H!Rows : s >= a /\ s < H!FirstRowFrom(a) => Len(l[s]) = 0
         /\ H!FirstRowFrom(a) = nrows => H!FirstOf(H!FirstRowFrom(a)) = 0
         /\ H!FirstRowFrom(a) # nrows =>
              /\ H!FirstRowFrom(a) \in H!Rows
              /\ 1 \in 1..Len(l[H!FirstRowFrom(a)])
              /\ H!FirstOf(H!FirstRowFrom(a)) = l[H!FirstRowFrom(a)][1]
              /\ H!FirstOf(H!FirstRowFrom(a)) # 0
<1>1. /\ \A r \in H!Rows : l[r] \in Seq(H!Nodes) /\ Len(l[r]) \in Nat
      /\ \A r \in H!Rows : table[r] = IF Len(l[r]) = 0 THEN 0 ELSE l[r][1]
  BY DEF MapIs, Laid
<1>2. \A r \in H!Rows : Len(l[r]) # 0 => 1 \in 1..Len(l[r]) /\ l[r][1] \in H!Nodes /\ l[r][1] # 0
  <2>. SUFFICES ASSUME NEW r \in H!Rows, Len(l[r]) # 0
                PROVE  1 \in 1..Len(l[r]) /\ l[r][1] \in H!Nodes /\ l[r][1] # 0
    OBVIOUS
  <2>1. 1 \in 1..Len(l[r])
    BY <1>1
  <2>2. l[r][1] \in H!Nodes
    BY <2>1, <1>1
  <2>3. QED BY <2>1, <2>2 DEF H!Nodes
<1>3. \A r \in H!Rows : table[r] # 0 <=> Len(l[r]) # 0
  BY <1>1, <1>2
<1>. DEFINE full == {s \in H!Rows : s >= a /\ table[s] # 0}
            first == CHOOSE s \in full : \A t \in full : s <= t
<1>4. H!FirstRowFrom(a) = IF full = {} THEN nrows ELSE first
  BY DEF H!FirstRowFrom
<1>5. CASE full = {}
  <2>1. H!FirstRowFrom(a) = nrows /\ nrows \in a..nrows
    BY <1>4, <1>5 DEF TableSizes
  <2>2. \A s \in H!Rows : s >= a => Len(l[s]) = 0
    BY <1>3, <1>5
  <2>3. H!FirstOf(nrows) = 0
    BY DEF H!FirstOf
  <2>4. QED BY <2>1, <2>2, <2>3
<1>6. CASE full # {}
  <2>1. first \in full /\ \A t \in full : first <= t
    <3>1. full \subseteq Nat
      BY DEF H!Rows
    <3>. HIDE DEF full
    <3>2. \E s \in full : \A t \in full : s <= t
      BY <3>1, <1>6, Least
    <3>3. QED BY <3>2
  <2>. HIDE DEF first
  <2>2. H!FirstRowFrom(a) = first
    <3>. HIDE DEF full
    <3>1. QED BY <1>4, <1>6
  <2>3. first \in H!Rows /\ first >= a /\ Len(l[first]) # 0
    BY <2>1, <1>3
  <2>4. first \in a..nrows /\ first # nrows
    BY <2>3 DEF H!Rows, TableSizes
  <2>5. H!FirstOf(first) = l[first][1] /\ 1 \in 1..Len(l[first]) /\ l[first][1] # 0
    BY <2>3, <2>4, <1>1, <1>2 DEF H!FirstOf
  <2>6. ASSUME NEW s \in H!Rows, s >= a, s < first PROVE Len(l[s]) = 0
    <3>1. s \notin full
      <4>1. ~(first <= s)
        BY <2>6, <2>4 DEF H!Rows
      <4>. HIDE DEF full
      <4>2. QED BY <4>1, <2>1
    <3>2. QED BY <3>1, <2>6, <1>3
  <2>7. QED BY <2>2, <2>3, <2>4, <2>5, <2>6
<1>7. QED BY <1>5, <1>6

(* hashmap_next: what it leaves ahead is what was, without the node it is  *)
(* behind.                                                                 *)
LEMMA AfterIs ==
  ASSUME TableSizes, NEW l, MapIs(l), NEW c \in H!Rows, NEW i \in 1..Len(l[c]), NEW n, n = l[c][i]
  PROVE  \E c2 \in c..nrows : \E n2 :
           /\ H!After(n, c) = <<c2, n2>>
           /\ n2 = 0 => c2 = nrows
           /\ n2 # 0 => c2 \in H!Rows /\ \E j \in 1..Len(l[c2]) : l[c2][j] = n2
           /\ \A r \in H!Rows : \A j \in 1..Len(l[r]) :
                Ahead(l, c2, n2, r, j) <=> Ahead(l, c, n, r, j) /\ ~(r = c /\ j = i)
<1>1. Laid(l, table, node) /\ l[c] \in Seq(H!Nodes) /\ Len(l[c]) \in Nat /\ c \in Int /\ nrows \in Nat
  <2>1. Laid(l, table, node)
    BY DEF MapIs
  <2>2. l \in [H!Rows -> Seq(H!Nodes)]
    BY <2>1 DEF Laid
  <2>3. l[c] \in Seq(H!Nodes)
    BY <2>2
  <2>4. Len(l[c]) \in Nat
    BY <2>3
  <2>5. c \in Int /\ nrows \in Nat
    BY DEF H!Rows, TableSizes
  <2>6. QED BY <2>1, <2>3, <2>4, <2>5
<1>2. \A j \in 1..Len(l[c]) : l[c][j] = n <=> j = i
  BY <1>1 DEF Laid
<1>3. node[n].next = IF i = Len(l[c]) THEN 0 ELSE l[c][i + 1]
  BY <1>1 DEF Laid
<1>4. CASE i # Len(l[c])
  <2>1. i + 1 \in 1..Len(l[c]) /\ l[c][i + 1] \in H!Nodes
    BY <1>1, <1>4
  <2>2. node[n].next = l[c][i + 1] /\ l[c][i + 1] # 0
    BY <2>1, <1>3, <1>4 DEF H!Nodes
  <2>3. PICK n2 : n2 = l[c][i + 1]
    OBVIOUS
  <2>4. H!After(n, c) = <<c, n2>>
    BY <2>2, <2>3 DEF H!After
  <2>5. \A j \in 1..Len(l[c]) : l[c][j] = n2 <=> j = i + 1
    BY <2>1, <2>3, <1>1 DEF Laid
  <2>6. ASSUME NEW r \in H!Rows, NEW j \in 1..Len(l[r])
        PROVE  Ahead(l, c, n2, r, j) <=> Ahead(l, c, n, r, j) /\ ~(r = c /\ j = i)
    <3>1. CASE r = c
      <4>1. Ahead(l, c, n2, r, j) <=> i + 1 <= j
        <5>1. ~(c < r)
          BY <3>1, <1>1
        <5>2. \A o \in 1..j : o \in 1..Len(l[c])
          BY <3>1, <1>1
        <5>3. (\E o \in 1..j : l[c][o] = n2) <=> i + 1 \in 1..j
          BY <5>2, <2>5, <2>1
        <5>4. i + 1 \in 1..j <=> i + 1 <= j
          BY <2>1, <3>1, <1>1
        <5>5. QED BY <5>1, <5>3, <5>4, <3>1 DEF Ahead
      <4>2. Ahead(l, c, n, r, j) <=> i <= j
        <5>1. ~(c < r)
          BY <3>1, <1>1
        <5>2. \A o \in 1..j : o \in 1..Len(l[c])
          BY <3>1, <1>1
        <5>3. (\E o \in 1..j : l[c][o] = n) <=> i \in 1..j
          BY <5>2, <1>2
        <5>4. i \in 1..j <=> i <= j
          BY <3>1, <1>1
        <5>5. QED BY <5>1, <5>3, <5>4, <3>1 DEF Ahead
      <4>3. QED BY <4>1, <4>2, <3>1, <1>1
    <3>2. CASE r # c
      BY <3>2 DEF Ahead
    <3>3. QED BY <3>1, <3>2
  <2>7. c \in c..nrows
    BY DEF H!Rows, TableSizes
  <2>8. QED BY <2>1, <2>2, <2>3, <2>4, <2>6, <2>7
<1>5. CASE i = Len(l[c])
  <2>1. c + 1 \in 0..nrows
    BY DEF H!Rows, TableSizes
  <2>2. PICK c2 : c2 = H!FirstRowFrom(c + 1)
    OBVIOUS
  <2>3. PICK n2 : n2 = H!FirstOf(c2)
    OBVIOUS
  <2>4. H!After(n, c) = <<c2, n2>>
    BY <1>3, <1>5, <2>2, <2>3 DEF H!After
  <2>5. /\ c2 \in (c + 1)..nrows
        /\ \A s \in H!Rows : s >= c + 1 /\ s < c2 => Len(l[s]) = 0
        /\ c2 = nrows => n2 = 0
        /\ c2 # nrows => c2 \in H!Rows /\ 1 \in 1..Len(l[c2]) /\ n2 = l[c2][1] /\ n2 # 0
    BY <2>1, <2>2, <2>3, FirstRow
  <2>6. ASSUME NEW r \in H!Rows, NEW j \in 1..Len(l[r])
        PROVE  Ahead(l, c2, n2, r, j) <=> Ahead(l, c, n, r, j) /\ ~(r = c /\ j = i)
    <3>1. r \in Int /\ c2 \in Int /\ Len(l[r]) \in Nat /\ Len(l[r]) # 0 /\ 1 \in 1..j
      BY <2>5, <1>1 DEF H!Rows, Laid
    <3>2. CASE r < c
      BY <3>1, <3>2, <2>5, <1>1 DEF Ahead
    <3>3. CASE r = c
      <4>1. ~Ahead(l, c2, n2, r, j)
        BY <3>1, <3>3, <2>5, <1>1 DEF Ahead
      <4>2. Ahead(l, c, n, r, j) => j = i
        <5>1. ASSUME NEW o \in 1..j, l[c][o] = n PROVE j = i
          <6>1. o \in 1..Len(l[c])
            BY <3>3, <1>1
          <6>2. o = i
            BY <6>1, <5>1, <1>2
          <6>3. QED BY <6>2, <3>3, <1>1, <1>5
        <5>2. QED BY <5>1, <3>3, <1>1 DEF Ahead
      <4>3. QED BY <4>1, <4>2, <3>3
    <3>4. CASE r > c
      <4>1. r >= c + 1
        BY <3>1, <3>4, <1>1
      <4>2. ~(r < c2)
        BY <4>1, <3>1, <2>5
      <4>3. CASE r > c2
        BY <4>3, <3>1, <3>4, <1>1 DEF Ahead
      <4>4. CASE r = c2
        <5>1. r # nrows
          BY DEF H!Rows, TableSizes
        <5>2. l[c2][1] = n2
          BY <5>1, <4>4, <2>5
        <5>3. QED BY <5>2, <4>4, <3>1, <3>4, <1>1 DEF Ahead
      <4>5. QED BY <4>2, <4>3, <4>4, <3>1
    <3>5. QED BY <3>1, <3>2, <3>3, <3>4, <1>1
  <2>7. c2 \in c..nrows
    BY <2>5, <1>1
  <2>8. QED BY <2>4, <2>5, <2>6, <2>7
<1>6. QED BY <1>4, <1>5

(* What stands at a place is allocated, and nothing else stands there.     *)
LEMMA PlaceIs ==
  ASSUME NEW l, MapIs(l), NEW r \in H!Rows, NEW i \in 1..Len(l[r])
  PROVE  /\ l[r][i] \in live /\ l[r][i] \in H!Nodes /\ Len(l[r]) \in Nat
         /\ node[l[r][i]].key \in Keys /\ rowOf[node[l[r][i]].key] = r
         /\ \A s \in H!Rows : \A j \in 1..Len(l[s]) :
              node[l[s][j]].key = node[l[r][i]].key => s = r /\ j = i
<1>1. Laid(l, table, node) /\ live = Members(l)
  BY DEF MapIs
<1>2. l \in [H!Rows -> Seq(H!Nodes)]
  BY <1>1 DEF Laid
<1>3. ASSUME NEW s \in H!Rows, NEW j \in 1..Len(l[s]) PROVE l[s][j] \in H!Nodes /\ l[s][j] \in live
  <2>1. l[s] \in Seq(H!Nodes)
    BY <1>2
  <2>2. l[s][j] \in H!Nodes
    BY <2>1
  <2>3. QED BY <2>2, <1>1 DEF Members
<1>4. Len(l[r]) \in Nat
  <2>1. l[r] \in Seq(H!Nodes)
    BY <1>2
  <2>2. QED BY <2>1
<1>5. node[l[r][i]].key \in Keys /\ rowOf[node[l[r][i]].key] = r
  BY DEF MapIs
<1>6. ASSUME NEW s \in H!Rows, NEW j \in 1..Len(l[s]), node[l[s][j]].key = node[l[r][i]].key
      PROVE  s = r /\ j = i
  <2>1. l[s][j] \in live /\ l[r][i] \in live
    BY <1>3
  <2>2. l[s][j] = l[r][i]
    BY <2>1, <1>6 DEF MapIs
  <2>3. QED BY <2>2, <1>1 DEF Laid
<1>7. QED BY <1>3, <1>4, <1>5, <1>6

(* Whatever stands at a place is allocated.                                *)
LEMMA PlacesNow ==
  \A q : MapIs(q) => \A s \in H!Rows : \A p \in 1..Len(q[s]) : q[s][p] \in live
BY PlaceIs

(* The same of the next state.                                             *)
LEMMA PlacesThen ==
  (\A q : MapIs(q) => \A s \in H!Rows : \A p \in 1..Len(q[s]) : q[s][p] \in live)'
BY PlacesNow, PTL

(* What is allocated stands somewhere.                                     *)
LEMMA LivePlace ==
  ASSUME NEW l, MapIs(l), NEW n \in live
  PROVE  \E r \in H!Rows : \E i \in 1..Len(l[r]) : l[r][i] = n
BY DEF MapIs, Members

(* findfirst and findnext hand out the node of the cursor and move it on.  *)
LEMMA HandedOut ==
  ASSUME TableSizes, NEW l, MapIs(l), NEW c \in H!Rows, NEW n, n # 0, NEW s, NEW st,
         WalkAt(l, c, n, s, st), NEW k, k = node[n].key
  PROVE  WalkAt(l, H!After(n, c)[1], H!After(n, c)[2], Append(s, k), st)
<1>1. PICK i \in 1..Len(l[c]) : n = l[c][i]
  BY DEF WalkAt
<1>2. PICK c2 \in c..nrows : \E n2 :
           /\ H!After(n, c) = <<c2, n2>>
           /\ n2 = 0 => c2 = nrows
           /\ n2 # 0 => c2 \in H!Rows /\ \E j \in 1..Len(l[c2]) : l[c2][j] = n2
           /\ \A r \in H!Rows : \A j \in 1..Len(l[r]) :
                Ahead(l, c2, n2, r, j) <=> Ahead(l, c, n, r, j) /\ ~(r = c /\ j = i)
  BY <1>1, AfterIs
<1>3. PICK n2 :
           /\ H!After(n, c) = <<c2, n2>>
           /\ n2 = 0 => c2 = nrows
           /\ n2 # 0 => c2 \in H!Rows /\ \E j \in 1..Len(l[c2]) : l[c2][j] = n2
           /\ \A r \in H!Rows : \A j \in 1..Len(l[r]) :
                Ahead(l, c2, n2, r, j) <=> Ahead(l, c, n, r, j) /\ ~(r = c /\ j = i)
  BY <1>2
<1>4. /\ k \in Keys /\ rowOf[k] = c
      /\ \A r \in H!Rows : \A j \in 1..Len(l[r]) : node[l[r][j]].key = k => r = c /\ j = i
  BY <1>1, PlaceIs
<1>5. k \notin Met(s)
  <2>1. i \in 1..i
    BY <1>1, PlaceIs
  <2>2. Ahead(l, c, n, c, i)
    BY <2>1, <1>1 DEF Ahead
  <2>3. QED BY <2>2, <1>1 DEF WalkAt
<1>6. PICK t : t = Append(s, k)
  OBVIOUS
<1>7. /\ t \in Seq(Keys) /\ Len(t) = Len(s) + 1 /\ t[Len(s) + 1] = k /\ Len(s) \in Nat
      /\ \A o \in 1..Len(s) : t[o] = s[o]
  <2>1. s \in Seq(Keys)
    BY DEF WalkAt
  <2>2. QED BY <2>1, <1>4, <1>6
<1>8. Met(t) = Met(s) \cup {k}
  <2>1. \A o \in 1..Len(t) : o \in 1..Len(s) \/ o = Len(s) + 1
    BY <1>7
  <2>2. \A o \in 1..Len(s) : o \in 1..Len(t)
    BY <1>7
  <2>3. Len(s) + 1 \in 1..Len(t)
    BY <1>7
  <2>4. QED BY <2>1, <2>2, <2>3, <1>7 DEF Met
<1>9. \A o, p \in 1..Len(t) : t[o] = t[p] => o = p
  <2>1. \A o \in 1..Len(t) : o \in 1..Len(s) \/ o = Len(s) + 1
    BY <1>7
  <2>2. \A o \in 1..Len(s) : s[o] # k
    BY <1>5 DEF Met
  <2>3. \A o, p \in 1..Len(s) : s[o] = s[p] => o = p
    BY DEF WalkAt
  <2>4. QED BY <2>1, <2>2, <2>3, <1>7
<1>10. c2 \in 0..nrows /\ c <= c2
  BY DEF H!Rows, TableSizes
<1>11. \A j \in Met(t) : rowOf[j] <= c2
  <2>1. \A j \in Met(s) : rowOf[j] <= c /\ rowOf[j] \in Int
    <3>1. \A j \in Met(s) : j \in Keys /\ rowOf[j] <= c
      BY DEF WalkAt, Met
    <3>2. \A j \in Keys : rowOf[j] \in Int
      BY DEF MapIs, H!Rows
    <3>3. QED BY <3>1, <3>2
  <2>2. c \in Int /\ c2 \in Int
    BY <1>10 DEF H!Rows
  <2>3. QED BY <2>1, <2>2, <1>4, <1>8, <1>10
<1>12. ASSUME NEW r \in H!Rows, NEW j \in 1..Len(l[r]), node[l[r][j]].key \in Met(t)
       PROVE  ~Ahead(l, c2, n2, r, j)
  <2>1. CASE node[l[r][j]].key \in Met(s)
    BY <2>1, <1>3 DEF WalkAt
  <2>2. CASE node[l[r][j]].key = k
    BY <2>2, <1>3, <1>4
  <2>3. QED BY <2>1, <2>2, <1>8, <1>12
<1>13. ASSUME NEW h \in st
       PROVE  \/ h \in Met(t)
              \/ \E r \in H!Rows : \E j \in 1..Len(l[r]) : node[l[r][j]].key = h /\ Ahead(l, c2, n2, r, j)
  <2>1. CASE h \in Met(s)
    BY <2>1, <1>8
  <2>2. CASE h \notin Met(s)
    <3>1. PICK r \in H!Rows : \E j \in 1..Len(l[r]) : node[l[r][j]].key = h /\ Ahead(l, c, n, r, j)
      BY <2>2 DEF WalkAt
    <3>2. PICK j \in 1..Len(l[r]) : node[l[r][j]].key = h /\ Ahead(l, c, n, r, j)
      BY <3>1
    <3>3. CASE r = c /\ j = i
      BY <3>2, <3>3, <1>1, <1>8
    <3>4. CASE ~(r = c /\ j = i)
      BY <3>2, <3>4, <1>3
    <3>5. QED BY <3>3, <3>4
  <2>3. QED BY <2>1, <2>2
<1>14. WalkAt(l, c2, n2, t, st)
  BY <1>3, <1>7, <1>9, <1>10, <1>11, <1>12, <1>13 DEF WalkAt
<1>15. H!After(n, c)[1] = c2 /\ H!After(n, c)[2] = n2
  BY <1>3
<1>16. QED BY <1>6, <1>14, <1>15


(* hashmap_findfirst: everything is ahead of the first node.               *)
LEMMA WalkStarts ==
  ASSUME TableSizes, NEW l, MapIs(l), made, H!hashmap_findfirst
  PROVE  MapIs(l)' /\ WalkIs(l)' /\ mapFault' = mapFault
<1>1. MapIs(l)' /\ mapFault' = mapFault /\ node' = node /\ rowOf' = rowOf
  <2>1. UNCHANGED H!dataVars /\ mapFault' = mapFault
    BY DEF H!hashmap_findfirst
  <2>2. QED BY <2>1, SameMap DEF H!dataVars
<1>2. 0 \in 0..nrows
  BY DEF TableSizes
<1>3. PICK c : c = H!FirstRowFrom(0)
  OBVIOUS
<1>4. PICK n : n = H!FirstOf(c)
  OBVIOUS
<1>5. /\ c \in 0..nrows
      /\ \A s \in H!Rows : s >= 0 /\ s < c => Len(l[s]) = 0
      /\ c = nrows => n = 0
      /\ c # nrows => c \in H!Rows /\ 1 \in 1..Len(l[c]) /\ n = l[c][1] /\ n # 0
  BY <1>2, <1>3, <1>4, FirstRow
<1>6. stayed' = {node[m].key : m \in live}
  BY KeysNow DEF H!hashmap_findfirst
<1>7. \A s \in H!Rows : \A j \in 1..Len(l[s]) : Len(l[s]) # 0 /\ Len(l[s]) \in Nat
  BY PlaceIs
<1>8. \A s \in H!Rows : s \in Int /\ s >= 0 /\ s < nrows
  BY DEF H!Rows, TableSizes
<1>9. ASSUME NEW s \in H!Rows, NEW j \in 1..Len(l[s]) PROVE c # nrows /\ Ahead(l, c, n, s, j)
  <2>1. ~(s < c)
    BY <1>5, <1>7, <1>8
  <2>2. c # nrows
    BY <2>1, <1>8
  <2>3. CASE s = c
    <3>1. 1 \in 1..j
      BY <1>7
    <3>2. l[c][1] = n
      BY <2>2, <1>5
    <3>3. QED BY <3>1, <3>2, <2>2, <2>3 DEF Ahead
  <2>4. CASE s # c
    <3>1. c < s
      BY <2>1, <2>4, <1>5, <1>8
    <3>2. QED BY <3>1, <2>2 DEF Ahead
  <2>5. QED BY <2>3, <2>4
<1>10. PICK st : st = stayed'
  OBVIOUS
<1>11. WalkAt(l, c, n, <<>>, st)
  <2>1. <<>> \in Seq(Keys) /\ Len(<<>>) = 0 /\ Met(<<>>) = {}
    BY EmptySeq DEF Met
  <2>2. ASSUME NEW k \in st
        PROVE  \E r \in H!Rows : \E j \in 1..Len(l[r]) : node[l[r][j]].key = k /\ Ahead(l, c, n, r, j)
    <3>1. PICK m \in live : node[m].key = k
      BY <1>6, <1>10
    <3>2. PICK r \in H!Rows : \E j \in 1..Len(l[r]) : l[r][j] = m
      BY LivePlace
    <3>3. QED BY <3>1, <3>2, <1>9
  <2>3. QED BY <2>1, <2>2, <1>5 DEF WalkAt
<1>12. CASE n = 0
  <2>1. c = nrows /\ crow' = c /\ cnode' = n /\ seen' = <<>>
    BY <1>3, <1>4, <1>5, <1>12 DEF H!hashmap_findfirst
  <2>2. QED BY <2>1, <1>1, <1>10, <1>11 DEF WalkIs, WalkAt
<1>13. CASE n # 0
  <2>1. PICK k : k = node[n].key
    OBVIOUS
  <2>2. PICK t : t = H!After(n, c)
    OBVIOUS
  <2>3. crow' = t[1] /\ cnode' = t[2] /\ seen' = <<k>>
    BY <1>3, <1>4, <1>13, <2>1, <2>2 DEF H!hashmap_findfirst, H!HandOut, H!KeyOf
  <2>4. c \in H!Rows
    BY <1>5, <1>13
  <2>5. Append(<<>>, k) = <<k>>
    OBVIOUS
  <2>6. WalkAt(l, t[1], t[2], Append(<<>>, k), st)
    BY <2>1, <2>2, <2>4, <1>11, <1>13, HandedOut
  <2>7. WalkAt(l, crow', cnode', seen', stayed')
    BY <2>3, <2>5, <2>6, <1>10
  <2>8. QED BY <2>7, <1>1 DEF WalkIs, WalkAt
<1>14. QED BY <1>12, <1>13

(* hashmap_findnext, of a walk that nothing else has disturbed.            *)
LEMMA WalkGoesOn ==
  ASSUME TableSizes, NEW l, MapIs(l), WalkIs(l), steady, H!hashmap_findnext
  PROVE  MapIs(l)' /\ WalkIs(l)' /\ mapFault' = mapFault
<1>1. MapIs(l)' /\ mapFault' = mapFault /\ node' = node /\ rowOf' = rowOf
  <2>1. UNCHANGED H!dataVars /\ mapFault' = mapFault
    BY DEF H!hashmap_findnext
  <2>2. QED BY <2>1, SameMap DEF H!dataVars
<1>2. PICK k : k = node[cnode].key
  OBVIOUS
<1>3. PICK t : t = H!After(cnode, crow)
  OBVIOUS
<1>4. PICK s : s = Append(seen, k)
  OBVIOUS
<1>5. cnode # 0 /\ crow' = t[1] /\ cnode' = t[2] /\ seen' = s /\ stayed' = stayed
  BY <1>2, <1>3, <1>4 DEF H!hashmap_findnext, H!HandOut, H!KeyOf
<1>6. crow \in H!Rows
  BY <1>5 DEF WalkIs, WalkAt
<1>7. WalkAt(l, t[1], t[2], s, stayed)
  BY <1>2, <1>3, <1>4, <1>5, <1>6, HandedOut DEF WalkIs
<1>8. QED BY <1>1, <1>5, <1>7 DEF WalkIs, WalkAt

(* Place i of row r in l is place j of that row in q.                      *)
SamePlace(l, q, c, n, r, i, j) ==
  /\ i \in 1..Len(l[r]) /\ j \in 1..Len(q[r]) /\ q[r][j] = l[r][i]
  /\ Ahead(q, c, n, r, j) <=> Ahead(l, c, n, r, i)

(* Every place of l is one of q and ahead in both or in neither, and so    *)
(* back, but for the new first place of row rr, which no cursor there has  *)
(* ahead.                                                                  *)
FrontKeeps(l, q, c, n0, rr, n) ==
  /\ \A r \in H!Rows : \A i \in 1..Len(l[r]) : \E j \in 1..Len(q[r]) : SamePlace(l, q, c, n0, r, i, j)
  /\ \A r \in H!Rows : \A j \in 1..Len(q[r]) :
       \/ \E i \in 1..Len(l[r]) : SamePlace(l, q, c, n0, r, i, j)
       \/ r = rr /\ q[r][j] = n /\ (rr <= c => ~Ahead(q, c, n0, r, j))

(* An insertion in front of a row leaves what is ahead.                    *)
LEMMA FrontAhead ==
  ASSUME TableSizes, NEW l, MapIs(l), NEW rr \in H!Rows, NEW n \in H!Nodes \ live,
         NEW c \in 0..nrows, NEW n0, n0 # n, NEW q, q = Front(l, rr, n)
  PROVE  FrontKeeps(l, q, c, n0, rr, n)
<1>1. l \in [H!Rows -> Seq(H!Nodes)]
  BY DEF MapIs, Laid
<1>2. /\ \A r \in H!Rows \ {rr} : q[r] = l[r]
      /\ Len(q[rr]) = Len(l[rr]) + 1 /\ q[rr][1] = n
      /\ \A j \in 1..Len(l[rr]) : q[rr][j + 1] = l[rr][j]
  <2>1. IsFront(q, l, rr, n)
    BY <1>1, FrontIs
  <2>2. QED BY <2>1 DEF IsFront
<1>3. \A r \in H!Rows : Len(l[r]) \in Nat
  <2>1. \A r \in H!Rows : l[r] \in Seq(H!Nodes)
    BY <1>1
  <2>2. QED BY <2>1
<1>4. ASSUME NEW r \in H!Rows, r # rr, NEW i \in 1..Len(l[r])
      PROVE  SamePlace(l, q, c, n0, r, i, i)
  BY <1>2, <1>4 DEF SamePlace, Ahead
<1>5. ASSUME NEW i \in 1..Len(l[rr]) PROVE i + 1 \in 1..Len(q[rr]) /\ SamePlace(l, q, c, n0, rr, i, i + 1)
  <2>1. i + 1 \in 1..Len(q[rr]) /\ q[rr][i + 1] = l[rr][i] /\ i \in Nat
    BY <1>2, <1>3
  <2>2. ASSUME NEW o \in 1..(i + 1), q[rr][o] = n0 PROVE \E p \in 1..i : l[rr][p] = n0
    <3>1. o # 1
      BY <2>2, <1>2
    <3>2. o - 1 \in 1..i /\ o - 1 \in 1..Len(l[rr]) /\ (o - 1) + 1 = o
      BY <3>1, <1>3
    <3>3. QED BY <3>2, <2>2, <1>2
  <2>3. ASSUME NEW p \in 1..i, l[rr][p] = n0 PROVE \E o \in 1..(i + 1) : q[rr][o] = n0
    <3>1. p + 1 \in 1..(i + 1) /\ p \in 1..Len(l[rr])
      BY <1>3
    <3>2. QED BY <3>1, <2>3, <1>2
  <2>4. Ahead(q, c, n0, rr, i + 1) <=> Ahead(l, c, n0, rr, i)
    <3>1. (\E o \in 1..(i + 1) : q[rr][o] = n0) <=> (\E p \in 1..i : l[rr][p] = n0)
      BY <2>2, <2>3
    <3>2. QED BY <3>1 DEF Ahead
  <2>5. QED BY <2>1, <2>4 DEF SamePlace
<1>6. rr <= c => ~Ahead(q, c, n0, rr, 1)
  <2>1. \A o \in 1..1 : q[rr][o] # n0
    BY <1>2
  <2>2. rr \in Int /\ c \in Int
    BY DEF H!Rows
  <2>3. QED BY <2>1, <2>2 DEF Ahead
<1>7. ASSUME NEW r \in H!Rows, NEW i \in 1..Len(l[r])
      PROVE  \E j \in 1..Len(q[r]) : SamePlace(l, q, c, n0, r, i, j)
  <2>1. CASE r = rr
    BY <1>5, <2>1
  <2>2. CASE r # rr
    BY <1>2, <1>4, <2>2
  <2>3. QED BY <2>1, <2>2
<1>8. ASSUME NEW r \in H!Rows, NEW j \in 1..Len(q[r])
      PROVE  \/ \E i \in 1..Len(l[r]) : SamePlace(l, q, c, n0, r, i, j)
             \/ r = rr /\ q[r][j] = n /\ (rr <= c => ~Ahead(q, c, n0, r, j))
  <2>1. CASE r = rr /\ j = 1
    BY <1>2, <1>6, <2>1
  <2>2. CASE r = rr /\ j # 1
    <3>1. j - 1 \in 1..Len(l[rr]) /\ (j - 1) + 1 = j
      BY <2>2, <1>2, <1>3
    <3>2. SamePlace(l, q, c, n0, rr, j - 1, (j - 1) + 1)
      BY <3>1, <1>5
    <3>3. QED BY <3>1, <3>2, <2>2
  <2>3. CASE r # rr
    BY <1>2, <1>4, <2>3
  <2>4. QED BY <2>1, <2>2, <2>3
<1>9. QED BY <1>7, <1>8 DEF FrontKeeps

(* The same when place o of row rr has gone.                               *)
WithoutKeeps(l, q, c, n0, rr, o) ==
  /\ \A r \in H!Rows : \A i \in 1..Len(l[r]) :
       (r = rr /\ i = o) \/ \E j \in 1..Len(q[r]) : SamePlace(l, q, c, n0, r, i, j)
  /\ \A r \in H!Rows : \A j \in 1..Len(q[r]) : \E i \in 1..Len(l[r]) : SamePlace(l, q, c, n0, r, i, j)

(* A removal of another node than the cursor's leaves what is ahead.       *)
LEMMA WithoutAhead ==
  ASSUME TableSizes, NEW l, MapIs(l), NEW rr \in H!Rows, NEW o \in 1..Len(l[rr]),
         NEW c \in 0..nrows, NEW n0, n0 # l[rr][o], NEW q, q = Without(l, rr, o)
  PROVE  WithoutKeeps(l, q, c, n0, rr, o)
<1>1. l \in [H!Rows -> Seq(H!Nodes)]
  BY DEF MapIs, Laid
<1>2. /\ \A r \in H!Rows \ {rr} : q[r] = l[r]
      /\ Len(q[rr]) = Len(l[rr]) - 1
      /\ \A j \in 1..(Len(l[rr]) - 1) : q[rr][j] = IF j < o THEN l[rr][j] ELSE l[rr][j + 1]
  <2>1. IsWithout(q, l, rr, o)
    BY <1>1, WithoutIs
  <2>2. QED BY <2>1 DEF IsWithout
<1>3. Len(l[rr]) \in Nat
  BY PlaceIs
<1>4. ASSUME NEW r \in H!Rows, r # rr, NEW i \in 1..Len(l[r])
      PROVE  i \in 1..Len(q[r]) /\ SamePlace(l, q, c, n0, r, i, i)
  BY <1>2, <1>4 DEF SamePlace, Ahead
(* Places in front of o stay, those behind it move up by one.              *)
<1>5. ASSUME NEW i \in 1..Len(l[rr]), i < o PROVE i \in 1..Len(q[rr]) /\ SamePlace(l, q, c, n0, rr, i, i)
  <2>1. \A p \in 1..i : p \in 1..(Len(l[rr]) - 1) /\ p < o
    BY <1>3, <1>5
  <2>2. \A p \in 1..i : q[rr][p] = l[rr][p]
    BY <2>1, <1>2
  <2>3. i \in 1..i
    BY <1>3
  <2>4. i \in 1..Len(q[rr])
    BY <1>2, <1>3, <1>5
  <2>5. QED BY <2>2, <2>3, <2>4 DEF SamePlace, Ahead
<1>6. ASSUME NEW j \in 1..Len(q[rr]), j >= o
      PROVE  j + 1 \in 1..Len(l[rr]) /\ SamePlace(l, q, c, n0, rr, j + 1, j)
  <2>1. j + 1 \in 1..Len(l[rr]) /\ j \in 1..(Len(l[rr]) - 1) /\ ~(j < o) /\ j \in Int
    BY <1>2, <1>3, <1>6
  <2>2. q[rr][j] = l[rr][j + 1]
    BY <2>1, <1>2
  <2>3. ASSUME NEW p \in 1..j, q[rr][p] = n0 PROVE \E s \in 1..(j + 1) : l[rr][s] = n0
    <3>1. p \in 1..(Len(l[rr]) - 1) /\ p \in 1..(j + 1) /\ p + 1 \in 1..(j + 1)
      BY <2>1, <1>3
    <3>2. QED BY <3>1, <2>3, <1>2
  <2>4. ASSUME NEW s \in 1..(j + 1), l[rr][s] = n0 PROVE \E p \in 1..j : q[rr][p] = n0
    <3>1. s # o
      BY <2>4
    <3>2. CASE s < o
      <4>1. s \in 1..j /\ s \in 1..(Len(l[rr]) - 1)
        BY <3>2, <2>1, <1>3, <1>6
      <4>2. QED BY <4>1, <3>2, <2>4, <1>2
    <3>3. CASE s > o
      <4>1. s - 1 \in 1..j /\ s - 1 \in 1..(Len(l[rr]) - 1) /\ ~(s - 1 < o) /\ (s - 1) + 1 = s
        BY <3>3, <2>1, <1>3, <1>6
      <4>2. q[rr][s - 1] = l[rr][s]
        BY <4>1, <1>2
      <4>3. QED BY <4>1, <4>2, <2>4
    <3>4. QED BY <3>1, <3>2, <3>3, <1>3
  <2>5. (\E p \in 1..j : q[rr][p] = n0) <=> (\E s \in 1..(j + 1) : l[rr][s] = n0)
    BY <2>3, <2>4
  <2>6. QED BY <2>1, <2>2, <2>5 DEF SamePlace, Ahead
<1>7. ASSUME NEW r \in H!Rows, NEW i \in 1..Len(l[r]), ~(r = rr /\ i = o)
      PROVE  \E j \in 1..Len(q[r]) : SamePlace(l, q, c, n0, r, i, j)
  <2>1. CASE r # rr
    BY <1>4, <2>1
  <2>2. CASE r = rr /\ i < o
    BY <1>5, <2>2
  <2>3. CASE r = rr /\ i > o
    <3>1. i - 1 \in 1..Len(q[rr]) /\ i - 1 >= o /\ (i - 1) + 1 = i
      BY <1>2, <1>3, <2>3
    <3>2. SamePlace(l, q, c, n0, rr, (i - 1) + 1, i - 1)
      BY <3>1, <1>6
    <3>3. QED BY <3>1, <3>2, <2>3
  <2>4. QED BY <2>1, <2>2, <2>3, <1>3, <1>7
<1>8. ASSUME NEW r \in H!Rows, NEW j \in 1..Len(q[r])
      PROVE  \E i \in 1..Len(l[r]) : SamePlace(l, q, c, n0, r, i, j)
  <2>1. CASE r # rr
    BY <1>2, <1>4, <2>1
  <2>2. CASE r = rr /\ j < o
    <3>1. j \in 1..Len(l[rr])
      BY <1>2, <1>3, <2>2
    <3>2. QED BY <3>1, <1>5, <2>2
  <2>3. CASE r = rr /\ j >= o
    BY <1>6, <2>3
  <2>4. QED BY <2>1, <2>2, <2>3, <1>2, <1>3
<1>9. QED BY <1>7, <1>8 DEF WithoutKeeps


(* hashmap_add of a new key during a walk: it is met or not, but a key     *)
(* that was met already is not ahead again.                                *)
LEMMA WalkAdds ==
  ASSUME TableSizes, NEW l, MapIs(l), WalkIs(l), NEW k \in Keys, NEW d \in {k, NoData}, H!AddNew(k, d)
  PROVE  \E q : MapIs(q)' /\ WalkIs(q)'
<1>1. PICK n \in H!Nodes \ live : \E q :
           /\ q = Front(l, rowOf[k], n) /\ MapIs(q)' /\ live' = live \cup {n}
           /\ node'[n].key = k /\ node'[n].data = d
           /\ \A m \in live : node'[m].key = node[m].key /\ node'[m].data = node[m].data
  BY AddNewStep
<1>2. PICK q :
           /\ q = Front(l, rowOf[k], n) /\ MapIs(q)' /\ live' = live \cup {n}
           /\ node'[n].key = k /\ node'[n].data = d
           /\ \A m \in live : node'[m].key = node[m].key /\ node'[m].data = node[m].data
  BY <1>1
<1>3. /\ crow' = crow /\ cnode' = cnode /\ seen' = seen /\ stayed' = stayed /\ rowOf' = rowOf
  BY DEF H!AddNew, H!walkVars
<1>4. rowOf[k] \in H!Rows
  BY DEF MapIs
<1>5. cnode # n
  <2>1. CASE cnode = 0
    BY <2>1 DEF H!Nodes
  <2>2. CASE cnode # 0
    <3>1. crow \in H!Rows /\ \E i \in 1..Len(l[crow]) : l[crow][i] = cnode
      BY <2>2 DEF WalkIs, WalkAt
    <3>2. cnode \in live
      BY <3>1, PlaceIs
    <3>3. QED BY <3>2
  <2>3. QED BY <2>1, <2>2
<1>6. crow \in 0..nrows
  BY DEF WalkIs, WalkAt
<1>7. FrontKeeps(l, q, crow, cnode, rowOf[k], n)
  BY <1>2, <1>4, <1>5, <1>6, FrontAhead
<1>8. ASSUME NEW r \in H!Rows, NEW i \in 1..Len(l[r]), NEW j \in 1..Len(q[r]), SamePlace(l, q, crow, cnode, r, i, j)
      PROVE  /\ node'[q[r][j]].key = node[l[r][i]].key /\ q[r][j] = l[r][i]
             /\ (Ahead(q, crow, cnode, r, j) <=> Ahead(l, crow, cnode, r, i))
  BY <1>2, <1>8, PlaceIs DEF SamePlace
<1>9. cnode # 0 => crow \in H!Rows /\ \E j \in 1..Len(q[crow]) : q[crow][j] = cnode
  <2>1. SUFFICES ASSUME cnode # 0 PROVE crow \in H!Rows /\ \E j \in 1..Len(q[crow]) : q[crow][j] = cnode
    OBVIOUS
  <2>2. crow \in H!Rows /\ \E i \in 1..Len(l[crow]) : l[crow][i] = cnode
    BY <2>1 DEF WalkIs, WalkAt
  <2>3. QED BY <2>2, <1>7 DEF FrontKeeps, SamePlace
<1>10. ASSUME NEW r \in H!Rows, NEW j \in 1..Len(q[r]), node'[q[r][j]].key \in Met(seen)
       PROVE  ~Ahead(q, crow, cnode, r, j)
  <2>1. CASE \E i \in 1..Len(l[r]) : SamePlace(l, q, crow, cnode, r, i, j)
    <3>1. PICK i \in 1..Len(l[r]) : SamePlace(l, q, crow, cnode, r, i, j)
      BY <2>1
    <3>2. ~Ahead(l, crow, cnode, r, i)
      BY <3>1, <1>8, <1>10 DEF WalkIs, WalkAt
    <3>3. QED BY <3>1, <3>2, <1>8
  <2>2. CASE r = rowOf[k] /\ q[r][j] = n /\ (rowOf[k] <= crow => ~Ahead(q, crow, cnode, r, j))
    <3>1. k \in Met(seen)
      BY <2>2, <1>2, <1>10
    <3>2. rowOf[k] <= crow
      BY <3>1 DEF WalkIs, WalkAt
    <3>3. QED BY <3>2, <2>2
  <2>3. QED BY <2>1, <2>2, <1>7 DEF FrontKeeps
<1>11. ASSUME NEW h \in stayed
       PROVE  \/ h \in Met(seen)
              \/ \E r \in H!Rows : \E j \in 1..Len(q[r]) : node'[q[r][j]].key = h /\ Ahead(q, crow, cnode, r, j)
  <2>1. CASE h \in Met(seen)
    BY <2>1
  <2>2. CASE h \notin Met(seen)
    <3>1. PICK r \in H!Rows : \E i \in 1..Len(l[r]) : node[l[r][i]].key = h /\ Ahead(l, crow, cnode, r, i)
      BY <2>2 DEF WalkIs, WalkAt
    <3>2. PICK i \in 1..Len(l[r]) : node[l[r][i]].key = h /\ Ahead(l, crow, cnode, r, i)
      BY <3>1
    <3>3. PICK j \in 1..Len(q[r]) : SamePlace(l, q, crow, cnode, r, i, j)
      BY <1>7 DEF FrontKeeps
    <3>4. node'[q[r][j]].key = h /\ Ahead(q, crow, cnode, r, j)
      BY <3>2, <3>3, <1>8
    <3>5. QED BY <3>4
  <2>3. QED BY <2>1, <2>2
<1>12. WalkIs(q)'
  <2>1. /\ seen \in Seq(Keys) /\ \A i, j \in 1..Len(seen) : seen[i] = seen[j] => i = j
        /\ crow \in 0..nrows /\ (cnode = 0 => crow = nrows)
        /\ \A h \in Met(seen) : rowOf'[h] <= crow
    BY <1>3 DEF WalkIs, WalkAt
  <2>2. /\ seen' \in Seq(Keys) /\ \A i, j \in 1..Len(seen') : seen'[i] = seen'[j] => i = j
        /\ crow' \in 0..nrows /\ (cnode' = 0 => crow' = nrows)
        /\ \A h \in Met(seen') : rowOf'[h] <= crow'
    BY <2>1, <1>3
  <2>3. cnode' # 0 => crow' \in H!Rows /\ \E j \in 1..Len(q[crow']) : q[crow'][j] = cnode'
    BY <1>3, <1>9
  <2>4. \A r \in H!Rows : \A j \in 1..Len(q[r]) :
          node'[q[r][j]].key \in Met(seen') => ~Ahead(q, crow', cnode', r, j)
    BY <1>3, <1>10
  <2>5. \A h \in stayed' : \/ h \in Met(seen')
              \/ \E r \in H!Rows : \E j \in 1..Len(q[r]) : node'[q[r][j]].key = h /\ Ahead(q, crow', cnode', r, j)
    BY <1>3, <1>11
  <2>6. QED BY <2>2, <2>3, <2>4, <2>5 DEF WalkIs, WalkAt
<1>13. QED BY <1>2, <1>12

(* hashmap_remove during a walk, unless it takes the node looked up ahead. *)
LEMMA WalkRemoves ==
  ASSUME TableSizes, NEW l, MapIs(l), WalkIs(l), NEW k \in Keys, H!hashmap_remove(k), steady'
  PROVE  \E q : MapIs(q)' /\ WalkIs(q)'
<1>1. PICK rr \in H!Rows : \E o \in 1..Len(l[rr]) : \E n \in live : \E q :
           /\ rr = rowOf[k] /\ n = l[rr][o] /\ n = H!NodeOf(k) /\ q = Without(l, rr, o)
           /\ MapIs(q)' /\ live' = live \ {n} /\ node[n].key = k /\ mapFault' = mapFault
           /\ \A m \in live' : node'[m].key = node[m].key /\ node'[m].data = node[m].data
  BY RemoveStep
<1>2. PICK o \in 1..Len(l[rr]) : \E n \in live : \E q :
           /\ rr = rowOf[k] /\ n = l[rr][o] /\ n = H!NodeOf(k) /\ q = Without(l, rr, o)
           /\ MapIs(q)' /\ live' = live \ {n} /\ node[n].key = k /\ mapFault' = mapFault
           /\ \A m \in live' : node'[m].key = node[m].key /\ node'[m].data = node[m].data
  BY <1>1
<1>3. PICK n \in live : \E q :
           /\ rr = rowOf[k] /\ n = l[rr][o] /\ n = H!NodeOf(k) /\ q = Without(l, rr, o)
           /\ MapIs(q)' /\ live' = live \ {n} /\ node[n].key = k /\ mapFault' = mapFault
           /\ \A m \in live' : node'[m].key = node[m].key /\ node'[m].data = node[m].data
  BY <1>2
<1>4. PICK q :
           /\ rr = rowOf[k] /\ n = l[rr][o] /\ n = H!NodeOf(k) /\ q = Without(l, rr, o)
           /\ MapIs(q)' /\ live' = live \ {n} /\ node[n].key = k /\ mapFault' = mapFault
           /\ \A m \in live' : node'[m].key = node[m].key /\ node'[m].data = node[m].data
  BY <1>3
<1>5. /\ cnode # n /\ crow' = crow /\ cnode' = cnode /\ seen' = seen /\ stayed' = stayed \ {k}
      /\ rowOf' = rowOf
  BY <1>4 DEF H!hashmap_remove, H!Still
<1>6. crow \in 0..nrows
  BY DEF WalkIs, WalkAt
<1>7. WithoutKeeps(l, q, crow, cnode, rr, o)
  BY <1>4, <1>5, <1>6, WithoutAhead
<1>8. ASSUME NEW r \in H!Rows, NEW i \in 1..Len(l[r]), NEW j \in 1..Len(q[r]), SamePlace(l, q, crow, cnode, r, i, j)
      PROVE  /\ node'[q[r][j]].key = node[l[r][i]].key /\ q[r][j] = l[r][i]
             /\ (Ahead(q, crow, cnode, r, j) <=> Ahead(l, crow, cnode, r, i))
  <2>1. q[r][j] \in live'
    <3>1. (\A s \in H!Rows : \A p \in 1..Len(q[s]) : q[s][p] \in live)'
      BY <1>4, PlacesThen
    <3>2. QED BY <3>1
  <2>2. QED BY <2>1, <1>4, <1>8 DEF SamePlace
<1>9. cnode # 0 => crow \in H!Rows /\ \E j \in 1..Len(q[crow]) : q[crow][j] = cnode
  <2>1. SUFFICES ASSUME cnode # 0 PROVE crow \in H!Rows /\ \E j \in 1..Len(q[crow]) : q[crow][j] = cnode
    OBVIOUS
  <2>2. crow \in H!Rows /\ \E i \in 1..Len(l[crow]) : l[crow][i] = cnode
    BY <2>1 DEF WalkIs, WalkAt
  <2>3. PICK i \in 1..Len(l[crow]) : l[crow][i] = cnode
    BY <2>2
  <2>4. ~(crow = rr /\ i = o)
    BY <2>3, <1>4, <1>5
  <2>5. PICK j \in 1..Len(q[crow]) : SamePlace(l, q, crow, cnode, crow, i, j)
    BY <2>2, <2>4, <1>7 DEF WithoutKeeps
  <2>6. q[crow][j] = cnode
    BY <2>3, <2>5 DEF SamePlace
  <2>7. QED BY <2>2, <2>6
<1>10. ASSUME NEW r \in H!Rows, NEW j \in 1..Len(q[r]), node'[q[r][j]].key \in Met(seen)
       PROVE  ~Ahead(q, crow, cnode, r, j)
  <2>1. PICK i \in 1..Len(l[r]) : SamePlace(l, q, crow, cnode, r, i, j)
    BY <1>7 DEF WithoutKeeps
  <2>2. ~Ahead(l, crow, cnode, r, i)
    BY <2>1, <1>8, <1>10 DEF WalkIs, WalkAt
  <2>3. QED BY <2>1, <2>2, <1>8
<1>11. ASSUME NEW h \in stayed \ {k}
       PROVE  \/ h \in Met(seen)
              \/ \E r \in H!Rows : \E j \in 1..Len(q[r]) : node'[q[r][j]].key = h /\ Ahead(q, crow, cnode, r, j)
  <2>1. CASE h \in Met(seen)
    BY <2>1
  <2>2. CASE h \notin Met(seen)
    <3>1. PICK r \in H!Rows : \E i \in 1..Len(l[r]) : node[l[r][i]].key = h /\ Ahead(l, crow, cnode, r, i)
      BY <2>2 DEF WalkIs, WalkAt
    <3>2. PICK i \in 1..Len(l[r]) : node[l[r][i]].key = h /\ Ahead(l, crow, cnode, r, i)
      BY <3>1
    <3>3. ~(r = rr /\ i = o)
      BY <3>2, <1>4
    <3>4. PICK j \in 1..Len(q[r]) : SamePlace(l, q, crow, cnode, r, i, j)
      BY <3>3, <1>7 DEF WithoutKeeps
    <3>5. node'[q[r][j]].key = h /\ Ahead(q, crow, cnode, r, j)
      BY <3>2, <3>4, <1>8
    <3>6. QED BY <3>5
  <2>3. QED BY <2>1, <2>2
<1>12. WalkIs(q)'
  <2>1. /\ seen \in Seq(Keys) /\ \A i, j \in 1..Len(seen) : seen[i] = seen[j] => i = j
        /\ crow \in 0..nrows /\ (cnode = 0 => crow = nrows)
        /\ \A h \in Met(seen) : rowOf'[h] <= crow
    BY <1>5 DEF WalkIs, WalkAt
  <2>2. /\ seen' \in Seq(Keys) /\ \A i, j \in 1..Len(seen') : seen'[i] = seen'[j] => i = j
        /\ crow' \in 0..nrows /\ (cnode' = 0 => crow' = nrows)
        /\ \A h \in Met(seen') : rowOf'[h] <= crow'
    BY <2>1, <1>5
  <2>3. cnode' # 0 => crow' \in H!Rows /\ \E j \in 1..Len(q[crow']) : q[crow'][j] = cnode'
    BY <1>5, <1>9
  <2>4. \A r \in H!Rows : \A j \in 1..Len(q[r]) :
          node'[q[r][j]].key \in Met(seen') => ~Ahead(q, crow', cnode', r, j)
    BY <1>5, <1>10
  <2>5. \A h \in stayed' : \/ h \in Met(seen')
              \/ \E r \in H!Rows : \E j \in 1..Len(q[r]) : node'[q[r][j]].key = h /\ Ahead(q, crow', cnode', r, j)
    BY <1>5, <1>11
  <2>6. QED BY <2>2, <2>3, <2>4, <2>5 DEF WalkIs, WalkAt
<1>13. QED BY <1>4, <1>12

(* hashmap_set_keyops: a walk through an empty table is over.              *)
LEMMA WalkOver ==
  ASSUME TableSizes, NEW l, MapIs(l), WalkIs(l), NEW rows \in [Keys -> H!Rows], H!hashmap_set_keyops(rows)
  PROVE  MapIs(l)' /\ WalkIs(l)'
<1>1. MapIs(l)' /\ live = {} /\ node' = node
  BY KeyopsStep
<1>2. /\ crow' = crow /\ cnode' = cnode /\ seen' = seen /\ stayed' = stayed /\ rowOf' = rows
  BY DEF H!hashmap_set_keyops, H!walkVars
<1>3. \A r \in H!Rows : \A i \in 1..Len(l[r]) : FALSE
  BY <1>1, PlaceIs
<1>4. cnode = 0 /\ crow = nrows
  BY <1>3 DEF WalkIs, WalkAt
<1>5. \A h \in Met(seen) : h \in Keys
  BY DEF Met, WalkIs, WalkAt
<1>6. \A h \in Met(seen) : rows[h] <= nrows
  <2>1. \A h \in Keys : rows[h] \in 0..(nrows - 1)
    BY DEF H!Rows
  <2>2. QED BY <2>1, <1>5 DEF TableSizes
<1>7. WalkAt(l, crow, cnode, seen, stayed)'
  BY <1>1, <1>2, <1>3, <1>4, <1>6 DEF WalkIs, WalkAt
<1>8. QED BY <1>1, <1>7 DEF WalkIs

(* As long as the cursor has its walk to itself, the walk is right.        *)
WalkInv == mapFault = "none" => \E l : MapIs(l) /\ (steady => WalkIs(l))

(* Every step keeps the walk right, or ends it.                            *)
LEMMA WalkStep == ASSUME TableSizes, WalkInv, [H!Next]_H!vars PROVE WalkInv'
<1>1. CASE UNCHANGED H!vars
  <2>1. ASSUME NEW l, MapIs(l), steady => WalkIs(l) PROVE MapIs(l)' /\ (steady' => WalkIs(l)')
    BY <1>1, <2>1, SameMap DEF H!vars, H!dataVars, H!walkVars, WalkIs, WalkAt
  <2>2. QED BY <1>1, <2>1 DEF H!vars, WalkInv
<1>2. CASE H!Next
  <2>1. mapFault = "none" /\ \E l : MapIs(l) /\ (steady => WalkIs(l))
    BY <1>2 DEF H!Next, WalkInv
  <2>2. PICK l : MapIs(l) /\ (steady => WalkIs(l))
    BY <2>1
  <2>3. MapInv
    BY <2>1 DEF MapInv
  <2>4. mapFault' = "none" => \E q : MapIs(q)'
    BY <1>2, <2>3, MapStep DEF MapInv
  <2>5. CASE ~steady'
    BY <2>4, <2>5 DEF WalkInv
  <2>6. CASE steady' /\ mapFault' = "none"
    <3>1. ASSUME NEW rows \in [Keys -> H!Rows], H!hashmap_set_keyops(rows) PROVE WalkInv'
      <4>1. steady
        BY <2>6, <3>1 DEF H!hashmap_set_keyops, H!walkVars
      <4>2. QED BY <4>1, <2>2, <3>1, WalkOver DEF WalkInv
    <3>2. CASE H!hashmap_findfirst
      <4>1. made
        BY <3>2 DEF H!hashmap_findfirst
      <4>2. QED BY <4>1, <2>2, <3>2, WalkStarts DEF WalkInv
    <3>3. CASE H!hashmap_findnext
      <4>1. steady
        BY <2>6, <3>3 DEF H!hashmap_findnext
      <4>2. QED BY <4>1, <2>2, <3>3, WalkGoesOn DEF WalkInv
    <3>4. ASSUME NEW k \in Keys, H!hashmap_remove(k) PROVE WalkInv'
      <4>1. steady
        BY <2>6, <3>4 DEF H!hashmap_remove, H!Still
      <4>2. QED BY <4>1, <2>2, <2>6, <3>4, WalkRemoves DEF WalkInv
    <3>5. ASSUME NEW k \in Keys, NEW d \in {k, NoData}, H!AddNew(k, d) PROVE WalkInv'
      <4>1. steady
        BY <2>6, <3>5 DEF H!AddNew, H!walkVars
      <4>2. QED BY <4>1, <2>2, <3>5, WalkAdds DEF WalkInv
    <3>6. \A rows \in [Keys -> H!Rows], b \in BOOLEAN : ~H!hashmap_new(rows, b)
      BY <2>6 DEF H!hashmap_new, H!Still
    <3>7. ~H!hashmap_delete /\ ~H!FindNextFreed
      BY <2>6 DEF H!hashmap_delete, H!FindNextFreed, H!Still
    <3>8. \A k \in Keys : ~H!AddKnown(k) /\ ~H!FindMoves(k)
      BY <2>6 DEF H!AddKnown, H!FindMoves, H!Still
    <3>9. QED BY <1>2, <3>1, <3>2, <3>3, <3>4, <3>5, <3>6, <3>7, <3>8 DEF H!Next
  <2>7. QED BY <2>5, <2>6 DEF WalkInv
<1>3. QED BY <1>1, <1>2

(* hashmap.c, findfirst and findnext: a walk meets every key that was      *)
(* there all the time, none twice, and no freed node, whatever is added    *)
(* and removed meanwhile.                                                  *)
THEOREM MapWalkMeetsAll == ASSUME TableSizes PROVE H!Spec => []H!WalkMeetsAll
<1>1. H!Init => WalkInv
  BY MapInit DEF WalkInv, H!Init
<1>2. WalkInv /\ [H!Next]_H!vars => WalkInv'
  BY WalkStep
<1>3. WalkInv => H!WalkMeetsAll
  <2>1. ASSUME NEW l, MapIs(l), WalkIs(l)
        PROVE  /\ \A i, j \in DOMAIN seen : seen[i] = seen[j] => i = j
               /\ cnode # 0 => cnode \in live
               /\ cnode = 0 => \A k \in stayed : \E i \in DOMAIN seen : seen[i] = k
    <3>1. seen \in Seq(Keys) /\ \A i, j \in 1..Len(seen) : seen[i] = seen[j] => i = j
      BY <2>1 DEF WalkIs, WalkAt
    <3>2. DOMAIN seen = 1..Len(seen)
      BY <3>1
    <3>3. cnode # 0 => cnode \in live
      <4>1. cnode # 0 => crow \in H!Rows /\ \E i \in 1..Len(l[crow]) : l[crow][i] = cnode
        BY <2>1 DEF WalkIs, WalkAt
      <4>2. QED BY <4>1, <2>1, PlacesNow
    <3>4. ASSUME cnode = 0, NEW k \in stayed PROVE k \in Met(seen)
      <4>1. crow = nrows
        BY <3>4, <2>1 DEF WalkIs, WalkAt
      <4>2. \A r \in H!Rows : ~(crow < r) /\ crow # r
        BY <4>1 DEF TableSizes, H!Rows
      <4>3. \A r \in H!Rows : \A j \in 1..Len(l[r]) : ~Ahead(l, crow, cnode, r, j)
        BY <4>2 DEF Ahead
      <4>4. QED BY <4>3, <3>4, <2>1 DEF WalkIs, WalkAt
    <3>5. QED BY <3>1, <3>2, <3>3, <3>4 DEF Met
  <2>2. QED BY <2>1 DEF WalkInv, H!WalkMeetsAll
<1>4. QED BY <1>1, <1>2, <1>3, PTL DEF H!Spec

-----------------------------------------------------------------------------
(* eproperty, estring: a piece of a text is what is behind place a up to   *)
(* place b.                                                                *)
Within(s, a, b) == a \in Nat /\ b \in Nat /\ a <= b /\ b <= Len(s)
Mid(s, a, b) == SubSeq(s, a + 1, b)

LEMMA CutIs ==
  ASSUME NEW C, NEW s \in Seq(C), NEW a, NEW b, Within(s, a, b)
  PROVE  /\ Mid(s, a, b) \in Seq(C) /\ Len(Mid(s, a, b)) = b - a
         /\ \A i \in 1..(b - a) : Mid(s, a, b)[i] = s[a + i]
<1>1. Len(s) \in Nat /\ a \in Nat /\ b \in Nat /\ a <= b /\ b <= Len(s)
  BY DEF Within
<1>2. QED BY <1>1, Piece DEF Mid

IsPiece(C, s, a, b, t) ==
  t \in Seq(C) /\ Len(t) = b - a /\ \A i \in 1..(b - a) : t[i] = s[a + i]

LEMMA CutIsPiece ==
  ASSUME NEW C, NEW s \in Seq(C), NEW a, NEW b, Within(s, a, b)
  PROVE  IsPiece(C, s, a, b, Mid(s, a, b))
BY CutIs DEF IsPiece

LEMMA CutOfCut ==
  ASSUME NEW C, NEW s \in Seq(C), NEW a, NEW b, Within(s, a, b),
         NEW x, NEW y, Within(Mid(s, a, b), x, y)
  PROVE  /\ Within(s, a + x, a + y) /\ a + y <= b
         /\ Mid(Mid(s, a, b), x, y) = Mid(s, a + x, a + y)
<1>. DEFINE t == Mid(s, a, b)
<1>1. t \in Seq(C) /\ Len(t) = b - a /\ \A i \in 1..(b - a) : t[i] = s[a + i]
  BY CutIs
<1>2. /\ Len(s) \in Nat /\ a \in Nat /\ b \in Nat /\ a <= b /\ b <= Len(s)
      /\ x \in Nat /\ y \in Nat /\ x <= y /\ y <= b - a
  BY <1>1 DEF Within
<1>3. Within(s, a + x, a + y) /\ a + y <= b
  BY <1>2 DEF Within
<1>4. Within(t, x, y)
  OBVIOUS
<1>. HIDE DEF t
<1>. DEFINE u == Mid(t, x, y)
            v == Mid(s, a + x, a + y)
<1>5. u \in Seq(C) /\ Len(u) = y - x /\ \A i \in 1..(y - x) : u[i] = t[x + i]
  BY <1>1, <1>4, CutIs
<1>6. /\ v \in Seq(C) /\ Len(v) = (a + y) - (a + x)
      /\ \A i \in 1..((a + y) - (a + x)) : v[i] = s[(a + x) + i]
  BY <1>3, CutIs
<1>. HIDE DEF u, v
<1>7. Len(u) = Len(v) /\ Len(u) = y - x
  BY <1>2, <1>5, <1>6
<1>8. ASSUME NEW i \in 1..(y - x) PROVE u[i] = v[i]
  <2>1. x + i \in 1..(b - a) /\ i \in 1..((a + y) - (a + x)) /\ a + (x + i) = (a + x) + i
    BY <1>2
  <2>2. QED BY <2>1, <1>1, <1>5, <1>6
<1>9. u = v
  BY <1>5, <1>6, <1>7, <1>8, SeqEqual
<1>10. QED BY <1>3, <1>9 DEF t, u, v

(* The whole, a beginning and an end as pieces.                            *)
LEMMA WholeCut ==
  ASSUME NEW C, NEW s \in Seq(C) PROVE Within(s, 0, Len(s)) /\ Mid(s, 0, Len(s)) = s
<1>1. Len(s) \in Nat /\ 0 + 1 = 1
  OBVIOUS
<1>2. SubSeq(s, 1, Len(s)) = s
  BY SubSeqFull
<1>3. QED BY <1>1, <1>2 DEF Within, Mid

LEMMA EmptyCut ==
  ASSUME NEW C, NEW s \in Seq(C), NEW a, Within(s, a, a) PROVE Mid(s, a, a) = <<>>
<1>1. Mid(s, a, a) \in Seq(C) /\ Len(Mid(s, a, a)) = a - a
  BY CutIs
<1>2. a - a = 0
  BY DEF Within
<1>3. QED BY <1>1, <1>2, EmptySeq

LEMMA FirstCut ==
  ASSUME NEW C, NEW s \in Seq(C), NEW n \in 0..Len(s)
  PROVE  /\ Within(s, 0, n) /\ P!FirstN(s, n) = Mid(s, 0, n)
         /\ SubSeq(s, 1, n) = Mid(s, 0, n)
<1>1. Len(s) \in Nat
  OBVIOUS
<1>2. (IF n < Len(s) THEN n ELSE Len(s)) = n /\ 0 + 1 = 1
  BY <1>1
<1>3. Within(s, 0, n)
  BY <1>1 DEF Within
<1>4. QED BY <1>2, <1>3 DEF P!FirstN, Mid

LEMMA LastCut ==
  ASSUME NEW C, NEW s \in Seq(C), NEW n \in 0..Len(s)
  PROVE  Within(s, n, Len(s)) /\ P!From(s, n + 1) = Mid(s, n, Len(s))
<1>1. Len(s) \in Nat
  OBVIOUS
<1>2. QED BY <1>1 DEF P!From, Mid, Within

(* The least and the greatest place.                                       *)
LEMMA FirstPlace ==
  ASSUME NEW I, I \subseteq Nat, I # {}
  PROVE  P!Min(I) \in I /\ \A k \in I : P!Min(I) <= k
<1>1. PICK m \in I : \A k \in I : m <= k
  BY Least
<1>2. QED BY <1>1 DEF P!Min

LEMMA LastPlace ==
  ASSUME NEW I, I \subseteq Nat, I # {}, NEW n \in Nat, \A k \in I : k <= n
  PROVE  P!Max(I) \in I /\ \A k \in I : k <= P!Max(I)
<1>1. PICK m \in I : \A k \in I : k <= m
  BY Greatest
<1>2. QED BY <1>1 DEF P!Max

-----------------------------------------------------------------------------
(* What a text loses when it is trimmed is white; what is left begins and  *)
(* ends with something else.                                               *)
AllWhite(s, a, b) == \A j \in (a + 1)..b : s[j] \in P!White
IsTrim(s, t, x, y) ==
  /\ Within(s, x, y) /\ t = Mid(s, x, y)
  /\ AllWhite(s, 0, x) /\ AllWhite(s, y, Len(s))
  /\ x < y => s[x + 1] \notin P!Blank /\ s[y] \notin P!White

LEMMA TrimIs ==
  ASSUME NEW C, NEW s \in Seq(C) PROVE \E x, y \in Nat : IsTrim(s, P!trim_str(s), x, y)
<1>1. Len(s) \in Nat /\ DOMAIN s = 1..Len(s) /\ P!Blank \subseteq P!White
  BY DEF P!Blank, P!White
<1>2. CASE P!is_blank(s)
  <2>1. P!trim_str(s) = <<>>
    BY <1>2 DEF P!trim_str
  <2>2. Within(s, 0, 0)
    BY <1>1 DEF Within
  <2>3. Mid(s, 0, 0) = <<>>
    BY <2>2, EmptyCut
  <2>4. AllWhite(s, 0, 0) /\ AllWhite(s, 0, Len(s))
    BY <1>1, <1>2 DEF AllWhite, P!is_blank
  <2>5. IsTrim(s, P!trim_str(s), 0, 0)
    BY <2>1, <2>2, <2>3, <2>4 DEF IsTrim
  <2>6. QED BY <2>5
<1>3. CASE ~P!is_blank(s)
  <2>. DEFINE I == {i \in 1..Len(s) : s[i] \notin P!Blank}
              J == {i \in 1..Len(s) : s[i] \notin P!White}
  <2>1. J # {} /\ J \subseteq I /\ I \subseteq Nat /\ J \subseteq Nat
        /\ \A k \in J : k <= Len(s)
    BY <1>1, <1>3 DEF P!is_blank
  <2>2. P!trim_str(s) = SubSeq(s, P!Min(I), P!Max(J))
    <3>1. I # {} /\ J # {}
      BY <2>1
    <3>2. QED BY <1>3, <3>1, Zenon DEF P!trim_str, P!SelectInSeq, P!SelectLastInSeq
  <2>3. P!Min(I) \in I /\ \A k \in I : P!Min(I) <= k
    BY <2>1, FirstPlace
  <2>4. P!Max(J) \in J /\ \A k \in J : k <= P!Max(J)
    BY <1>1, <2>1, LastPlace
  <2>5. PICK m, y : m = P!Min(I) /\ y = P!Max(J)
    OBVIOUS
  <2>6. /\ m \in I /\ (\A k \in I : m <= k) /\ y \in J /\ (\A k \in J : k <= y)
        /\ P!trim_str(s) = SubSeq(s, m, y)
    BY <2>2, <2>3, <2>4, <2>5
  <2>7. m <= y /\ m \in 1..Len(s) /\ y \in 1..Len(s)
    BY <2>1, <2>6
  <2>8. PICK x \in Nat : m = x + 1
    <3>1. m - 1 \in Nat /\ m = (m - 1) + 1
      BY <2>7, <1>1
    <3>2. QED BY <3>1
  <2>9. Within(s, x, y) /\ P!trim_str(s) = Mid(s, x, y) /\ y \in Nat
    BY <2>6, <2>7, <2>8, <1>1 DEF Within, Mid
  <2>10. AllWhite(s, 0, x)
    <3>1. \A j \in (0 + 1)..x : j \in 1..Len(s) /\ ~(m <= j)
      BY <2>7, <2>8, <1>1
    <3>2. QED BY <3>1, <2>6, <1>1 DEF AllWhite
  <2>11. AllWhite(s, y, Len(s))
    <3>1. \A j \in (y + 1)..Len(s) : j \in 1..Len(s) /\ ~(j <= y)
      BY <2>7, <1>1
    <3>2. QED BY <3>1, <2>6 DEF AllWhite
  <2>12. IsTrim(s, P!trim_str(s), x, y)
    BY <2>6, <2>8, <2>9, <2>10, <2>11 DEF IsTrim
  <2>13. QED BY <2>9, <2>12
<1>4. QED BY <1>2, <1>3

LEMMA TrimIsBare ==
  ASSUME NEW C, NEW s \in Seq(C), NEW t, NEW x, NEW y, IsTrim(s, t, x, y)
  PROVE  t \in Seq(C) /\ P!Bare(t)
<1>1. t \in Seq(C) /\ Len(t) = y - x /\ \A i \in 1..(y - x) : t[i] = s[x + i]
  BY CutIs DEF IsTrim
<1>2. ASSUME t # <<>> PROVE t[1] \notin P!Blank /\ t[Len(t)] \notin P!White
  <2>1. Len(t) # 0
    BY <1>1, <1>2, EmptySeq
  <2>2. x < y /\ 1 \in 1..(y - x) /\ y - x \in 1..(y - x) /\ x + (y - x) = y
    BY <1>1, <2>1 DEF IsTrim, Within
  <2>3. t[1] = s[x + 1] /\ t[Len(t)] = s[y]
    BY <1>1, <2>2
  <2>4. QED BY <2>2, <2>3 DEF IsTrim
<1>3. QED BY <1>1, <1>2 DEF P!Bare

(* A trimmed piece of a text that is white around it is the text trimmed.  *)
LEMMA TrimInWhite ==
  ASSUME NEW C, NEW r \in Seq(C), NEW a, NEW b, Within(r, a, b),
         AllWhite(r, 0, a), AllWhite(r, b, Len(r)),
         NEW t, NEW x, NEW y, IsTrim(Mid(r, a, b), t, x, y)
  PROVE  IsTrim(r, t, a + x, a + y)
<1>. DEFINE s == Mid(r, a, b)
<1>1. s \in Seq(C) /\ Len(s) = b - a /\ \A i \in 1..(b - a) : s[i] = r[a + i]
  BY CutIs
<1>2. Within(s, x, y) /\ t = Mid(s, x, y)
  BY DEF IsTrim
<1>3. Within(r, a + x, a + y) /\ a + y <= b /\ t = Mid(r, a + x, a + y)
  BY <1>2, CutOfCut
<1>4. /\ AllWhite(s, 0, x) /\ AllWhite(s, y, Len(s))
      /\ x < y => s[x + 1] \notin P!Blank /\ s[y] \notin P!White
  BY DEF IsTrim
<1>. HIDE DEF s
<1>5. /\ Len(r) \in Nat /\ a \in Nat /\ b \in Nat /\ a <= b /\ b <= Len(r)
      /\ x \in Nat /\ y \in Nat /\ x <= y /\ y <= b - a
  BY <1>1, <1>2 DEF Within
<1>6. AllWhite(r, 0, a + x)
  <2>. SUFFICES ASSUME NEW j \in (0 + 1)..(a + x) PROVE r[j] \in P!White
    BY DEF AllWhite
  <2>1. CASE j <= a
    <3>1. j \in (0 + 1)..a
      BY <1>5, <2>1
    <3>2. QED BY <3>1 DEF AllWhite
  <2>2. CASE ~(j <= a)
    <3>1. j - a \in (0 + 1)..x /\ j - a \in 1..(b - a) /\ a + (j - a) = j
      BY <1>5, <2>2
    <3>2. QED BY <1>1, <1>4, <3>1 DEF AllWhite
  <2>3. QED BY <2>1, <2>2
<1>7. AllWhite(r, a + y, Len(r))
  <2>. SUFFICES ASSUME NEW j \in (a + y + 1)..Len(r) PROVE r[j] \in P!White
    BY DEF AllWhite
  <2>1. CASE b < j
    <3>1. j \in (b + 1)..Len(r)
      BY <1>5, <2>1
    <3>2. QED BY <3>1 DEF AllWhite
  <2>2. CASE ~(b < j)
    <3>1. Len(s) = b - a /\ j \in Int /\ a + y + 1 <= j /\ j <= b
      BY <1>1, <1>5, <2>2
    <3>2. /\ y + 1 <= j - a /\ j - a <= b - a /\ 1 <= j - a /\ j - a \in Int
          /\ a + (j - a) = j
      BY <1>5, <3>1
    <3>3. j - a \in (y + 1)..Len(s) /\ j - a \in 1..(b - a)
      BY <1>5, <3>1, <3>2
    <3>4. QED BY <1>1, <1>4, <3>2, <3>3 DEF AllWhite
  <2>3. QED BY <2>1, <2>2
<1>8. ASSUME a + x < a + y PROVE r[a + x + 1] \notin P!Blank /\ r[a + y] \notin P!White
  <2>1. x < y /\ x + 1 \in 1..(b - a) /\ y \in 1..(b - a) /\ a + x + 1 = a + (x + 1)
    BY <1>5, <1>8
  <2>2. QED BY <2>1, <1>1, <1>4
<1>9. QED BY <1>3, <1>6, <1>7, <1>8 DEF IsTrim

(* The white space before it and a trimmed text begin the text.            *)
LEMMA InWhite ==
  ASSUME NEW C, NEW r \in Seq(C), NEW t, NEW x, NEW y, IsTrim(r, t, x, y)
  PROVE  /\ \E w \in P!Whites(r) : Len(w \o t) = y /\ P!IsPrefix(w \o t, r)
         /\ P!is_blank(Mid(r, y, Len(r)))
<1>. DEFINE w == Mid(r, 0, x)
            u == Mid(r, 0, y)
<1>1. Within(r, x, y) /\ t = Mid(r, x, y) /\ AllWhite(r, 0, x) /\ AllWhite(r, y, Len(r))
  BY DEF IsTrim
<1>2. Len(r) \in Nat /\ x \in Nat /\ y \in Nat /\ x <= y /\ y <= Len(r)
  BY <1>1 DEF Within
<1>3. Within(r, 0, x) /\ Within(r, 0, y) /\ Within(r, y, Len(r)) /\ x \in 0..Len(r)
      /\ y \in 0..Len(r)
  BY <1>2 DEF Within
<1>4. w \in Seq(C) /\ Len(w) = x - 0 /\ \A i \in 1..(x - 0) : w[i] = r[0 + i]
  <2>1. Within(r, 0, x)
    BY <1>3
  <2>2. QED BY <2>1, CutIs
<1>5. t \in Seq(C) /\ Len(t) = y - x /\ \A i \in 1..(y - x) : t[i] = r[x + i]
  BY <1>1, CutIs
<1>6. u \in Seq(C) /\ Len(u) = y - 0 /\ \A i \in 1..(y - 0) : u[i] = r[0 + i]
  BY <1>3, CutIs
<1>7. w = SubSeq(r, 1, x) /\ u = SubSeq(r, 1, y)
  BY <1>3, FirstCut
<1>8. w \in P!Whites(r)
  <2>1. w \in P!Prefixes(r)
    BY <1>3, <1>7 DEF P!Prefixes
  <2>2. \A i \in DOMAIN w : w[i] \in P!White
    <3>. HIDE DEF w
    <3>1. DOMAIN w = 1..x /\ \A i \in 1..x : i \in (0 + 1)..x /\ 0 + i = i /\ i \in 1..(x - 0)
      BY <1>2, <1>4
    <3>2. QED BY <1>1, <1>4, <3>1 DEF AllWhite
  <2>3. QED BY <2>1, <2>2 DEF P!Whites, P!is_blank
<1>9. w \o t = u
  <2>. HIDE DEF w, u
  <2>1. w \o t \in Seq(C) /\ Len(w \o t) = Len(w) + Len(t)
    <3>1. w \in Seq(C) /\ t \in Seq(C)
      BY <1>4, <1>5
    <3>2. QED BY <3>1, ConcatProperties
  <2>2. Len(w \o t) = Len(u) /\ Len(w \o t) = y
    BY <2>1, <1>2, <1>4, <1>5, <1>6
  <2>3. ASSUME NEW i \in 1..Len(w \o t) PROVE (w \o t)[i] = u[i]
    <3>1. CASE i <= x
      <4>1. i \in 1..Len(w) /\ i \in 1..(x - 0) /\ i \in 1..(y - 0)
        BY <3>1, <2>2, <1>2, <1>4
      <4>2. (w \o t)[i] = w[i]
        BY <4>1, <1>4, <1>5
      <4>3. QED BY <4>1, <4>2, <1>4, <1>6
    <3>2. CASE ~(i <= x)
      <4>1. i - x \in 1..(y - x) /\ i \in 1..(y - 0) /\ x + (i - x) = 0 + i /\ Len(w) = x
        BY <3>2, <2>2, <1>2, <1>4
      <4>2. (w \o t)[i] = t[i - x]
        BY <4>1, <3>2, <2>1, <1>2, <1>4, <1>5
      <4>3. QED BY <4>1, <4>2, <1>5, <1>6
    <3>3. QED BY <3>1, <3>2
  <2>4. QED BY <2>1, <2>2, <2>3, <1>6, SeqEqual
<1>10. P!IsPrefix(u, r)
  <2>1. Len(u) = y
    BY <1>2, <1>6
  <2>2. Within(u, 0, y) /\ Mid(u, 0, y) = u
    BY <2>1, <1>6, WholeCut
  <2>3. SubSeq(u, 1, y) = u
    <3>1. y \in 0..Len(u)
      BY <1>2, <2>1
    <3>2. SubSeq(u, 1, y) = Mid(u, 0, y)
      BY <3>1, <1>6, FirstCut
    <3>3. QED BY <3>2, <2>2
  <2>4. Len(u) <= Len(r) /\ SubSeq(u, 1, Len(u)) = SubSeq(r, 1, Len(u))
    BY <2>1, <2>3, <1>2, <1>7
  <2>. HIDE DEF u
  <2>5. QED BY <2>4 DEF P!IsPrefix
<1>11. P!is_blank(Mid(r, y, Len(r)))
  <2>. DEFINE z == Mid(r, y, Len(r))
  <2>1. z \in Seq(C) /\ Len(z) = Len(r) - y /\ \A i \in 1..(Len(r) - y) : z[i] = r[y + i]
    <3>1. Within(r, y, Len(r))
      BY <1>3
    <3>2. QED BY <3>1, CutIs
  <2>. HIDE DEF z
  <2>2. DOMAIN z = 1..(Len(r) - y) /\ \A i \in 1..(Len(r) - y) : y + i \in (y + 1)..Len(r)
    BY <2>1, <1>2
  <2>3. \A i \in DOMAIN z : z[i] \in P!White
    BY <2>1, <2>2, <1>1 DEF AllWhite
  <2>4. QED BY <2>3 DEF P!is_blank, z
<1>12. Len(w \o t) = y
  BY <1>2, <1>6, <1>9
<1>13. QED BY <1>8, <1>9, <1>10, <1>11, <1>12

-----------------------------------------------------------------------------
(* What is left of a line in front of its comment.                         *)
IsBefore(l, d, e, c) ==
  /\ Within(l, 0, e) /\ d = Mid(l, 0, e) /\ (e = Len(l) \/ l[e + 1] = c)
  /\ \A j \in 1..e : l[j] # c

LEMMA CommentGone ==
  ASSUME NEW C, NEW l \in Seq(C), NEW c
  PROVE  \E e \in Nat : IsBefore(l, P!delete_comment(l, c), e, c)
<1>1. Len(l) \in Nat /\ DOMAIN l = 1..Len(l)
  OBVIOUS
<1>. DEFINE I == {i \in 1..Len(l) : l[i] = c}
<1>2. CASE I = {}
  <2>1. P!delete_comment(l, c) = l
    BY <1>1, <1>2 DEF P!delete_comment
  <2>2. Within(l, 0, Len(l)) /\ Mid(l, 0, Len(l)) = l
    BY WholeCut
  <2>3. IsBefore(l, P!delete_comment(l, c), Len(l), c)
    BY <1>1, <1>2, <2>1, <2>2 DEF IsBefore
  <2>4. QED BY <1>1, <2>3
<1>3. CASE I # {}
  <2>1. PICK m : m = P!Min(I)
    OBVIOUS
  <2>2. m \in I /\ \A k \in I : m <= k
    <3>1. I \subseteq Nat
      OBVIOUS
    <3>2. QED BY <3>1, <2>1, <1>3, FirstPlace
  <2>3. P!delete_comment(l, c) = P!FirstN(l, m - 1)
    <3>1. \E i \in DOMAIN l : l[i] = c
      BY <1>1, <1>3
    <3>2. QED BY <1>3, <2>1, <3>1, Zenon DEF P!delete_comment, P!SelectInSeq
  <2>4. PICK e \in Nat : m = e + 1 /\ m - 1 = e /\ e \in 0..Len(l)
    <3>1. m - 1 \in Nat /\ m = (m - 1) + 1 /\ m - 1 \in 0..Len(l)
      BY <2>2, <1>1
    <3>2. QED BY <3>1
  <2>5. Within(l, 0, e) /\ P!FirstN(l, e) = Mid(l, 0, e)
    BY <2>4, FirstCut
  <2>6. \A j \in 1..e : l[j] # c
    <3>1. \A j \in 1..e : j \in 1..Len(l) /\ ~(m <= j)
      BY <1>1, <2>2, <2>4
    <3>2. QED BY <3>1, <2>2
  <2>7. l[e + 1] = c
    BY <2>2, <2>4
  <2>8. IsBefore(l, P!delete_comment(l, c), e, c)
    BY <2>3, <2>4, <2>5, <2>6, <2>7 DEF IsBefore
  <2>9. QED BY <2>8
<1>4. QED BY <1>2, <1>3

(* The content of a line: it ends before the comment and is white around.  *)
IsContent(l, a, b, e) ==
  /\ Within(l, a, b) /\ Within(l, 0, e) /\ b <= e
  /\ P!Content(l) = Mid(l, a, b)
  /\ e = Len(l) \/ l[e + 1] = comment_char
  /\ \A j \in 1..e : l[j] # comment_char
  /\ AllWhite(l, 0, a) /\ AllWhite(l, b, e)
  /\ P!Bare(P!Content(l))

LEMMA ContentIs ==
  ASSUME NEW C, NEW l \in Seq(C)
  PROVE  \E a, b, e \in Nat : /\ IsContent(l, a, b, e)
                              /\ P!delete_comment(l, comment_char) = Mid(l, 0, e)
<1>1. PICK d : d = P!delete_comment(l, comment_char)
  OBVIOUS
<1>2. PICK e \in Nat : IsBefore(l, d, e, comment_char)
  BY <1>1, CommentGone
<1>3. /\ Within(l, 0, e) /\ d = Mid(l, 0, e)
      /\ e = Len(l) \/ l[e + 1] = comment_char
      /\ \A j \in 1..e : l[j] # comment_char
  BY <1>2 DEF IsBefore
<1>4. d \in Seq(C) /\ Len(d) = e - 0 /\ \A i \in 1..(e - 0) : d[i] = l[0 + i]
  BY <1>3, CutIs
<1>5. PICK c : c = P!trim_str(d)
  OBVIOUS
<1>6. \E x, y \in Nat : IsTrim(d, c, x, y)
  BY <1>4, <1>5, TrimIs
<1>7. PICK x \in Nat, y \in Nat : IsTrim(d, c, x, y)
  BY <1>6
<1>8. Within(d, x, y) /\ c = Mid(d, x, y) /\ AllWhite(d, 0, x) /\ AllWhite(d, y, Len(d))
  BY <1>7 DEF IsTrim
<1>9. Within(l, 0 + x, 0 + y) /\ 0 + y <= e /\ c = Mid(l, 0 + x, 0 + y)
  BY <1>3, <1>8, CutOfCut
<1>10. 0 + x = x /\ 0 + y = y
  OBVIOUS
<1>11. Len(d) = e /\ x <= y /\ y <= e /\ e <= Len(l) /\ Len(l) \in Nat
  BY <1>3, <1>4, <1>8 DEF Within
<1>12. AllWhite(l, 0, x) /\ AllWhite(l, y, e)
  <2>1. \A j \in 1..e : d[j] = l[j] /\ j \in 1..(e - 0) /\ 0 + j = j
    BY <1>4
  <2>2. \A j \in (0 + 1)..x : j \in 1..e
    BY <1>11
  <2>3. \A j \in (y + 1)..e : j \in 1..e
    BY <1>11
  <2>4. QED BY <1>8, <1>11, <2>1, <2>2, <2>3 DEF AllWhite
<1>13. P!Content(l) = c
  BY <1>1, <1>5 DEF P!Content
<1>14. P!Bare(c)
  BY <1>4, <1>7, TrimIsBare
<1>15. IsContent(l, x, y, e)
  BY <1>3, <1>9, <1>10, <1>12, <1>13, <1>14 DEF IsContent
<1>16. QED BY <1>1, <1>3, <1>15

(* Key and value are the trimmed pieces on both sides of the first =.      *)
LEMMA SplitIs ==
  ASSUME NEW C, NEW l \in Seq(C), NEW a, NEW b, NEW e, IsContent(l, a, b, e),
         NEW q \in 1..e, l[q] = "="
  PROVE  \E o \in Nat :
           /\ Within(l, a, o) /\ Within(l, o + 1, b) /\ l[o + 1] = "="
           /\ \A j \in 1..o : l[j] # "="
           /\ P!Item(l) = [key |-> P!trim_str(Mid(l, a, o)),
                           value |-> P!trim_str(Mid(l, o + 1, b))]
<1>1. /\ Within(l, a, b) /\ Within(l, 0, e) /\ b <= e /\ P!Content(l) = Mid(l, a, b)
      /\ AllWhite(l, 0, a) /\ AllWhite(l, b, e)
  BY DEF IsContent
<1>2. /\ Len(l) \in Nat /\ a \in Nat /\ b \in Nat /\ e \in Nat
      /\ a <= b /\ b <= e /\ e <= Len(l)
  BY <1>1 DEF Within
<1>3. PICK c : c = P!Content(l)
  OBVIOUS
<1>4. c \in Seq(C) /\ Len(c) = b - a /\ \A i \in 1..(b - a) : c[i] = l[a + i]
  BY <1>1, <1>3, CutIs
<1>5. "=" \notin P!White
  BY DEF P!White
<1>6. ASSUME NEW j \in 1..e, l[j] = "=" PROVE j - a \in 1..(b - a) /\ c[j - a] = "="
  <2>1. j \notin (0 + 1)..a /\ j \notin (b + 1)..e
    BY <1>1, <1>5, <1>6 DEF AllWhite
  <2>2. j - a \in 1..(b - a) /\ a + (j - a) = j
    BY <2>1, <1>2
  <2>3. QED BY <2>2, <1>4, <1>6
<1>. DEFINE I == {i \in 1..Len(c) : c[i] = "="}
<1>7. q - a \in I
  BY <1>4, <1>6
<1>8. PICK m : m = P!Min(I)
  OBVIOUS
<1>9. m \in I /\ \A i \in I : m <= i
  <2>1. I \subseteq Nat
    OBVIOUS
  <2>2. QED BY <2>1, <1>7, <1>8, FirstPlace
<1>10. P!SplitAt(c) = m
  BY <1>7, <1>8, Zenon DEF P!SplitAt, P!char_at, P!SelectInSeq
<1>11. PICK n \in Nat : m = n + 1 /\ m - 1 = n
  <2>1. m - 1 \in Nat /\ m = (m - 1) + 1
    BY <1>9
  <2>2. QED BY <2>1
<1>12. /\ n + 1 \in 1..(b - a) /\ c[n + 1] = "="
       /\ n \in 0..Len(c) /\ n + 1 \in 0..Len(c)
  BY <1>2, <1>4, <1>9, <1>11
<1>13. P!FirstN(c, n) = Mid(c, 0, n) /\ Within(c, 0, n)
  BY <1>4, <1>12, FirstCut
<1>14. P!From(c, n + 1 + 1) = Mid(c, n + 1, Len(c)) /\ Within(c, n + 1, Len(c))
  BY <1>4, <1>12, LastCut
<1>15. Within(l, a + 0, a + n) /\ Mid(c, 0, n) = Mid(l, a + 0, a + n)
  BY <1>1, <1>3, <1>13, CutOfCut
<1>16. /\ Within(l, a + (n + 1), a + Len(c))
       /\ Mid(c, n + 1, Len(c)) = Mid(l, a + (n + 1), a + Len(c))
  BY <1>1, <1>3, <1>14, CutOfCut
<1>17. PICK o \in Nat : o = a + n
  BY <1>2
<1>18. a + 0 = a /\ a + (n + 1) = o + 1 /\ a + Len(c) = b
  BY <1>2, <1>4, <1>17
<1>19. l[o + 1] = "="
  BY <1>4, <1>12, <1>18
<1>20. ASSUME NEW j \in 1..o, l[j] = "=" PROVE FALSE
  <2>1. j \in 1..e
    BY <1>2, <1>4, <1>12, <1>17
  <2>2. j - a \in I
    BY <2>1, <1>4, <1>6, <1>20
  <2>3. ~(m <= j - a)
    BY <2>1, <1>2, <1>11, <1>17
  <2>4. QED BY <2>2, <2>3, <1>9
<1>21. P!Item(l) = [key |-> P!trim_str(P!FirstN(c, m - 1)),
                    value |-> P!trim_str(P!From(c, m + 1))]
  <2>1. m # 0
    BY <1>11
  <2>. HIDE DEF I
  <2>2. QED BY <2>1, <1>3, <1>10 DEF P!Item
<1>22. P!Item(l) = [key |-> P!trim_str(Mid(l, a, o)),
                    value |-> P!trim_str(Mid(l, o + 1, b))]
  <2>. HIDE DEF I
  <2>1. P!FirstN(c, m - 1) = Mid(l, a, o)
    BY <1>11, <1>13, <1>15, <1>17, <1>18
  <2>2. P!From(c, m + 1) = Mid(l, o + 1, b)
    BY <1>11, <1>14, <1>16, <1>18
  <2>3. QED BY <2>1, <2>2, <1>21
<1>23. Within(l, a, o) /\ Within(l, o + 1, b)
  BY <1>15, <1>16, <1>17, <1>18
<1>24. QED BY <1>19, <1>20, <1>22, <1>23

(* So they obey the grammar of a line.                                     *)
LEMMA ItemIsPart ==
  ASSUME NEW C, NEW l \in Seq(C), ~P!Without(P!delete_comment(l, comment_char), "=")
  PROVE  LET k == P!Item(l).key  v == P!Item(l).value IN
         P!IsItem(l, k, v) /\ P!Bare(k) /\ P!Bare(v)
<1>1. \E a, b, e \in Nat : /\ IsContent(l, a, b, e)
                           /\ P!delete_comment(l, comment_char) = Mid(l, 0, e)
  BY ContentIs
<1>2. PICK a \in Nat, b \in Nat, e \in Nat :
        IsContent(l, a, b, e) /\ P!delete_comment(l, comment_char) = Mid(l, 0, e)
  BY <1>1
<1>3. /\ Within(l, a, b) /\ Within(l, 0, e) /\ b <= e
      /\ e = Len(l) \/ l[e + 1] = comment_char
      /\ \A j \in 1..e : l[j] # comment_char
      /\ AllWhite(l, 0, a) /\ AllWhite(l, b, e)
  BY <1>2 DEF IsContent
<1>4. Len(l) \in Nat /\ DOMAIN l = 1..Len(l) /\ a <= b /\ e <= Len(l)
  BY <1>3 DEF Within
<1>5. PICK q \in 1..e : l[q] = "="
  <2>1. PICK d : d = Mid(l, 0, e)
    OBVIOUS
  <2>2. d \in Seq(C) /\ Len(d) = e - 0 /\ \A i \in 1..(e - 0) : d[i] = l[0 + i]
    <3>1. Within(l, 0, e)
      BY <1>3
    <3>2. QED BY <2>1, <3>1, CutIs
  <2>3. PICK i \in DOMAIN d : d[i] = "="
    BY <2>1, <1>2 DEF P!Without
  <2>4. i \in 1..e /\ i \in 1..(e - 0) /\ 0 + i = i
    BY <2>2
  <2>5. QED BY <2>2, <2>3, <2>4
<1>6. PICK o \in Nat :
        /\ Within(l, a, o) /\ Within(l, o + 1, b) /\ l[o + 1] = "="
        /\ \A j \in 1..o : l[j] # "="
        /\ P!Item(l) = [key |-> P!trim_str(Mid(l, a, o)),
                        value |-> P!trim_str(Mid(l, o + 1, b))]
  BY <1>2, <1>5, SplitIs
<1>7. a <= o /\ o + 1 <= b /\ b <= e
  BY <1>3, <1>6 DEF Within
<1>8. PICK k, v : k = P!trim_str(Mid(l, a, o)) /\ v = P!trim_str(Mid(l, o + 1, b))
  OBVIOUS
<1>9. P!Item(l).key = k /\ P!Item(l).value = v
  BY <1>6, <1>8
(* The text before the =.                                                  *)
<1>10. PICK r : r = Mid(l, 0, o)
  OBVIOUS
<1>11. Within(l, 0, o) /\ P!FirstN(l, o) = r /\ o \in 0..Len(l)
  <2>1. o \in Int /\ 0 <= o /\ o <= Len(l) /\ Len(l) \in Int
    BY <1>4, <1>7
  <2>2. o \in 0..Len(l)
    BY <2>1
  <2>3. QED BY <2>2, <1>10, FirstCut
<1>12. r \in Seq(C) /\ Len(r) = o - 0 /\ \A i \in 1..(o - 0) : r[i] = l[0 + i]
  BY <1>10, <1>11, CutIs
<1>13. Within(r, a, o) /\ Mid(r, a, o) = Mid(l, a, o)
  <2>1. Within(r, a, o) /\ 0 + a = a /\ 0 + o = o
    BY <1>7, <1>12 DEF Within
  <2>2. Mid(r, a, o) = Mid(l, 0 + a, 0 + o)
    BY <2>1, <1>10, <1>11, CutOfCut
  <2>3. QED BY <2>1, <2>2
<1>14. AllWhite(r, 0, a) /\ AllWhite(r, o, Len(r))
  <2>1. \A j \in (0 + 1)..a : j \in 1..(o - 0) /\ 0 + j = j
    BY <1>7
  <2>2. \A j \in (o + 1)..Len(r) : FALSE
    BY <1>12
  <2>3. QED BY <2>1, <2>2, <1>3, <1>12 DEF AllWhite
<1>15. \E x, y \in Nat : IsTrim(Mid(r, a, o), k, x, y)
  <2>1. Mid(l, a, o) \in Seq(C)
    BY <1>6, CutIs
  <2>2. QED BY <2>1, <1>8, <1>13, TrimIs
<1>16. PICK x \in Nat, y \in Nat : IsTrim(Mid(r, a, o), k, x, y)
  BY <1>15
<1>17. IsTrim(r, k, a + x, a + y)
  BY <1>12, <1>13, <1>14, <1>16, TrimInWhite
<1>18. P!Bare(k)
  BY <1>12, <1>17, TrimIsBare
<1>19. PICK n : n = a + y
  OBVIOUS
<1>20. /\ \E w \in P!Whites(r) : Len(w \o k) = n /\ P!IsPrefix(w \o k, r)
       /\ P!is_blank(Mid(r, n, Len(r))) /\ Within(r, n, Len(r))
  <2>1. IsTrim(r, k, a + x, n)
    BY <1>17, <1>19
  <2>2. Within(r, n, Len(r))
    BY <2>1 DEF IsTrim, Within
  <2>3. QED BY <2>1, <2>2, <1>12, InWhite
<1>21. Mid(r, n, Len(r)) = SubSeq(l, n + 1, o)
  <2>1. Len(r) = o /\ 0 + n = n /\ 0 + Len(r) = o
    BY <1>12, <1>20 DEF Within
  <2>2. Mid(r, n, Len(r)) = Mid(l, 0 + n, 0 + Len(r))
    BY <1>10, <1>11, <1>20, CutOfCut
  <2>3. QED BY <2>1, <2>2 DEF Mid
<1>22. \E w \in P!Whites(P!FirstN(l, o)) :
         /\ P!IsPrefix(w \o k, P!FirstN(l, o))
         /\ P!is_blank(SubSeq(l, Len(w \o k) + 1, o))
  BY <1>11, <1>20, <1>21
<1>23. P!Without(P!FirstN(l, o), "=") /\ P!Without(P!FirstN(l, o), comment_char)
  <2>1. DOMAIN r = 1..o /\ \A i \in 1..o : i \in 1..(o - 0) /\ 0 + i = i /\ i \in 1..e
    BY <1>3, <1>7, <1>12
  <2>2. QED BY <2>1, <1>3, <1>6, <1>11, <1>12 DEF P!Without
(* The text behind it.                                                     *)
<1>24. PICK p : p = o + 1
  OBVIOUS
<1>25. PICK u : u = Mid(l, p, e)
  OBVIOUS
<1>26. Within(l, p, e) /\ p \in Nat /\ e \in Nat /\ p <= b /\ b <= e /\ b \in Nat
  <2>1. p \in Nat /\ p <= b /\ b <= e /\ e <= Len(l) /\ Len(l) \in Nat
    BY <1>4, <1>7, <1>24
  <2>2. QED BY <2>1 DEF Within
<1>27. u \in Seq(C) /\ Len(u) = e - p /\ \A i \in 1..(e - p) : u[i] = l[p + i]
  <2>1. Within(l, p, e)
    BY <1>26
  <2>2. QED BY <2>1, <1>25, CutIs
<1>28. PICK f \in Nat : f = b - p
  BY <1>26
<1>29. Within(u, 0, f) /\ Mid(u, 0, f) = Mid(l, p, b)
  <2>1. Within(u, 0, f) /\ p + 0 = p /\ p + f = b
    BY <1>26, <1>27, <1>28 DEF Within
  <2>2. Mid(u, 0, f) = Mid(l, p + 0, p + f)
    BY <2>1, <1>25, <1>26, CutOfCut
  <2>3. QED BY <2>1, <2>2
<1>30. AllWhite(u, 0, 0) /\ AllWhite(u, f, Len(u))
  <2>1. ASSUME NEW j \in (f + 1)..Len(u)
        PROVE  j \in 1..(e - p) /\ p + j \in (b + 1)..e
    <3>1. j \in Int /\ b - p + 1 <= j /\ j <= e - p
      BY <1>26, <1>27, <1>28
    <3>2. QED BY <3>1, <1>26
  <2>2. QED BY <2>1, <1>3, <1>27 DEF AllWhite
<1>31. \E g, h \in Nat : IsTrim(Mid(u, 0, f), v, g, h)
  <2>1. Mid(l, p, b) \in Seq(C)
    BY <1>6, <1>24, CutIs
  <2>2. QED BY <2>1, <1>8, <1>24, <1>29, TrimIs
<1>32. PICK g \in Nat, h \in Nat : IsTrim(Mid(u, 0, f), v, g, h)
  BY <1>31
<1>33. IsTrim(u, v, 0 + g, 0 + h)
  BY <1>27, <1>29, <1>30, <1>32, TrimInWhite
<1>34. P!Bare(v)
  BY <1>27, <1>33, TrimIsBare
<1>35. PICK z : z = 0 + h
  OBVIOUS
<1>36. /\ \E w \in P!Whites(u) : Len(w \o v) = z /\ P!IsPrefix(w \o v, u)
       /\ P!is_blank(Mid(u, z, Len(u)))
  <2>1. IsTrim(u, v, 0 + g, z)
    BY <1>33, <1>35
  <2>2. QED BY <2>1, <1>27, InWhite
<1>37. SubSeq(l, p + 1, e) = u /\ P!From(u, z + 1) = Mid(u, z, Len(u))
  BY <1>25 DEF Mid, P!From
<1>38. \E w \in P!Whites(SubSeq(l, p + 1, e)) :
         /\ P!IsPrefix(w \o v, SubSeq(l, p + 1, e))
         /\ P!is_blank(P!From(SubSeq(l, p + 1, e), Len(w \o v) + 1))
  BY <1>36, <1>37
<1>39. P!Without(SubSeq(l, p + 1, e), comment_char)
  <2>1. DOMAIN u = 1..(e - p) /\ \A i \in 1..(e - p) : p + i \in 1..e
    BY <1>26, <1>27
  <2>2. QED BY <2>1, <1>3, <1>27, <1>37 DEF P!Without
<1>40. P!IsItem(l, k, v)
  <2>1. p \in DOMAIN l /\ e \in p..Len(l) /\ l[p] = "=" /\ p - 1 = o
    BY <1>4, <1>6, <1>24, <1>26
  <2>2. QED BY <2>1, <1>3, <1>22, <1>23, <1>38, <1>39, Zenon DEF P!IsItem
<1>41. QED BY <1>9, <1>18, <1>34, <1>40

-----------------------------------------------------------------------------
(* estring: two pieces of a text make it up.                               *)
LEMMA TwoCuts ==
  ASSUME NEW C, NEW s \in Seq(C), NEW m \in 0..Len(s)
  PROVE  Mid(s, 0, m) \o Mid(s, m, Len(s)) = s
<1>1. SubSeq(s, 1, m) \o SubSeq(s, m + 1, Len(s)) = s
  BY TwoPieces
<1>2. 0 + 1 = 1
  OBVIOUS
<1>3. QED BY <1>1, <1>2 DEF Mid

(* As much of a text as there is room for.                                 *)
LEMMA RoomFor ==
  ASSUME NEW C, NEW s \in Seq(C), NEW n \in Nat
  PROVE  /\ Len(P!FirstN(s, n)) <= n
         /\ n >= Len(s) => P!FirstN(s, n) = s
<1>1. Len(s) \in Nat
  OBVIOUS
<1>2. CASE n < Len(s)
  <2>1. n \in 0..Len(s)
    BY <1>1, <1>2
  <2>2. P!FirstN(s, n) = Mid(s, 0, n) /\ Within(s, 0, n)
    BY <2>1, FirstCut
  <2>3. Len(Mid(s, 0, n)) = n - 0
    BY <2>2, CutIs
  <2>4. QED BY <1>1, <1>2, <2>2, <2>3
<1>3. CASE ~(n < Len(s))
  <2>1. P!FirstN(s, n) = Mid(s, 0, Len(s))
    BY <1>3 DEF P!FirstN, Mid
  <2>2. Mid(s, 0, Len(s)) = s
    BY WholeCut
  <2>3. QED BY <1>1, <1>3, <2>1, <2>2
<1>4. QED BY <1>2, <1>3

(* split_url cuts behind the last slash.                                   *)
LEMMA SlashIs ==
  ASSUME NEW C, NEW s \in Seq(C)
  PROVE  /\ P!PathLen(s) \in 0..Len(s)
         /\ P!PathLen(s) # 0 => s[P!PathLen(s)] = "/"
         /\ \A j \in (P!PathLen(s) + 1)..Len(s) : s[j] # "/"
<1>1. Len(s) \in Nat
  OBVIOUS
<1>. DEFINE I == {i \in 1..Len(s) : s[i] = "/"}
<1>2. CASE I = {}
  <2>1. P!PathLen(s) = 0
    BY <1>2, Zenon DEF P!PathLen, P!SelectLastInSeq
  <2>2. QED BY <1>1, <1>2, <2>1
<1>3. CASE I # {}
  <2>1. PICK m : m = P!Max(I)
    OBVIOUS
  <2>2. I \subseteq Nat /\ \A k \in I : k <= Len(s)
    BY <1>1
  <2>3. m \in I /\ \A k \in I : k <= m
    BY <1>1, <1>3, <2>1, <2>2, LastPlace
  <2>4. P!PathLen(s) = m
    BY <1>3, <2>1, Zenon DEF P!PathLen, P!SelectLastInSeq
  <2>5. \A j \in (m + 1)..Len(s) : j \in 1..Len(s) /\ ~(j <= m)
    BY <1>1, <2>3
  <2>6. QED BY <2>3, <2>4, <2>5
<1>4. QED BY <1>2, <1>3

Splits(s, p, n, d) ==
  /\ Len(d.path) < p /\ Len(d.name) < n
  /\ p > Len(s) /\ n > Len(s) =>
       /\ d.path \o d.name = s /\ P!Without(d.name, "/")
       /\ d.path # <<>> => d.path[Len(d.path)] = "/"

LEMMA UrlIsSplit ==
  ASSUME NEW C, NEW s \in Seq(C), NEW p \in Nat \ {0}, NEW n \in Nat \ {0},
         NEW d, d = P!split_url(s, p, n)
  PROVE  Splits(s, p, n, d)
<1>1. PICK m : m = P!PathLen(s)
  OBVIOUS
<1>2. /\ m \in 0..Len(s)
      /\ m # 0 => s[m] = "/"
      /\ \A j \in (m + 1)..Len(s) : s[j] # "/"
  BY <1>1, SlashIs
<1>3. PICK h, t : h = Mid(s, 0, m) /\ t = Mid(s, m, Len(s))
  OBVIOUS
<1>4. P!FirstN(s, m) = h /\ Within(s, 0, m) /\ P!From(s, m + 1) = t /\ Within(s, m, Len(s))
  BY <1>2, <1>3, FirstCut, LastCut
<1>5. h \in Seq(C) /\ Len(h) = m - 0 /\ \A i \in 1..(m - 0) : h[i] = s[0 + i]
  BY <1>3, <1>4, CutIs
<1>6. t \in Seq(C) /\ Len(t) = Len(s) - m /\ \A i \in 1..(Len(s) - m) : t[i] = s[m + i]
  BY <1>3, <1>4, CutIs
<1>7. d.path = P!FirstN(h, p - 1) /\ d.name = P!FirstN(t, n - 1)
  BY <1>1, <1>4 DEF P!split_url
<1>8. p - 1 \in Nat /\ n - 1 \in Nat
  OBVIOUS
<1>9. /\ Len(d.path) <= p - 1 /\ (p - 1 >= Len(h) => d.path = h)
      /\ Len(d.name) <= n - 1 /\ (n - 1 >= Len(t) => d.name = t)
  BY <1>5, <1>6, <1>7, <1>8, RoomFor
<1>10. Len(d.path) \in Nat /\ Len(d.name) \in Nat
  <2>1. P!FirstN(h, p - 1) \in Seq(C) /\ P!FirstN(t, n - 1) \in Seq(C)
    BY <1>5, <1>6, <1>8 DEF P!FirstN
  <2>2. QED BY <2>1, <1>7
<1>11. Len(d.path) < p /\ Len(d.name) < n
  BY <1>9, <1>10
<1>12. ASSUME p > Len(s), n > Len(s)
       PROVE  /\ d.path \o d.name = s /\ P!Without(d.name, "/")
              /\ d.path # <<>> => d.path[Len(d.path)] = "/"
  <2>1. Len(s) \in Nat /\ Len(h) = m /\ p - 1 >= Len(h) /\ n - 1 >= Len(t)
    BY <1>2, <1>5, <1>6, <1>12
  <2>2. d.path = h /\ d.name = t
    BY <2>1, <1>9
  <2>3. h \o t = s
    BY <1>2, <1>3, TwoCuts
  <2>4. \A i \in DOMAIN t : t[i] # "/"
    <3>1. DOMAIN t = 1..(Len(s) - m) /\ \A i \in 1..(Len(s) - m) : m + i \in (m + 1)..Len(s)
      BY <1>2, <1>6, <2>1
    <3>2. QED BY <3>1, <1>2, <1>6
  <2>5. ASSUME h # <<>> PROVE h[Len(h)] = "/"
    <3>1. m # 0
      BY <2>1, <2>5, <1>5, EmptySeq
    <3>2. m \in 1..(m - 0) /\ 0 + m = m
      BY <3>1, <1>2
    <3>3. QED BY <3>1, <3>2, <2>1, <1>2, <1>5
  <2>6. QED BY <2>2, <2>3, <2>4, <2>5 DEF P!Without
<1>13. QED BY <1>11, <1>12, Zenon DEF Splits

(* str_cmp is 0 for equal strings only, and reverses with its arguments.   *)
LEMMA StringsAreOrdered ==
  ASSUME NEW s \in Seq(Int), NEW t \in Seq(Int)
  PROVE  /\ P!str_cmp(s, t) = -P!str_cmp(t, s) /\ (P!str_cmp(s, t) = 0 <=> s = t)
         /\ P!IsStrictPrefix(s, t) => P!str_cmp(s, t) = -1
<1>. DEFINE I == {i \in DOMAIN s \cap DOMAIN t : s[i] # t[i]}
            J == {i \in DOMAIN t \cap DOMAIN s : t[i] # s[i]}
<1>1. I = J
  OBVIOUS
<1>2. Len(s) \in Nat /\ Len(t) \in Nat /\ DOMAIN s = 1..Len(s) /\ DOMAIN t = 1..Len(t)
  OBVIOUS
<1>3. CASE I = {}
  <2>1. P!str_cmp(s, t) = P!SizeOrder(Len(s), Len(t))
    BY <1>3 DEF P!str_cmp
  <2>2. P!str_cmp(t, s) = P!SizeOrder(Len(t), Len(s))
    BY <1>1, <1>3 DEF P!str_cmp
  <2>3. Len(s) = Len(t) => s = t
    <3>1. ASSUME Len(s) = Len(t) PROVE \A i \in 1..Len(s) : s[i] = t[i]
      BY <3>1, <1>2, <1>3
    <3>2. QED BY <3>1, SeqEqual
  <2>4. P!IsStrictPrefix(s, t) => Len(s) <= Len(t) /\ s # t
    BY DEF P!IsStrictPrefix, P!IsPrefix
  <2>. DEFINE m == Len(s)
              n == Len(t)
  <2>5. m \in Nat /\ n \in Nat
    OBVIOUS
  <2>6. s = t => m = n
    OBVIOUS
  <2>7. P!SizeOrder(m, n) = -P!SizeOrder(n, m) /\ (P!SizeOrder(m, n) = 0 <=> m = n)
        /\ (m < n => P!SizeOrder(m, n) = -1)
    BY DEF P!SizeOrder
  <2>8. P!IsStrictPrefix(s, t) => m < n
    BY <2>3, <2>4, <2>5
  <2>9. P!str_cmp(s, t) = P!SizeOrder(m, n) /\ P!str_cmp(t, s) = P!SizeOrder(n, m)
    BY <2>1, <2>2
  <2>10. s = t <=> m = n
    BY <2>3, <2>6
  <2>11. QED BY <2>7, <2>8, <2>9, <2>10
<1>4. CASE I # {}
  <2>. DEFINE i == CHOOSE i \in I : \A j \in I : i <= j
  <2>1. i \in I
    <3>1. I \subseteq Nat
      BY <1>2
    <3>. HIDE DEF I
    <3>2. \E m \in I : \A k \in I : m <= k
      BY <3>1, <1>4, Least
    <3>3. QED BY <3>2
  <2>2. P!str_cmp(s, t) = IF s[i] < t[i] THEN -1 ELSE 1
    BY <1>4 DEF P!str_cmp
  <2>3. P!str_cmp(t, s) = IF t[i] < s[i] THEN -1 ELSE 1
    <3>1. i = CHOOSE j \in J : \A k \in J : j <= k
      BY <1>1
    <3>2. QED BY <3>1, <1>1, <1>4 DEF P!str_cmp
  <2>. HIDE DEF i
  <2>4. s[i] \in Int /\ t[i] \in Int /\ s[i] # t[i] /\ i \in 1..Len(s)
    BY <2>1, <1>2
  <2>5. s # t
    BY <2>4
  <2>6. ~P!IsStrictPrefix(s, t)
    <3>. SUFFICES ASSUME P!IsStrictPrefix(s, t) PROVE FALSE
      OBVIOUS
    <3>1. Len(s) <= Len(t) /\ SubSeq(s, 1, Len(s)) = SubSeq(t, 1, Len(s))
      BY DEF P!IsStrictPrefix, P!IsPrefix
    <3>2. Len(s) \in 0..Len(s) /\ Len(s) \in 0..Len(t)
      BY <1>2, <3>1
    <3>3. Mid(s, 0, Len(s)) = Mid(t, 0, Len(s)) /\ Within(s, 0, Len(s)) /\ Within(t, 0, Len(s))
      BY <3>1, <3>2, FirstCut
    <3>4. i \in 1..(Len(s) - 0) /\ 0 + i = i
      BY <2>4, <1>2
    <3>5. Mid(s, 0, Len(s))[i] = s[i] /\ Mid(t, 0, Len(s))[i] = t[i]
      BY <3>3, <3>4, CutIs
    <3>6. QED BY <3>3, <3>5, <2>4
  <2>7. QED BY <2>2, <2>3, <2>4, <2>5, <2>6
<1>5. QED BY <1>3, <1>4

-----------------------------------------------------------------------------
(* etime.c: K is the 1000 of the code.                                     *)
K == Thousand

(* Quotient and remainder of any integer, and that they are the only ones. *)
LEMMA DividesInt ==
  ASSUME NEW n \in Nat \ {0}, NEW a \in Int
  PROVE  (a \div n) \in Int /\ a % n \in 0..(n - 1) /\ a = n * (a \div n) + (a % n)
<1>. DEFINE q == a \div n
            r == a % n
<1>1. q \in Int /\ r \in 0..(n - 1)
  OBVIOUS
<1>2. a - (a \div n) * n = a % n
  BY Z3
<1>3. a - q * n = r
  BY <1>2
<1>. HIDE DEF q, r
<1>4. a = n * q + r
  BY <1>1, <1>3
<1>5. QED BY <1>1, <1>4 DEF q, r

(* Products of integers that differ, differ by the other factor.           *)
LEMMA IntTimesMore ==
  ASSUME NEW n \in Nat, NEW q \in Int, NEW p \in Int, q < p
  PROVE  n * q \in Int /\ n * p \in Int /\ n * q + n <= n * p
<1>1. PICK d \in Nat : p = q + 1 + d
  <2>1. p - q - 1 \in Nat /\ p = q + 1 + (p - q - 1)
    OBVIOUS
  <2>2. QED BY <2>1
<1>2. n * d \in Nat
  OBVIOUS
<1>3. n * p = n * q + n + n * d
  BY <1>1
<1>4. n * q \in Int /\ n * p \in Int
  OBVIOUS
<1>5. QED BY <1>2, <1>3, <1>4

(* C's quotient: towards 0, so short of the number by less than n.         *)
LEMMA QuotIs ==
  ASSUME NEW n \in Nat \ {0}, NEW a \in Int
  PROVE  \E q \in Int, r \in (1 - n)..(n - 1) :
           /\ P!Quot(a, n) = q /\ P!Rem(a, n) = r /\ a = n * q + r
           /\ a >= 0 => q >= 0 /\ r >= 0
           /\ a <= 0 => q <= 0 /\ r <= 0
<1>1. CASE a >= 0
  <2>1. a \in Nat
    BY <1>1
  <2>2. (a \div n) \in Nat /\ a % n \in 0..(n - 1) /\ a = n * (a \div n) + (a % n)
    BY <2>1, Divides
  <2>3. PICK q \in Nat, r \in 0..(n - 1) : q = (a \div n) /\ r = a % n
    BY <2>2
  <2>4. a = n * q + r /\ P!Quot(a, n) = q
    BY <2>2, <2>3, <1>1 DEF P!Quot
  <2>5. P!Rem(a, n) = r
    <3>1. P!Rem(a, n) = a - n * q
      BY <2>4 DEF P!Rem
    <3>2. n * q \in Nat /\ r \in Nat
      BY Times
    <3>3. QED BY <3>1, <3>2, <2>4
  <2>6. a <= 0 => q <= 0 /\ r <= 0
    <3>1. n * q \in Nat
      BY Times
    <3>2. 0 < q => n * 0 + n <= n * q
      BY TimesMore
    <3>3. n * 0 = 0 /\ r \in Nat
      OBVIOUS
    <3>4. a <= 0 => n * q = 0 /\ r = 0
      BY <3>1, <3>3, <2>4
    <3>5. QED BY <3>2, <3>3, <3>4
  <2>7. q \in Int /\ r \in (1 - n)..(n - 1) /\ q >= 0 /\ r >= 0
    OBVIOUS
  <2>8. QED BY <2>4, <2>5, <2>6, <2>7, <1>1
<1>2. CASE ~(a >= 0)
  <2>1. -a \in Nat
    BY <1>2
  <2>2. ((-a) \div n) \in Nat /\ (-a) % n \in 0..(n - 1)
        /\ -a = n * ((-a) \div n) + ((-a) % n)
    BY <2>1, Divides
  <2>3. PICK q \in Nat, r \in 0..(n - 1) : q = ((-a) \div n) /\ r = (-a) % n
    BY <2>2
  <2>4. -a = n * q + r /\ P!Quot(a, n) = -q
    BY <2>2, <2>3, <1>2 DEF P!Quot
  <2>5. n * q \in Nat /\ n * (-q) = -(n * q)
    BY <2>3
  <2>6. a = n * (-q) + (-r)
    BY <2>3, <2>4, <2>5
  <2>7. P!Rem(a, n) = -r
    <3>1. P!Rem(a, n) = a - n * (-q)
      BY <2>4 DEF P!Rem
    <3>2. n * (-q) \in Int /\ -r \in Int
      BY <2>5
    <3>3. QED BY <3>1, <3>2, <2>6
  <2>8. -q \in Int /\ -r \in (1 - n)..(n - 1) /\ -q <= 0 /\ -r <= 0
    BY <2>3
  <2>9. QED BY <2>4, <2>6, <2>7, <2>8, <1>2
<1>3. QED BY <1>1, <1>2

(* An int that fits stays what it is.                                      *)
LEMMA IntFits ==
  ASSUME IntSize \in Nat \ {0},
         NEW m \in (1 - (IntSize \div 2))..((IntSize \div 2) - 1)
  PROVE  P!ToInt(m) = m
<1>. DEFINE h == IntSize \div 2
<1>1. h \in Nat /\ 2 * h <= IntSize
  <2>1. (IntSize \div 2) \in Nat /\ IntSize % 2 \in 0..(2 - 1)
        /\ IntSize = 2 * (IntSize \div 2) + (IntSize % 2)
    BY Divides
  <2>2. QED BY <2>1
<1>2. m \in (1 - h)..(h - 1)
  OBVIOUS
<1>3. P!ToInt(m) = ((m + h) % IntSize) - h
  BY DEF P!ToInt
<1>. HIDE DEF h
<1>4. m + h \in 0..(IntSize - 1) /\ IntSize * 0 + (m + h) = m + h /\ 0 \in Nat
  BY <1>1, <1>2
<1>5. (IntSize * 0 + (m + h)) % IntSize = m + h
  BY <1>4, OneRest
<1>6. QED BY <1>1, <1>2, <1>3, <1>4, <1>5

(* What the proofs need of times.                                          *)
ClockUse ==
  /\ K \in Nat \ {0} /\ IntSize \in Nat \ {0} /\ Steps \subseteq Int
  /\ ClockTimes \subseteq [sec : Nat, usec : 0..(K * K - 1)]

Micros(t) == t.sec * K * K + t.usec

(* A difference in milliseconds, before it is made an int.                 *)
LEMMA DifferenceIs ==
  ASSUME ClockUse, NEW t \in ClockTimes, NEW u \in ClockTimes
  PROVE  \E m \in Int, r \in (1 - K)..(K - 1) :
           /\ P!time_signed_delta(t, u) = P!ToInt(m)
           /\ Micros(t) - Micros(u) = K * m + r
           /\ m > 0 => P!time_great(t, u) = 1
           /\ m < 0 => P!time_great(u, t) = 1
<1>1. K \in Nat \ {0} /\ K * K \in Nat
  BY DEF ClockUse
<1>2. PICK a, b, c, d : a = t.sec /\ b = t.usec /\ c = u.sec /\ d = u.usec
  OBVIOUS
<1>3. /\ a \in Nat /\ c \in Nat /\ b \in Nat /\ d \in Nat
      /\ b <= K * K - 1 /\ d <= K * K - 1
  <2>1. /\ t.sec \in Nat /\ u.sec \in Nat
        /\ t.usec \in 0..(K * K - 1) /\ u.usec \in 0..(K * K - 1)
    BY DEF ClockUse
  <2>2. \A x \in 0..(K * K - 1) : x \in Nat /\ x <= K * K - 1
    BY <1>1
  <2>3. QED BY <1>2, <2>1, <2>2
<1>4. PICK x \in Int, y \in Int : x = a - c /\ y = b - d
  BY <1>3
<1>5. y < K * K /\ -y < K * K
  BY <1>1, <1>3, <1>4
<1>6. PICK q \in Int, r \in (1 - K)..(K - 1) :
        /\ P!Quot(y, K) = q /\ P!Rem(y, K) = r /\ y = K * q + r
        /\ y >= 0 => q >= 0 /\ r >= 0
        /\ y <= 0 => q <= 0 /\ r <= 0
  BY <1>1, QuotIs
<1>7. K * q \in Int /\ r \in Int
  BY <1>1
<1>8. q < K
  <2>. SUFFICES ASSUME ~(q < K) PROVE FALSE
    OBVIOUS
  <2>1. K * K <= K * q
    <3>1. CASE q = K
      BY <3>1, <1>1
    <3>2. CASE K < q
      <4>1. K * K + K <= K * q
        BY <3>2, <1>1, IntTimesMore
      <4>2. QED BY <4>1, <1>1, <1>7
    <3>3. QED BY <3>1, <3>2, <1>1
  <2>2. r >= 0
    BY <1>1, <1>6
  <2>3. QED BY <2>1, <2>2, <1>1, <1>5, <1>6, <1>7
<1>9. -K < q
  <2>. SUFFICES ASSUME ~(-K < q) PROVE FALSE
    OBVIOUS
  <2>1. K * K <= -(K * q)
    <3>1. K * (-q) = -(K * q) /\ -q \in Int
      BY <1>1
    <3>2. CASE -q = K
      BY <3>1, <3>2, <1>1
    <3>3. CASE K < -q
      <4>1. K * K + K <= K * (-q)
        BY <3>1, <3>3, <1>1, IntTimesMore
      <4>2. QED BY <3>1, <4>1, <1>1, <1>7
    <3>4. QED BY <3>2, <3>3, <1>1
  <2>2. r <= 0
    BY <1>1, <1>6
  <2>3. QED BY <2>1, <2>2, <1>1, <1>5, <1>6, <1>7
<1>10. PICK z \in Int : z = x * K
  BY <1>1
<1>11. PICK m \in Int : m = z + q
  OBVIOUS
<1>12. P!time_signed_delta(t, u) = P!ToInt(m)
  BY <1>2, <1>4, <1>6, <1>10, <1>11 DEF P!time_signed_delta, K
<1>13. Micros(t) - Micros(u) = K * m + r
  <2>1. Micros(t) = a * K * K + b /\ Micros(u) = c * K * K + d
    BY <1>2 DEF Micros
  <2>2. PICK e \in Int, f \in Int : e = a * K /\ f = c * K
    BY <1>1, <1>3
  <2>3. z = e - f
    BY <2>2, <1>1, <1>3, <1>4, <1>10
  <2>4. K * m = K * z + K * q /\ K * z = e * K - f * K
    BY <2>2, <2>3, <1>1, <1>11
  <2>5. e * K \in Int /\ f * K \in Int
    BY <2>2, <1>1
  <2>6. QED BY <2>1, <2>2, <2>4, <2>5, <1>3, <1>4, <1>6, <1>7
<1>14. (x < 0 => z <= -K) /\ (x > 0 => z >= K) /\ (x = 0 => z = 0)
  <2>1. K * x = z /\ K * 0 = 0
    BY <1>1, <1>10
  <2>2. (x < 0 => K * x + K <= K * 0) /\ (0 < x => K * 0 + K <= K * x)
    BY <1>1, IntTimesMore
  <2>3. QED BY <2>1, <2>2, <1>1
<1>15. (m > 0 => x > 0 \/ (x = 0 /\ y > 0)) /\ (m < 0 => x < 0 \/ (x = 0 /\ y < 0))
  BY <1>1, <1>6, <1>8, <1>9, <1>11, <1>14
<1>16. /\ m > 0 => a > c \/ (a = c /\ b > d)
       /\ m < 0 => c > a \/ (c = a /\ d > b)
  BY <1>3, <1>4, <1>15
<1>17. m > 0 => P!time_great(t, u) = 1
  BY <1>2, <1>3, <1>16 DEF P!time_great
<1>18. m < 0 => P!time_great(u, t) = 1
  BY <1>2, <1>3, <1>16 DEF P!time_great
<1>19. QED BY <1>12, <1>13, <1>17, <1>18

(* Its quotient by K is within one of it.                                  *)
LEMMA MillisAreNear ==
  ASSUME ClockUse, NEW m \in Int, NEW r \in (1 - K)..(K - 1), NEW f, f = (K * m + r) \div K
  PROVE  f \in Int /\ f <= m /\ m <= f + 1
<1>1. K \in Nat \ {0} /\ r \in Int
  BY DEF ClockUse
<1>2. PICK a \in Int : a = K * m + r
  BY <1>1
<1>3. PICK g : g = a % K
  OBVIOUS
<1>4. f \in Int /\ g \in 0..(K - 1) /\ a = K * f + g
  BY <1>1, <1>2, <1>3, DividesInt
<1>5. K * m \in Int /\ K * f \in Int /\ K * (f + 1) = K * f + K /\ g \in Int
  BY <1>1, <1>4
<1>6. ~(m < f)
  <2>. SUFFICES ASSUME m < f PROVE FALSE
    OBVIOUS
  <2>1. K * m + K <= K * f
    BY <1>1, <1>4, IntTimesMore
  <2>2. QED BY <2>1, <1>1, <1>2, <1>4, <1>5
<1>7. ~(f + 1 < m)
  <2>. SUFFICES ASSUME f + 1 < m PROVE FALSE
    OBVIOUS
  <2>1. K * (f + 1) + K <= K * m
    BY <1>1, <1>4, IntTimesMore
  <2>2. QED BY <2>1, <1>1, <1>2, <1>4, <1>5
<1>8. QED BY <1>4, <1>6, <1>7

(* The milliseconds of a time.                                             *)
Millis(t) == t.sec * K + (t.usec \div K)

LEMMA MillisAre ==
  ASSUME ClockUse, NEW t \in [sec : Nat, usec : 0..(K * K - 1)]
  PROVE  /\ Millis(t) \in Nat /\ Micros(t) \in Nat /\ t.sec \in Nat /\ t.usec \in Nat
         /\ P!Quot(t.usec, K) = (t.usec \div K)
         /\ Micros(t) - (Micros(t) % K) = K * Millis(t)
<1>1. K \in Nat \ {0} /\ K * K \in Nat
  BY DEF ClockUse
<1>2. PICK a, b : a = t.sec /\ b = t.usec
  OBVIOUS
<1>3. a \in Nat /\ b \in Nat
  <2>1. \A x \in 0..(K * K - 1) : x \in Nat
    BY <1>1
  <2>2. QED BY <1>2, <2>1
<1>4. (b \div K) \in Nat /\ b % K \in 0..(K - 1) /\ b = K * (b \div K) + (b % K)
  BY <1>1, <1>3, Divides
<1>5. PICK q \in Nat, r \in 0..(K - 1) : q = (b \div K) /\ r = b % K /\ b = K * q + r
  BY <1>4
<1>6. PICK e \in Nat : e = a * K
  BY <1>1, <1>3
<1>7. PICK s \in Nat : s = e + q
  OBVIOUS
<1>8. Millis(t) = s
  BY <1>2, <1>5, <1>6, <1>7 DEF Millis
<1>9. Micros(t) = K * s + r
  <2>1. Micros(t) = e * K + b
    BY <1>2, <1>6 DEF Micros
  <2>2. K * s = K * e + K * q /\ K * e = e * K
    BY <1>1, <1>7
  <2>3. QED BY <2>1, <2>2, <1>1, <1>5
<1>10. (K * s + r) % K = r /\ K * s \in Nat /\ r \in Nat
  BY <1>1, OneRest
<1>11. P!Quot(b, K) = (b \div K)
  BY <1>3 DEF P!Quot
<1>12. QED BY <1>2, <1>3, <1>8, <1>9, <1>10, <1>11

(* Moved goes as far as it is asked to, in milliseconds.                   *)
LEMMA MovedIs ==
  ASSUME ClockUse, NEW t \in [sec : Nat, usec : 0..(K * K - 1)], NEW n \in Int,
         Millis(t) + n >= 0, NEW v, v = P!Moved(t, n)
  PROVE  /\ v \in [sec : Nat, usec : 0..(K * K - 1)]
         /\ Millis(v) = Millis(t) + n /\ Micros(v) = K * (Millis(t) + n)
<1>1. K \in Nat \ {0} /\ K * K \in Nat
  BY DEF ClockUse
<1>2. /\ Millis(t) \in Nat /\ t.sec \in Nat /\ t.usec \in Nat
      /\ P!Quot(t.usec, K) = (t.usec \div K)
  BY MillisAre
<1>3. PICK s \in Nat : s = Millis(t) + n
  BY <1>2
<1>4. t.sec * K + P!Quot(t.usec, K) + n = s
  BY <1>2, <1>3 DEF Millis
<1>5. (s \div K) \in Nat /\ s % K \in 0..(K - 1) /\ s = K * (s \div K) + (s % K)
  BY <1>1, Divides
<1>6. PICK q \in Nat, r \in 0..(K - 1) : q = (s \div K) /\ r = s % K /\ s = K * q + r
  BY <1>5
<1>7. P!Quot(s, K) = q /\ P!Rem(s, K) = r
  <2>1. P!Quot(s, K) = q
    BY <1>6 DEF P!Quot
  <2>2. K * q \in Nat
    BY <1>1
  <2>3. QED BY <2>1, <2>2, <1>6 DEF P!Rem
<1>8. v = [sec |-> q, usec |-> r * K]
  BY <1>4, <1>7 DEF P!Moved, P!Time, K
<1>9. PICK e \in Nat : e = r * K
  BY <1>1
<1>10. e <= K * K - 1
  <2>1. r \in Nat /\ r < K /\ K * r = r * K
    BY <1>1
  <2>2. K * r + K <= K * K
    BY <2>1, <1>1, TimesMore
  <2>3. QED BY <2>1, <2>2, <1>1, <1>9
<1>11. v.sec = q /\ v.usec = e /\ v \in [sec : Nat, usec : 0..(K * K - 1)]
  <2>1. e \in 0..(K * K - 1)
    BY <1>1, <1>10
  <2>2. QED BY <2>1, <1>8, <1>9
<1>12. (e \div K) = r
  <2>1. K * r + 0 = e /\ 0 \in 0..(K - 1) /\ r \in Nat
    BY <1>1, <1>9
  <2>2. ((K * r + 0) \div K) = r
    BY <2>1, <1>1, OneRest
  <2>3. QED BY <2>1, <2>2
<1>13. Millis(v) = s
  <2>1. q * K = K * q
    BY <1>1
  <2>2. QED BY <2>1, <1>6, <1>11, <1>12 DEF Millis
<1>14. Micros(v) = K * s
  <2>1. K * s = (q * K) * K + r * K
    <3>1. PICK p \in Nat : p = q * K /\ p = K * q
      BY <1>1
    <3>2. K * (p + r) = p * K + r * K
      BY <1>1
    <3>3. QED BY <3>1, <3>2, <1>6
  <2>2. QED BY <2>1, <1>9, <1>11 DEF Micros
<1>15. QED BY <1>3, <1>11, <1>13, <1>14

(* All that TimeIsRight says of one call.                                  *)
LEMMA TimesAgree ==
  ASSUME ClockUse, NEW t \in ClockTimes, NEW u \in ClockTimes, NEW n \in Steps,
         arg = [fn |-> "time", t |-> t, u |-> u, n |-> n], reply = P!Answer(arg)
  PROVE  P!TimeIsRight
<1>1. K \in Nat \ {0} /\ K * K \in Nat /\ n \in Int /\ -n \in Int
      /\ t \in [sec : Nat, usec : 0..(K * K - 1)]
  BY DEF ClockUse
<1>2. /\ arg.fn = "time" /\ arg.t = t /\ arg.u = u /\ arg.n = n
      /\ reply = [great |-> P!time_great(t, u), less |-> P!time_less(t, u),
                  delta |-> P!time_delta(t, u), signed |-> P!time_signed_delta(t, u),
                  added |-> P!time_add(t, n),
                  back |-> P!time_subtract(P!time_add(t, n), n)]
  <2>1. arg.fn = "time" /\ arg.t = t /\ arg.u = u /\ arg.n = n
    OBVIOUS
  <2>2. QED BY <2>1 DEF P!Answer
<1>3. PICK g, l, d, s, v, w :
        /\ g = P!time_great(t, u) /\ l = P!time_great(u, t)
        /\ d = P!time_delta(t, u) /\ s = P!time_signed_delta(t, u)
        /\ v = P!time_add(t, n) /\ w = P!time_subtract(v, n)
  OBVIOUS
<1>4. /\ reply.great = g /\ reply.less = l /\ reply.delta = d /\ reply.signed = s
      /\ reply.added = v /\ reply.back = w
  BY <1>2, <1>3 DEF P!time_less
<1>5. PICK m \in Int, r \in (1 - K)..(K - 1) :
        /\ s = P!ToInt(m) /\ Micros(t) - Micros(u) = K * m + r
        /\ m > 0 => g = 1
        /\ m < 0 => l = 1
  <2>1. \E m \in Int, r \in (1 - K)..(K - 1) :
          /\ P!time_signed_delta(t, u) = P!ToInt(m)
          /\ Micros(t) - Micros(u) = K * m + r
          /\ m > 0 => P!time_great(t, u) = 1
          /\ m < 0 => P!time_great(u, t) = 1
    BY DifferenceIs
  <2>2. QED BY <2>1, <1>3
<1>6. PICK f : f = (Micros(t) - Micros(u)) \div K
  OBVIOUS
<1>7. ASSUME f \in (1 - (IntSize \div 2))..((IntSize \div 2) - 2)
      PROVE  /\ s * K - (Micros(t) - Micros(u)) \in (1 - K)..(K - 1)
             /\ s > 0 => g = 1
             /\ s < 0 => l = 1
             /\ d \in {s, -s} /\ d >= 0
  <2>1. PICK h \in Int : h = (IntSize \div 2)
    <3>1. IntSize \div 2 \in Int
      BY DEF ClockUse
    <3>2. QED BY <3>1
  <2>2. f \in Int /\ f <= m /\ m <= f + 1
    BY <1>5, <1>6, MillisAreNear
  <2>3. m \in (1 - h)..(h - 1) /\ -m \in (1 - h)..(h - 1)
    BY <2>1, <2>2, <1>7
  <2>4. P!ToInt(m) = m /\ P!ToInt(-m) = -m
    BY <2>1, <2>3, IntFits DEF ClockUse
  <2>5. s = m
    BY <2>4, <1>5
  <2>6. d = IF m < 0 THEN -m ELSE m
    BY <2>4, <2>5, <1>3 DEF P!time_delta
  <2>7. s * K - (Micros(t) - Micros(u)) \in (1 - K)..(K - 1)
    <3>1. K * m \in Int /\ m * K = K * m
      BY <1>1
    <3>2. r \in Int /\ 1 - K <= r /\ r <= K - 1
      BY <1>1
    <3>3. -r \in (1 - K)..(K - 1)
      BY <3>2, <1>1
    <3>4. PICK e \in Int : e = K * m
      BY <3>1
    <3>5. e - (e + r) = -r
      BY <3>2
    <3>6. s * K = e /\ Micros(t) - Micros(u) = e + r
      BY <3>1, <3>4, <2>5, <1>5, Zenon
    <3>7. QED BY <3>3, <3>5, <3>6
  <2>8. s > 0 => g = 1
    BY <2>5, <1>5, Zenon
  <2>9. s < 0 => l = 1
    BY <2>5, <1>5, Zenon
  <2>10. d \in {s, -s} /\ d >= 0
    BY <2>5, <2>6
  <2>11. QED BY <2>7, <2>8, <2>9, <2>10
<1>8. /\ Millis(t) \in Nat /\ Micros(t) \in Nat
      /\ Micros(t) - (Micros(t) % K) = K * Millis(t)
  BY <1>1, MillisAre
<1>9. PICK o \in Nat : o = Millis(t)
  BY <1>8
<1>10. ASSUME Micros(t) - (Micros(t) % K) + n * K >= 0
       PROVE  /\ Micros(v) = Micros(t) - (Micros(t) % K) + n * K
              /\ v.usec \in 0..(K * K - 1)
              /\ Micros(w) = Micros(t) - (Micros(t) % K)
  <2>1. K * o + n * K >= 0 /\ n * K = K * n
    BY <1>1, <1>8, <1>9, <1>10
  <2>2. K * (o + n) = K * o + K * n /\ K * o \in Int /\ K * n \in Int /\ o + n \in Int
    BY <1>1
  <2>3. o + n >= 0
    <3>. SUFFICES ASSUME o + n < 0 PROVE FALSE
      BY <2>2
    <3>1. K * (o + n) + K <= K * 0 /\ K * 0 = 0
      BY <2>2, <1>1, IntTimesMore
    <3>2. QED BY <3>1, <2>1, <2>2, <1>1
  <2>4. v = P!Moved(t, n) /\ w = P!Moved(v, -n)
    BY <1>3 DEF P!time_add, P!time_subtract
  <2>5. /\ v \in [sec : Nat, usec : 0..(K * K - 1)]
        /\ Millis(v) = o + n /\ Micros(v) = K * (o + n)
    BY <2>3, <2>4, <1>1, <1>9, MovedIs
  <2>6. Millis(v) + (-n) = o
    BY <2>5, <1>1
  <2>7. Micros(w) = K * (Millis(v) + (-n))
    <3>1. Millis(v) + (-n) >= 0
      BY <2>6
    <3>2. QED BY <3>1, <2>4, <2>5, <1>1, MovedIs
  <2>8. QED BY <2>1, <2>2, <2>5, <2>6, <2>7, <1>8, <1>9
<1>11. QED BY <1>2, <1>4, <1>6, <1>7, <1>10 DEF P!TimeIsRight, Micros, K

-----------------------------------------------------------------------------
(* eproperty: what the proofs need of the constants of its part.           *)
TextUse(Char) ==
  /\ FileTexts \subseteq Seq(Char) /\ BufferSize \in Nat \ {0}
  /\ Urls \subseteq Seq(Char) /\ Spaces \subseteq Nat \ {0} /\ Strings \subseteq Seq(Int)
  /\ ClockUse

(* fgets reads n characters, a line end at most as the last of them.       *)
IsRead(n) ==
  /\ Within(text, at, at + n) /\ P!Fgets = Mid(text, at, at + n) /\ Len(P!Fgets) = n
  /\ \A i \in (at + 1)..(at + n - 1) : text[i] # "eol"

LEMMA FgetsIs ==
  ASSUME NEW C, text \in Seq(C), at \in 0..Len(text), BufferSize \in Nat \ {0}
  PROVE  \E n \in Nat : IsRead(n)
<1>1. Len(text) \in Nat /\ at \in Nat /\ at <= Len(text)
  OBVIOUS
<1>2. PICK s : s = P!From(text, at + 1)
  OBVIOUS
<1>3. Within(text, at, Len(text)) /\ s = Mid(text, at, Len(text))
  BY <1>2, LastCut
<1>4. /\ s \in Seq(C) /\ Len(s) = Len(text) - at
      /\ \A i \in 1..(Len(text) - at) : s[i] = text[at + i]
  <2>1. Within(text, at, Len(text))
    BY <1>3
  <2>2. IsPiece(C, text, at, Len(text), Mid(text, at, Len(text)))
    BY <2>1, CutIsPiece
  <2>3. QED BY <2>2, <1>3 DEF IsPiece
<1>. DEFINE I == {i \in 1..Len(s) : s[i] = "eol"}
<1>5. PICK z : z = IF I # {} THEN P!Min(I) ELSE 0
  OBVIOUS
<1>6. z \in Nat /\ \A i \in 1..Len(s) : s[i] = "eol" => z > 0 /\ z <= i
  <2>1. CASE I = {}
    BY <1>5, <2>1
  <2>2. CASE I # {}
    <3>1. I \subseteq Nat
      OBVIOUS
    <3>2. z \in I /\ \A k \in I : z <= k
      BY <3>1, <2>2, <1>5, FirstPlace
    <3>3. QED BY <3>2
  <2>3. QED BY <2>1, <2>2
<1>7. P!Fgets = P!FirstN(s, IF z > 0 /\ z < BufferSize THEN z ELSE BufferSize - 1)
  BY <1>2, <1>5, Zenon DEF P!Fgets, P!SelectInSeq
<1>. HIDE DEF I
<1>8. PICK k \in Nat : k = IF z > 0 /\ z < BufferSize THEN z ELSE BufferSize - 1
  <2>1. BufferSize - 1 \in Nat
    OBVIOUS
  <2>2. QED BY <2>1, <1>6
<1>9. PICK n \in 0..Len(s) : n = IF k < Len(s) THEN k ELSE Len(s)
  <2>1. Len(s) \in Nat
    BY <1>4
  <2>2. (IF k < Len(s) THEN k ELSE Len(s)) \in 0..Len(s)
    BY <2>1
  <2>3. QED BY <2>2
<1>10. P!Fgets = P!FirstN(s, n)
  <2>1. (IF n < Len(s) THEN n ELSE Len(s)) = (IF k < Len(s) THEN k ELSE Len(s))
    BY <1>4, <1>9
  <2>2. QED BY <2>1, <1>7, <1>8 DEF P!FirstN
<1>11. Within(s, 0, n) /\ P!Fgets = Mid(s, 0, n)
  BY <1>4, <1>10, FirstCut
<1>12. Within(text, at + 0, at + n) /\ P!Fgets = Mid(text, at + 0, at + n)
  BY <1>3, <1>11, CutOfCut
<1>13. at + 0 = at /\ n \in Nat
  BY <1>1, <1>4
<1>14. Len(P!Fgets) = n
  <2>1. Len(Mid(s, 0, n)) = n - 0
    BY <1>4, <1>11, CutIs
  <2>2. QED BY <2>1, <1>11, <1>13
<1>15. ASSUME NEW i \in (at + 1)..(at + n - 1), text[i] = "eol" PROVE FALSE
  <2>1. i - at \in 1..Len(s) /\ i - at \in 1..(Len(text) - at) /\ at + (i - at) = i /\ i - at < n
    BY <1>1, <1>4, <1>9
  <2>2. z > 0 /\ z <= i - at
    BY <2>1, <1>4, <1>6, <1>15
  <2>3. QED BY <2>1, <2>2, <1>4, <1>6, <1>8, <1>9
<1>16. QED BY <1>12, <1>13, <1>14, <1>15 DEF IsRead

(* Key and value are texts.                                                *)
LEMMA ItemTyped ==
  ASSUME NEW C, NEW l \in Seq(C) PROVE P!Item(l) \in [key : Seq(C), value : Seq(C)]
<1>1. ASSUME NEW s \in Seq(C) PROVE P!trim_str(s) \in Seq(C)
  <2>1. \E x, y \in Nat : IsTrim(s, P!trim_str(s), x, y)
    BY TrimIs
  <2>2. QED BY <2>1, TrimIsBare
<1>2. PICK c : c = P!Content(l)
  OBVIOUS
<1>3. c \in Seq(C)
  <2>1. \E a, b, e \in Nat : /\ IsContent(l, a, b, e)
                             /\ P!delete_comment(l, comment_char) = Mid(l, 0, e)
    BY ContentIs
  <2>2. \E a, b \in Nat : Within(l, a, b) /\ c = Mid(l, a, b)
    BY <2>1, <1>2 DEF IsContent
  <2>3. QED BY <2>2, CutIs
<1>4. PICK i : i = P!SplitAt(c)
  OBVIOUS
<1>5. i \in 0..Len(c)
  <2>. DEFINE I == {j \in 1..Len(c) : c[j] = "="}
  <2>1. i = IF I # {} THEN P!Min(I) ELSE 0
    BY <1>4, Zenon DEF P!SplitAt, P!char_at, P!SelectInSeq
  <2>2. I \subseteq Nat /\ Len(c) \in Nat
    BY <1>3
  <2>3. I # {} => P!Min(I) \in I
    BY <2>2, FirstPlace
  <2>4. QED BY <2>1, <2>2, <2>3
<1>6. CASE i = 0
  <2>1. P!Item(l) = [key |-> c, value |-> c]
    BY <1>2, <1>4, <1>6 DEF P!Item
  <2>2. QED BY <2>1, <1>3
<1>7. CASE i # 0
  <2>1. P!Item(l) = [key |-> P!trim_str(P!FirstN(c, i - 1)),
                     value |-> P!trim_str(P!From(c, i + 1))]
    BY <1>2, <1>4, <1>7 DEF P!Item
  <2>2. i - 1 \in 0..Len(c) /\ Len(c) \in Nat
    BY <1>3, <1>5, <1>7
  <2>3. P!FirstN(c, i - 1) \in Seq(C)
    <3>1. Within(c, 0, i - 1) /\ P!FirstN(c, i - 1) = Mid(c, 0, i - 1)
      BY <2>2, <1>3, FirstCut
    <3>2. QED BY <3>1, <1>3, CutIs
  <2>4. P!From(c, i + 1) \in Seq(C)
    <3>1. Within(c, i, Len(c)) /\ P!From(c, i + 1) = Mid(c, i, Len(c))
      BY <1>3, <1>5, LastCut
    <3>2. QED BY <3>1, <1>3, CutIs
  <2>5. P!trim_str(P!FirstN(c, i - 1)) \in Seq(C) /\ P!trim_str(P!From(c, i + 1)) \in Seq(C)
    BY <2>3, <2>4, <1>1
  <2>6. QED BY <2>1, <2>5
<1>8. QED BY <1>6, <1>7

-----------------------------------------------------------------------------
(* property_read has called back with the items of lines, which are pieces *)
(* of the file one behind the other, and has left out nothing else but     *)
(* white space and comments; a helper that was called has answered.        *)
CallsBack(Char) ==
  [item : [key : Seq(Char), value : Seq(Char)], line : Seq(Char), from : Nat]

TextTyped(Char) ==
  /\ text \in Seq(Char) /\ at \in 0..Len(text)
  /\ items \in Seq(CallsBack(Char)) /\ closed \in BOOLEAN

ItemsMade == \A n \in 1..Len(items) : items[n].item = P!Item(items[n].line)

AnswersEnd ==
  /\ closed /\ result = 1 => at = Len(text)
  /\ items # <<>> /\ result = 0 => closed

LinesHold ==
  \A n \in 1..Len(items) :
    /\ items[n].line = SubSeq(text, items[n].from + 1, items[n].from + Len(items[n].line))
    /\ items[n].from + Len(items[n].line)
         <= IF n = Len(items) THEN at ELSE items[n + 1].from

LeftOut(i) == text[i] \in P!White \/ P!Commented(i)

Covered ==
  \A i \in 1..at :
    \/ LeftOut(i)
    \/ \E n \in 1..Len(items) :
         i \in (items[n].from + 1)..(items[n].from + Len(items[n].line))

HelperAnswers ==
  arg.fn = "none" \/ (arg \in P!Texts \cup P!Clocks /\ reply = P!Answer(arg))

TextInv(Char) ==
  /\ TextTyped(Char) /\ ItemsMade /\ AnswersEnd /\ LinesHold /\ Covered /\ HelperAnswers

LEMMA TextInit == ASSUME NEW Char, TextUse(Char), P!Init PROVE TextInv(Char)
<1>1. /\ text \in Seq(Char) /\ at = 0 /\ items = <<>> /\ result = 0 /\ closed = FALSE
      /\ arg = [fn |-> "none"]
  BY DEF P!Init, TextUse
<1>2. Len(items) = 0 /\ Len(text) \in Nat /\ items \in Seq(CallsBack(Char))
  BY <1>1
<1>3. \A n \in 1..Len(items) : FALSE
  BY <1>2
<1>4. TextTyped(Char)
  <2>1. 0 \in 0..Len(text)
    BY <1>2
  <2>2. QED BY <2>1, <1>1, <1>2, Zenon DEF TextTyped
<1>5. ItemsMade /\ LinesHold
  BY <1>3 DEF ItemsMade, LinesHold
<1>6. AnswersEnd
  BY <1>1 DEF AnswersEnd
<1>7. Covered
  <2>1. \A i \in 1..at : FALSE
    BY <1>1
  <2>2. QED BY <2>1 DEF Covered
<1>8. HelperAnswers
  BY <1>1 DEF HelperAnswers
<1>9. QED BY <1>4, <1>5, <1>6, <1>7, <1>8 DEF TextInv

(* The items depend on what does not change.                               *)
LEMMA SameItem ==
  ASSUME comment_char' = comment_char, NEW l PROVE P!Item(l)' = P!Item(l)
BY DEF P!Item, P!Content

LEMMA SameLeftOut ==
  ASSUME comment_char' = comment_char, text' = text, NEW i
  PROVE  LeftOut(i)' = LeftOut(i)
BY DEF LeftOut, P!Commented

(* Skipped lines are white or comments.                                    *)
LEMMA SkipStep ==
  ASSUME NEW Char, TextUse(Char), TextInv(Char), P!Skip PROVE TextInv(Char)'
<1>1. /\ ~closed /\ at < Len(text) /\ P!Skipped(P!Fgets) /\ at' = at + Len(P!Fgets)
      /\ text' = text /\ comment_char' = comment_char /\ items' = items
      /\ result' = result /\ closed' = closed /\ arg' = arg /\ reply' = reply
  BY DEF P!Skip
<1>2. /\ text \in Seq(Char) /\ at \in 0..Len(text) /\ items \in Seq(CallsBack(Char))
      /\ closed \in BOOLEAN /\ Len(text) \in Nat /\ at \in Nat
  BY DEF TextInv, TextTyped
<1>3. PICK n \in Nat : IsRead(n)
  <2>1. BufferSize \in Nat \ {0}
    BY DEF TextUse
  <2>2. QED BY <2>1, <1>2, FgetsIs
<1>4. PICK f : f = P!Fgets
  OBVIOUS
<1>5. /\ Within(text, at, at + n) /\ f = Mid(text, at, at + n)
      /\ at' = at + n /\ P!Skipped(f)
      /\ \A i \in (at + 1)..(at + n - 1) : text[i] # "eol"
  BY <1>1, <1>3, <1>4 DEF IsRead
<1>6. /\ f \in Seq(Char) /\ Len(f) = (at + n) - at
      /\ \A i \in 1..((at + n) - at) : f[i] = text[at + i]
  <2>1. Within(text, at, at + n) /\ text \in Seq(Char)
    BY <1>2, <1>5
  <2>2. QED BY <2>1, <1>5, CutIs
<1>7. (at + n) - at = n /\ DOMAIN f = 1..n /\ at + n <= Len(text)
  BY <1>2, <1>5, <1>6 DEF Within
<1>8. ASSUME NEW i \in (at + 1)..(at + n) PROVE LeftOut(i)
  <2>1. PICK j \in 1..n : j = i - at /\ at + j = i
    <3>1. i - at \in 1..n /\ at + (i - at) = i
      BY <1>2
    <3>2. QED BY <3>1
  <2>2. f[j] = text[i]
    BY <2>1, <1>6, <1>7
  <2>3. CASE P!is_blank(f)
    BY <2>2, <2>3, <1>7 DEF LeftOut, P!is_blank
  <2>4. CASE P!is_comment(f, comment_char)
    <3>1. PICK k \in 1..n : f[k] = comment_char /\ \A m \in 1..(k - 1) : f[m] \in P!Blank
      BY <2>4, <1>7 DEF P!is_comment
    <3>2. CASE j < k
      <4>1. f[j] \in P!Blank
        BY <3>1, <3>2
      <4>2. QED BY <4>1, <2>2 DEF LeftOut, P!Blank, P!White
    <3>3. CASE k <= j
      <4>1. at + k \in 1..i /\ text[at + k] = comment_char
        BY <3>1, <3>3, <2>1, <1>2, <1>6, <1>7
      <4>2. \A m \in (at + k)..(i - 1) : m \in (at + 1)..(at + n - 1)
        BY <1>2
      <4>3. P!Commented(i)
        BY <4>1, <4>2, <1>5 DEF P!Commented
      <4>4. QED BY <4>3 DEF LeftOut
    <3>4. QED BY <3>2, <3>3
  <2>5. QED BY <2>3, <2>4, <1>5 DEF P!Skipped
<1>9. TextTyped(Char)'
  BY <1>1, <1>2, <1>5, <1>7 DEF TextTyped
<1>10. ItemsMade'
  BY <1>1, SameItem DEF ItemsMade, TextInv
<1>11. AnswersEnd'
  BY <1>1 DEF AnswersEnd, TextInv
<1>12. LinesHold'
  <2>1. \A k \in 1..Len(items) :
          items[k].from + Len(items[k].line) \in Nat
    <3>1. \A k \in 1..Len(items) : items[k] \in CallsBack(Char)
      BY <1>2, ElementOfSeq
    <3>2. \A c \in CallsBack(Char) : c.from \in Nat /\ Len(c.line) \in Nat
      BY LenProperties DEF CallsBack
    <3>3. QED BY <3>1, <3>2
  <2>2. LinesHold
    BY DEF TextInv
  <2>3. ASSUME NEW k \in 1..Len(items)
        PROVE  items[k].from + Len(items[k].line)
                 <= IF k = Len(items) THEN at' ELSE items[k + 1].from
    <3>1. items[k].from + Len(items[k].line)
            <= IF k = Len(items) THEN at ELSE items[k + 1].from
      BY <2>2 DEF LinesHold
    <3>2. items[k].from + Len(items[k].line) \in Nat
      BY <2>1
    <3>3. QED BY <3>1, <3>2, <1>2, <1>5
  <2>4. QED BY <2>2, <2>3, <1>1 DEF LinesHold
<1>13. Covered'
  <2>1. \A i \in 1..at' : i \in 1..at \/ i \in (at + 1)..(at + n)
    BY <1>2, <1>5
  <2>2. \A i \in 1..at' : LeftOut(i)' = LeftOut(i)
    BY <1>1, SameLeftOut
  <2>3. QED BY <2>1, <2>2, <1>1, <1>8 DEF Covered, TextInv
<1>14. HelperAnswers'
  BY <1>1 DEF HelperAnswers, TextInv, P!Texts, P!Clocks, P!Answer
<1>15. QED BY <1>9, <1>10, <1>11, <1>12, <1>13, <1>14 DEF TextInv

(* A callback's item is that of the line just read.                        *)
LEMMA CallBackStep ==
  ASSUME NEW Char, TextUse(Char), TextInv(Char), NEW r \in {0, 1}, P!CallBack(r)
  PROVE  TextInv(Char)'
<1>1. PICK f : f = P!Fgets
  OBVIOUS
<1>2. PICK c : c = [item |-> P!Item(f), line |-> f, from |-> at]
  OBVIOUS
<1>3. /\ ~closed /\ at < Len(text) /\ at' = at + Len(f) /\ items' = Append(items, c)
      /\ text' = text /\ comment_char' = comment_char
      /\ result' = r /\ closed' = (r = 0) /\ arg' = arg /\ reply' = reply
  BY <1>1, <1>2 DEF P!CallBack
<1>4. /\ text \in Seq(Char) /\ at \in 0..Len(text) /\ items \in Seq(CallsBack(Char))
      /\ closed \in BOOLEAN /\ Len(text) \in Nat /\ at \in Nat /\ Len(items) \in Nat
  BY DEF TextInv, TextTyped
<1>5. PICK n \in Nat : IsRead(n)
  <2>1. BufferSize \in Nat \ {0}
    BY DEF TextUse
  <2>2. QED BY <2>1, <1>4, FgetsIs
<1>6. /\ Within(text, at, at + n) /\ f = Mid(text, at, at + n) /\ Len(f) = n
      /\ at' = at + n
  BY <1>1, <1>3, <1>5 DEF IsRead
<1>7. f \in Seq(Char)
  BY <1>4, <1>6, CutIs
<1>8. c \in CallsBack(Char)
  <2>1. P!Item(f) \in [key : Seq(Char), value : Seq(Char)]
    BY <1>7, ItemTyped
  <2>2. QED BY <2>1, <1>2, <1>4, <1>7 DEF CallsBack
<1>9. c.item = P!Item(c.line) /\ c.line = f /\ c.from = at
  BY <1>2
<1>10. PICK z \in Nat : z = Len(items)
  BY <1>4
<1>11. /\ items' \in Seq(CallsBack(Char)) /\ Len(items') = z + 1 /\ items'[z + 1] = c
       /\ \A k \in 1..z : items'[k] = items[k]
  BY <1>3, <1>4, <1>8, <1>10, AppendProperties
<1>12. at + n <= Len(text)
  BY <1>6 DEF Within
<1>13. TextTyped(Char)'
  BY <1>3, <1>4, <1>6, <1>11, <1>12 DEF TextTyped
<1>14. ItemsMade'
  <2>1. \A k \in 1..z : items[k].item = P!Item(items[k].line)
    BY <1>10 DEF ItemsMade, TextInv
  <2>2. \A k \in 1..(z + 1) : k \in 1..z \/ k = z + 1
    BY <1>10
  <2>3. \A k \in 1..(z + 1) : items'[k].item = P!Item(items'[k].line)
    BY <2>1, <2>2, <1>9, <1>11
  <2>4. QED BY <2>3, <1>3, <1>11, SameItem DEF ItemsMade
<1>15. AnswersEnd'
  <2>1. closed' => result' = 0
    BY <1>3
  <2>2. result' = 0 => closed'
    BY <1>3
  <2>3. QED BY <2>1, <2>2 DEF AnswersEnd
<1>16. LinesHold'
  <2>1. \A k \in 1..z : /\ items[k].line = SubSeq(text, items[k].from + 1,
                                                  items[k].from + Len(items[k].line))
                        /\ items[k].from + Len(items[k].line)
                             <= IF k = z THEN at ELSE items[k + 1].from
    BY <1>10 DEF LinesHold, TextInv
  <2>2. ASSUME NEW k \in 1..(z + 1)
        PROVE  /\ items'[k].line = SubSeq(text, items'[k].from + 1,
                                          items'[k].from + Len(items'[k].line))
               /\ items'[k].from + Len(items'[k].line)
                    <= IF k = z + 1 THEN at' ELSE items'[k + 1].from
    <3>1. CASE k = z + 1
      <4>1. f = SubSeq(text, at + 1, at + Len(f)) /\ at + Len(f) <= at'
        BY <1>4, <1>6 DEF Mid
      <4>2. QED BY <4>1, <3>1, <1>9, <1>11
    <3>2. CASE k = z /\ k # z + 1
      <4>1. items'[k] = items[k] /\ k \in 1..z /\ items'[k + 1].from = at
        BY <3>2, <1>9, <1>11
      <4>2. QED BY <4>1, <3>2, <2>1
    <3>3. CASE k # z /\ k # z + 1
      <4>1. k \in 1..z /\ k + 1 \in 1..z
        BY <3>3
      <4>2. items'[k] = items[k] /\ items'[k + 1] = items[k + 1]
        BY <4>1, <1>11
      <4>3. QED BY <4>1, <4>2, <3>3, <2>1
    <3>4. QED BY <3>1, <3>2, <3>3
  <2>3. QED BY <2>2, <1>3, <1>11 DEF LinesHold
<1>17. Covered'
  <2>1. \A i \in 1..at' : i \in 1..at \/ i \in (at + 1)..(at + Len(f))
    BY <1>4, <1>6
  <2>2. \A i \in 1..at' : LeftOut(i)' = LeftOut(i)
    BY <1>3, SameLeftOut
  <2>3. \A i \in 1..at :
          \/ LeftOut(i)
          \/ \E k \in 1..z :
               i \in (items[k].from + 1)..(items[k].from + Len(items[k].line))
    BY <1>10 DEF Covered, TextInv
  <2>4. ASSUME NEW i \in 1..at'
        PROVE  \/ LeftOut(i)
               \/ \E k \in 1..(z + 1) :
                    i \in (items'[k].from + 1)..(items'[k].from + Len(items'[k].line))
    <3>1. CASE i \in 1..at
      <4>1. \A k \in 1..z : k \in 1..(z + 1) /\ items'[k] = items[k]
        BY <1>11
      <4>2. QED BY <4>1, <3>1, <2>3
    <3>2. CASE i \in (at + 1)..(at + Len(f))
      <4>1. z + 1 \in 1..(z + 1)
        BY <1>10
      <4>2. QED BY <4>1, <3>2, <1>9, <1>11
    <3>3. QED BY <3>1, <3>2, <2>1
  <2>5. QED BY <2>2, <2>4, <1>11 DEF Covered
<1>18. HelperAnswers'
  BY <1>3 DEF HelperAnswers, TextInv, P!Texts, P!Clocks, P!Answer
<1>19. QED BY <1>13, <1>14, <1>15, <1>16, <1>17, <1>18 DEF TextInv

LEMMA EndStep ==
  ASSUME NEW Char, TextInv(Char), P!EndOfFile PROVE TextInv(Char)'
<1>1. /\ ~closed /\ at = Len(text) /\ closed' = TRUE
      /\ text' = text /\ comment_char' = comment_char /\ at' = at /\ items' = items
      /\ result' = result /\ arg' = arg /\ reply' = reply
  BY DEF P!EndOfFile
<1>2. TextTyped(Char)' /\ AnswersEnd' /\ LinesHold'
  BY <1>1 DEF TextInv, TextTyped, AnswersEnd, LinesHold
<1>3. ItemsMade'
  BY <1>1, SameItem DEF TextInv, ItemsMade
<1>4. Covered'
  BY <1>1, SameLeftOut DEF TextInv, Covered
<1>5. HelperAnswers'
  BY <1>1 DEF TextInv, HelperAnswers, P!Texts, P!Clocks, P!Answer
<1>6. QED BY <1>2, <1>3, <1>4, <1>5 DEF TextInv

(* A call of another helper, or none, leaves what was read.                *)
LEMMA HelperStep ==
  ASSUME NEW Char, TextInv(Char), UNCHANGED P!readVars,
         UNCHANGED <<arg, reply>> \/ \E a \in P!Texts \cup P!Clocks : P!Call(a)
  PROVE  TextInv(Char)'
<1>1. /\ text' = text /\ comment_char' = comment_char /\ at' = at /\ items' = items
      /\ result' = result /\ closed' = closed
  BY DEF P!readVars
<1>2. TextTyped(Char)' /\ AnswersEnd' /\ LinesHold'
  BY <1>1 DEF TextInv, TextTyped, AnswersEnd, LinesHold
<1>3. ItemsMade'
  BY <1>1, SameItem DEF TextInv, ItemsMade
<1>4. Covered'
  BY <1>1, SameLeftOut DEF TextInv, Covered
<1>5. HelperAnswers'
  <2>1. CASE UNCHANGED <<arg, reply>>
    BY <2>1 DEF TextInv, HelperAnswers, P!Texts, P!Clocks, P!Answer
  <2>2. CASE \E a \in P!Texts \cup P!Clocks : P!Call(a)
    BY <2>2 DEF P!Call, HelperAnswers, P!Texts, P!Clocks, P!Answer
  <2>3. QED BY <2>1, <2>2
<1>6. QED BY <1>2, <1>3, <1>4, <1>5 DEF TextInv

(* What the invariant says of lines and helpers.                           *)
LEMMA TextInvIsRight ==
  ASSUME NEW Char, TextUse(Char), TextInv(Char)
  PROVE  /\ P!ItemsFollowGrammar /\ P!LinesInOrder
         /\ P!SplitIsRight /\ P!OrderIsRight /\ P!TimeIsRight
<1>1. items \in Seq(CallsBack(Char)) /\ DOMAIN items = 1..Len(items)
  BY DEF TextInv, TextTyped
<1>2. P!ItemsFollowGrammar
  <2>1. \A n \in 1..Len(items) :
          items[n].line \in Seq(Char) /\ items[n].item = P!Item(items[n].line)
    <3>1. \A n \in 1..Len(items) : items[n] \in CallsBack(Char)
      BY <1>1, ElementOfSeq
    <3>2. \A c \in CallsBack(Char) : c.line \in Seq(Char)
      BY DEF CallsBack
    <3>3. QED BY <3>1, <3>2 DEF TextInv, ItemsMade
  <2>2. ASSUME NEW n \in DOMAIN items,
               ~P!Without(P!delete_comment(items[n].line, comment_char), "=")
        PROVE  /\ P!IsItem(items[n].line, items[n].item.key, items[n].item.value)
               /\ P!Bare(items[n].item.key) /\ P!Bare(items[n].item.value)
    <3>1. PICK l : l = items[n].line
      OBVIOUS
    <3>2. l \in Seq(Char) /\ items[n].item = P!Item(l)
      BY <1>1, <2>1, <3>1
    <3>3. /\ P!IsItem(l, P!Item(l).key, P!Item(l).value)
          /\ P!Bare(P!Item(l).key) /\ P!Bare(P!Item(l).value)
      BY <3>1, <3>2, <2>2, ItemIsPart
    <3>4. QED BY <3>1, <3>2, <3>3
  <2>3. QED BY <2>2, Zenon DEF P!ItemsFollowGrammar
<1>3. P!LinesInOrder
  <2>1. /\ closed /\ result = 1 => at = Len(text)
        /\ items # <<>> /\ result = 0 => closed
    BY DEF TextInv, AnswersEnd
  <2>2. \A n \in DOMAIN items :
          /\ items[n].line = SubSeq(text, items[n].from + 1, P!End(n))
          /\ P!End(n) <= IF n = Len(items) THEN at ELSE items[n + 1].from
    BY <1>1, Zenon DEF TextInv, LinesHold, P!End
  <2>3. \A i \in 1..at :
          \/ text[i] \in P!White
          \/ P!Commented(i)
          \/ \E n \in DOMAIN items : i \in (items[n].from + 1)..P!End(n)
    BY <1>1 DEF TextInv, Covered, LeftOut, P!End
  <2>4. QED BY <2>1, <2>2, <2>3, Zenon DEF P!LinesInOrder
<1>4. ASSUME arg.fn # "none" PROVE arg \in P!Texts \cup P!Clocks /\ reply = P!Answer(arg)
  BY <1>4 DEF TextInv, HelperAnswers
<1>5. P!SplitIsRight
  <2>. SUFFICES ASSUME arg.fn = "split_url" PROVE P!SplitIsRight
    BY DEF P!SplitIsRight
  <2>1. arg \in [fn : {"split_url"}, url : Urls, p : Spaces, n : Spaces]
    BY <1>4 DEF P!Texts, P!Clocks
  <2>2. arg.url \in Seq(Char) /\ arg.p \in Nat \ {0} /\ arg.n \in Nat \ {0}
    BY <2>1 DEF TextUse
  <2>3. reply = P!split_url(arg.url, arg.p, arg.n)
    BY <1>4 DEF P!Answer
  <2>4. Splits(arg.url, arg.p, arg.n, reply)
    BY <2>2, <2>3, UrlIsSplit
  <2>5. QED BY <2>4, Zenon DEF Splits, P!SplitIsRight
<1>6. P!OrderIsRight
  <2>. SUFFICES ASSUME arg.fn = "str_cmp" PROVE P!OrderIsRight
    BY DEF P!OrderIsRight
  <2>1. arg \in [fn : {"str_cmp"}, s : Strings, t : Strings]
    BY <1>4 DEF P!Texts, P!Clocks
  <2>2. arg.s \in Seq(Int) /\ arg.t \in Seq(Int)
    BY <2>1 DEF TextUse
  <2>3. reply = <<P!str_cmp(arg.s, arg.t), P!str_cmp(arg.t, arg.s)>>
    BY <1>4 DEF P!Answer
  <2>4. QED BY <2>2, <2>3, StringsAreOrdered DEF P!OrderIsRight
<1>7. P!TimeIsRight
  <2>. SUFFICES ASSUME arg.fn = "time" PROVE P!TimeIsRight
    BY DEF P!TimeIsRight
  <2>1. arg \in [fn : {"time"}, t : ClockTimes, u : ClockTimes, n : Steps]
    BY <1>4 DEF P!Texts, P!Clocks
  <2>2. PICK t \in ClockTimes, u \in ClockTimes, n \in Steps :
          arg = [fn |-> "time", t |-> t, u |-> u, n |-> n]
    <3>1. /\ arg.t \in ClockTimes /\ arg.u \in ClockTimes /\ arg.n \in Steps
          /\ arg = [fn |-> "time", t |-> arg.t, u |-> arg.u, n |-> arg.n]
      BY <2>1
    <3>2. QED BY <3>1
  <2>3. QED BY <2>2, <1>4, TimesAgree DEF TextUse
<1>8. QED BY <1>2, <1>3, <1>5, <1>6, <1>7

(* eproperty.c: property_read calls back every line once, in order and as  *)
(* the grammar has it.  estring.c, etime.c: urls come apart and together,  *)
(* str_cmp orders, differences and sums of times agree with comparisons.   *)
THEOREM TextsRead ==
  ASSUME NEW Char, TextUse(Char)
  PROVE  P!Spec => [](/\ P!ItemsFollowGrammar /\ P!LinesInOrder
                      /\ P!SplitIsRight /\ P!OrderIsRight /\ P!TimeIsRight)
<1>1. P!Init => TextInv(Char)
  BY TextInit
<1>2. TextInv(Char) /\ [P!Next]_(P!vars) => TextInv(Char)'
  <2>. SUFFICES ASSUME TextInv(Char), [P!Next]_(P!vars) PROVE TextInv(Char)'
    OBVIOUS
  <2>1. CASE P!Skip
    BY <2>1, SkipStep
  <2>2. CASE \E r \in {0, 1} : P!CallBack(r)
    BY <2>2, CallBackStep
  <2>3. CASE P!EndOfFile
    BY <2>3, EndStep
  <2>4. CASE \E a \in P!Texts \cup P!Clocks : P!Call(a)
    <3>1. UNCHANGED P!readVars
      BY <2>4 DEF P!Call
    <3>2. QED BY <2>4, <3>1, HelperStep
  <2>5. CASE UNCHANGED P!vars
    <3>1. UNCHANGED P!readVars /\ UNCHANGED <<arg, reply>>
      BY <2>5 DEF P!vars
    <3>2. QED BY <3>1, HelperStep
  <2>6. QED BY <2>1, <2>2, <2>3, <2>4, <2>5 DEF P!Next
<1>3. TextInv(Char) => /\ P!ItemsFollowGrammar /\ P!LinesInOrder
                       /\ P!SplitIsRight /\ P!OrderIsRight /\ P!TimeIsRight
  BY TextInvIsRight
<1>4. QED BY <1>1, <1>2, <1>3, PTL DEF P!Spec

-----------------------------------------------------------------------------
(* The library as one specification.  A behaviour of Library is one of one *)
(* part and stays so; with ~InX forever, nothing is said of part X.        *)
LEMMA BufferRun == Spec => (B!Spec /\ []InBuffer) \/ []~InBuffer
<1>1. Init /\ InBuffer => B!Init
  BY DEF Init, Begin
<1>2. InBuffer /\ [Next]_vars => [B!Next]_(B!vars) /\ InBuffer'
  BY DEF Next, vars, bufVars, B!vars, InBuffer, InShm, InLog, InFiles,
     InMap, InGroups, InNet, InText
<1>3. ~InBuffer /\ [Next]_vars => ~InBuffer'
  BY DEF Next, vars, InBuffer
<1>4. QED BY <1>1, <1>2, <1>3, PTL DEF Spec, B!Spec

(* ebuffer.c in the library: cursors, lines and what is copied.            *)
THEOREM LibraryIsStream == ASSUME NEW Byte, BufUse(Byte) PROVE Spec => IsStream
<1>1. [Next]_vars /\ (InBuffer => [B!IsStream /\ B!FitsCaller]_(B!vars))
        => [InBuffer => B!IsStream /\ B!FitsCaller]_vars
  BY DEF Next, vars, bufVars, B!vars,
     InBuffer, InShm, InLog, InFiles, InMap, InGroups, InNet, InText
<1>2. QED BY <1>1, BufferRun, BufSteps, PTL DEF Spec, IsStream

-----------------------------------------------------------------------------
(* eshm.c in the library.  EShmProofs has definitions of its own; they are *)
(* the same.                                                               *)
ShmP == INSTANCE EShmProofs WITH pc <- shmPc, None <- NoSegment

(* The same segments, the same first state and the same steps.             *)
LEMMA ShmSegSame == Shm!NextSeg = ShmP!NextSeg
BY DEF Shm!NextSeg, ShmP!NextSeg, Shm!Made, ShmP!Made, Shm!Cardinality,
   ShmP!Cardinality

LEMMA ShmInitSame == Shm!Init => ShmP!Init
BY DEF Shm!Init, ShmP!Init, Shm!NoHandle, ShmP!NoHandle, Shm!Segs, ShmP!Segs

LEMMA ShmNextSame == Shm!Next => ShmP!Next
<1>1. \A p \in Procs, n \in Sizes : Shm!GetNew(p, n) => ShmP!GetNew(p, n)
  BY ShmSegSame DEF Shm!GetNew, ShmP!GetNew, Shm!Make, ShmP!Make, Shm!Made, ShmP!Made,
     Shm!Segs, ShmP!Segs, Shm!Goto, ShmP!Goto, Shm!NoHandle, ShmP!NoHandle,
     Shm!history, ShmP!history
<1>2. \A p \in Procs, n \in Sizes : Shm!GetExists(p, n) => ShmP!GetExists(p, n)
  BY ShmSegSame DEF Shm!GetExists, ShmP!GetExists, Shm!Goto, ShmP!Goto, Shm!NoHandle,
     ShmP!NoHandle, Shm!history, ShmP!history, Shm!kernel, ShmP!kernel
<1>3. \A p \in Procs : Shm!GetFound(p) => ShmP!GetFound(p)
  BY ShmSegSame DEF Shm!GetFound, ShmP!GetFound, Shm!LargeEnough, ShmP!LargeEnough,
     Shm!Goto, ShmP!Goto, Shm!history, ShmP!history, Shm!kernel, ShmP!kernel
<1>4. \A p \in Procs : Shm!GetTooSmall(p) => ShmP!GetTooSmall(p)
  BY ShmSegSame DEF Shm!GetTooSmall, ShmP!GetTooSmall, Shm!LargeEnough,
     ShmP!LargeEnough, Shm!Free, ShmP!Free, Shm!Goto, ShmP!Goto, Shm!NoHandle,
     ShmP!NoHandle, Shm!history, ShmP!history, Shm!kernel, ShmP!kernel
<1>5. \A p \in Procs : Shm!GetMakes(p) => ShmP!GetMakes(p)
  BY ShmSegSame DEF Shm!GetMakes, ShmP!GetMakes, Shm!Make, ShmP!Make, Shm!Made,
     ShmP!Made, Shm!Segs, ShmP!Segs, Shm!Goto, ShmP!Goto
<1>6. \A p \in Procs : Shm!Attach(p) => ShmP!Attach(p)
  BY ShmSegSame DEF Shm!Attach, ShmP!Attach, Shm!Alive, ShmP!Alive, Shm!Made,
     ShmP!Made, Shm!Goto, ShmP!Goto
<1>7. \A p \in Procs : Shm!AttachFails(p) => ShmP!AttachFails(p)
  BY ShmSegSame DEF Shm!AttachFails, ShmP!AttachFails, Shm!Free, ShmP!Free, Shm!Goto,
     ShmP!Goto, Shm!NoHandle, ShmP!NoHandle, Shm!kernel, ShmP!kernel
<1>8. \A p \in Procs : Shm!Detach(p) => ShmP!Detach(p)
  BY ShmSegSame DEF Shm!Detach, ShmP!Detach, Shm!Unmap, ShmP!Unmap, Shm!Reaped,
     ShmP!Reaped, Shm!Made, ShmP!Made, Shm!history, ShmP!history
<1>9. \A p \in Procs : Shm!Delete(p) => ShmP!Delete(p)
  BY ShmSegSame DEF Shm!Delete, ShmP!Delete, Shm!Outlives, ShmP!Outlives, Shm!Alive,
     ShmP!Alive, Shm!Unmap, ShmP!Unmap, Shm!Reaped, ShmP!Reaped, Shm!Made, ShmP!Made,
     Shm!Free, ShmP!Free, Shm!Goto, ShmP!Goto, Shm!NoHandle, ShmP!NoHandle,
     Shm!history, ShmP!history
<1>10. \A p \in Procs : Shm!DeleteFails(p) => ShmP!DeleteFails(p)
  BY ShmSegSame DEF Shm!DeleteFails, ShmP!DeleteFails, Shm!Outlives, ShmP!Outlives,
     Shm!Alive, ShmP!Alive, Shm!Unmap, ShmP!Unmap, Shm!Reaped, ShmP!Reaped, Shm!Made,
     ShmP!Made, Shm!history, ShmP!history
<1>11. \A p \in Procs : Shm!Destroy(p) => ShmP!Destroy(p)
  BY ShmSegSame DEF Shm!Destroy, ShmP!Destroy, Shm!Unmap, ShmP!Unmap, Shm!Reaped,
     ShmP!Reaped, Shm!Made, ShmP!Made, Shm!Free, ShmP!Free, Shm!Goto, ShmP!Goto,
     Shm!NoHandle, ShmP!NoHandle, Shm!history, ShmP!history
<1>12. \A p \in Procs : Shm!Exit(p) => ShmP!Exit(p)
  BY ShmSegSame DEF Shm!Exit, ShmP!Exit, Shm!Unmap, ShmP!Unmap, Shm!Reaped,
     ShmP!Reaped, Shm!Made, ShmP!Made, Shm!Free, ShmP!Free, Shm!Goto, ShmP!Goto,
     Shm!NoHandle, ShmP!NoHandle
<1>13. QED BY <1>1, <1>2, <1>3, <1>4, <1>5, <1>6, <1>7, <1>8, <1>9, <1>10, <1>11,
   <1>12 DEF Shm!Next, ShmP!Next

LEMMA ShmSame == Shm!Spec => ShmP!Spec
<1>1. [Shm!Next]_(Shm!vars) => [ShmP!Next]_(ShmP!vars)
  BY ShmNextSame DEF Shm!vars, ShmP!vars
<1>2. QED BY <1>1, ShmInitSame, PTL DEF Shm!Spec, ShmP!Spec

LEMMA ShmRun == Spec => (Shm!Spec /\ []InShm) \/ []~InShm
<1>1. Init /\ InShm => Shm!Init
  BY DEF Init, Begin
<1>2. InShm /\ [Next]_vars => [Shm!Next]_(Shm!vars) /\ InShm'
  BY DEF Next, vars, shmVars, Shm!vars, InBuffer, InShm, InLog, InFiles,
     InMap, InGroups, InNet, InText
<1>3. ~InShm /\ [Next]_vars => ~InShm'
  BY DEF Next, vars, InShm
<1>4. QED BY <1>1, <1>2, <1>3, PTL DEF Spec, Shm!Spec

(* Who has a segment mapped has a handle of it, at most one process is     *)
(* told that it is new, and it is as large as its users believe.           *)
THEOREM LibrarySegmentsAreTrue == ASSUME ShmP!Sound PROVE Spec => []SegmentsAreTrue
<1>1. ShmP!Spec => []ShmP!SegmentsAreTrue
  BY ShmP!ShmSegmentsAreTrue
<1>2. \A T : Shm!Cardinality(T) = ShmP!Cardinality(T)
  BY DEF Shm!Cardinality, ShmP!Cardinality
<1>3. ShmP!SegmentsAreTrue => SegmentsAreTrue
  BY <1>2 DEF SegmentsAreTrue, Shm!SegmentsAreTrue, ShmP!SegmentsAreTrue, Shm!TypeOK,
     ShmP!TypeOK, Shm!OneInitialiser, ShmP!OneInitialiser, Shm!SizeIsTrue,
     ShmP!SizeIsTrue, Shm!Made, ShmP!Made, Shm!Segs, ShmP!Segs
<1>4. ~InShm => SegmentsAreTrue
  BY DEF SegmentsAreTrue
<1>5. QED BY <1>1, <1>3, <1>4, ShmRun, ShmSame, PTL

-----------------------------------------------------------------------------
(* elog.c and esyslog.c in the library, in the same way.                   *)
LogP == INSTANCE ELogProofs WITH fds <- logFds, MaxFd <- LogMaxFd

LEMMA LogInitSame == Log!Init => LogP!Init
BY DEF Log!Init, LogP!Init, Log!Fds, LogP!Fds, Log!Stdout, LogP!Stdout, Log!Info,
   LogP!Info, Log!Nothing, LogP!Nothing

LEMMA LogNextSame == Log!Next => LogP!Next
<1>1. Log!AppOpens => LogP!AppOpens
  BY DEF Log!AppOpens, LogP!AppOpens, Log!FreeFds, LogP!FreeFds, Log!Fds, LogP!Fds,
     Log!Lowest, LogP!Lowest, Log!statics, LogP!statics
<1>2. \A d : Log!AppCloses(d) => LogP!AppCloses(d)
  BY DEF Log!AppCloses, LogP!AppCloses, Log!statics, LogP!statics
<1>3. Log!SetFile => LogP!SetFile
  BY DEF Log!SetFile, LogP!SetFile, Log!OldClosed, LogP!OldClosed, Log!Stdout,
     LogP!Stdout, Log!Fds, LogP!Fds, Log!Lowest, LogP!Lowest
<1>4. Log!SetFileFails => LogP!SetFileFails
  BY DEF Log!SetFileFails, LogP!SetFileFails, Log!OldClosed, LogP!OldClosed,
     Log!Stdout, LogP!Stdout, Log!statics, LogP!statics
<1>5. Log!SyslogOpen => LogP!SyslogOpen
  BY DEF Log!SyslogOpen, LogP!SyslogOpen, Log!FreeFds, LogP!FreeFds, Log!Fds,
     LogP!Fds, Log!Lowest, LogP!Lowest
<1>6. Log!SyslogOpenFails => LogP!SyslogOpenFails
  BY DEF Log!SyslogOpenFails, LogP!SyslogOpenFails
<1>7. Log!LogClose => LogP!LogClose
  BY DEF Log!LogClose, LogP!LogClose, Log!Stdout, LogP!Stdout
<1>8. Log!SyslogClose => LogP!SyslogClose
  BY DEF Log!SyslogClose, LogP!SyslogClose
<1>9. \A l : Log!SetLevel(l) => LogP!SetLevel(l)
  BY DEF Log!SetLevel, LogP!SetLevel, Log!Debug, LogP!Debug, Log!Error, LogP!Error
<1>10. \A l, n : Log!Log(l, n) => LogP!Log(l, n)
  BY DEF Log!Log, LogP!Log, Log!ToFile, LogP!ToFile, Log!ToSyslog, LogP!ToSyslog,
     Log!Clamped, LogP!Clamped, Log!Emit, LogP!Emit, Log!LineLen, LogP!LineLen,
     Log!Stored, LogP!Stored, Log!Datagram, LogP!Datagram, Log!Error, LogP!Error,
     Log!statics, LogP!statics
<1>11. QED BY <1>1, <1>2, <1>3, <1>4, <1>5, <1>6, <1>7, <1>8, <1>9, <1>10 DEF
   Log!Next, LogP!Next, Log!Fds, LogP!Fds, Log!log_by_level, LogP!log_by_level,
   Log!log_debug, LogP!log_debug, Log!log_info, LogP!log_info, Log!log_warn,
   LogP!log_warn, Log!log_error, LogP!log_error, Log!Debug, LogP!Debug, Log!Info,
   LogP!Info, Log!Warn, LogP!Warn, Log!Error, LogP!Error

LEMMA LogSame == Log!Spec => LogP!Spec
<1>1. [Log!Next]_(Log!vars) => [LogP!Next]_(LogP!vars)
  BY LogNextSame DEF Log!vars, LogP!vars, Log!statics, LogP!statics
<1>2. QED BY <1>1, LogInitSame, PTL DEF Log!Spec, LogP!Spec

LEMMA LogRun == Spec => (Log!Spec /\ []InLog) \/ []~InLog
<1>1. Init /\ InLog => Log!Init
  BY DEF Init, Begin
<1>2. InLog /\ [Next]_vars => [Log!Next]_(Log!vars) /\ InLog'
  BY DEF Next, vars, logVars, Log!vars, Log!statics,
     InBuffer, InShm, InLog, InFiles,
     InMap, InGroups, InNet, InText
<1>3. ~InLog /\ [Next]_vars => ~InLog'
  BY DEF Next, vars, InLog
<1>4. QED BY <1>1, <1>2, <1>3, PTL DEF Spec, Log!Spec

(* Lines stay in their buffers, whole or cut, and levels in their tables.  *)
THEOREM LibraryLineInBuffer == ASSUME LogP!Sound PROVE Spec => []LineInBuffer
<1>1. LogP!Spec => [](LogP!TypeOK /\ LogP!LineInBuffer)
  BY LogP!LogLinesFit
<1>2. LogP!TypeOK /\ LogP!LineInBuffer => LineInBuffer
  BY DEF LineInBuffer, Log!TypeOK, LogP!TypeOK, Log!LineInBuffer, LogP!LineInBuffer,
     Log!Fds, LogP!Fds, Log!Debug, LogP!Debug, Log!Error, LogP!Error
<1>3. ~InLog => LineInBuffer
  BY DEF LineInBuffer
<1>4. QED BY <1>1, <1>2, <1>3, LogRun, LogSame, PTL

LEMMA NetRun == Spec => (N!Spec /\ []InNet) \/ []~InNet
<1>1. Init /\ InNet => N!Init
  BY DEF Init, Begin
<1>2. InNet /\ [Next]_vars => [N!Next]_(N!vars) /\ InNet'
  BY DEF Next, vars, netVars, N!vars, InBuffer, InShm, InLog, InFiles,
     InMap, InGroups, InNet, InText
<1>3. ~InNet /\ [Next]_vars => ~InNet'
  BY DEF Next, vars, InNet
<1>4. QED BY <1>1, <1>2, <1>3, PTL DEF Spec, N!Spec

(* The log owns its descriptors; the socket functions leave open what they *)
(* answer and nothing else, but for nic_get_ip's socket, and close nothing *)
(* of the rest's, but for descriptor 0.                                    *)
THEOREM LibraryOwnsItsFds ==
  ASSUME LogP!Sound, MaxFd \in Nat PROVE Spec => OwnsItsFds
<1>1. LogP!Spec => [](LogP!TypeOK /\ LogP!OwnsItsFds)
  BY LogP!LogOwnsItsFds
<1>2. LogP!Spec => []LogP!OneLogFile
  BY LogP!LogHasOneFile
<1>3. LogP!Spec => [][LogP!ClosesItsOwn]_(LogP!vars)
  BY LogP!LogClosesItsOwn
<1>4. LogP!OwnsItsFds /\ LogP!OneLogFile => Log!OwnsItsFds /\ Log!OneLogFile
  <2>1. \A T : Log!Cardinality(T) = LogP!Cardinality(T)
    BY DEF Log!Cardinality, LogP!Cardinality
  <2>2. QED BY <2>1 DEF Log!OwnsItsFds, LogP!OwnsItsFds, Log!OneLogFile,
     LogP!OneLogFile, Log!Fds, LogP!Fds, Log!Stdout, LogP!Stdout
<1>5. [Next]_vars /\ (InLog => [LogP!ClosesItsOwn]_(LogP!vars))
        => [InLog => Log!ClosesItsOwn]_vars
  <2>1. LogP!ClosesItsOwn => Log!ClosesItsOwn
    BY DEF Log!ClosesItsOwn, LogP!ClosesItsOwn, Log!AppCloses, LogP!AppCloses,
       Log!Fds, LogP!Fds, Log!statics, LogP!statics
  <2>2. [Next]_vars /\ InLog /\ UNCHANGED LogP!vars => UNCHANGED vars
    BY DEF Next, vars, logVars, LogP!vars, LogP!statics, InBuffer, InShm, InLog,
       InFiles, InMap, InGroups, InNet, InText
  <2>3. QED BY <2>1, <2>2
<1>6. [Next]_vars /\ (InNet => [N!ClosesItsOwn]_(N!vars))
        => [InNet => N!ClosesItsOwn]_vars
  BY DEF Next, vars, netVars, N!vars,
     InBuffer, InShm, InLog, InFiles, InMap, InGroups, InNet, InText
<1>7. QED
  BY <1>1, <1>2, <1>3, <1>4, <1>5, <1>6, LogRun, LogSame, NetRun, FailuresClose,
     SuccessOwns, SocketsCloseTheirOwn, PTL
     DEF Spec, OwnsItsFds

-----------------------------------------------------------------------------
(* eother.c in the library.                                                *)
LEMMA FilesRun == Spec => (F!Spec /\ []InFiles) \/ []~InFiles
<1>1. Init /\ InFiles => F!Init
  BY DEF Init, Begin
<1>2. InFiles /\ [Next]_vars => [F!Next]_(F!vars) /\ InFiles'
  BY DEF Next, vars, fileVars, F!vars, InBuffer, InShm, InLog, InFiles,
     InMap, InGroups, InNet, InText
<1>3. ~InFiles /\ [Next]_vars => ~InFiles'
  BY DEF Next, vars, InFiles
<1>4. QED BY <1>1, <1>2, <1>3, PTL DEF Spec, F!Spec

(* create_dir: 1 means that all directories above the last are there, and  *)
(* the last, unless a regular file had its name while create_dir ran, which*)
(* counts for one; racing makers make what their paths share.              *)
THEOREM LibraryDirsAreMade ==
  ASSUME NEW Name, PathsAreNames(Name) PROVE Spec => []DirsAreMade
<1>1. (F!DirsAreMade => DirsAreMade) /\ (~InFiles => DirsAreMade)
  BY DEF DirsAreMade
<1>2. QED BY <1>1, FilesRun, MakersMakeDirs, PTL

(* The other functions answer what was true, and empty no file.            *)
THEOREM LibraryFileAnswersAreTrue ==
  ASSUME NEW Name, PathsAreNames(Name) PROVE Spec => FileAnswersAreTrue
<1>1. [Next]_vars /\ (InFiles => [F!KeepsWhatIsThere]_(F!vars))
        => [InFiles => F!KeepsWhatIsThere]_vars
  BY DEF Next, vars, fileVars, F!vars,
     InBuffer, InShm, InLog, InFiles, InMap, InGroups, InNet, InText
<1>2. QED BY <1>1, FilesRun, FileAnswers, PTL DEF Spec, FileAnswersAreTrue

-----------------------------------------------------------------------------
(* hashmap.c in the library.                                               *)
LEMMA MapRun == Spec => (H!Spec /\ []InMap) \/ []~InMap
<1>1. Init /\ InMap => H!Init
  BY DEF Init, Begin
<1>2. InMap /\ [Next]_vars => [H!Next]_(H!vars) /\ InMap'
  BY DEF Next, vars, mapVars, H!vars, H!dataVars, H!walkVars,
     InBuffer, InShm, InLog, InFiles,
     InMap, InGroups, InNet, InText
<1>3. ~InMap /\ [Next]_vars => ~InMap'
  BY DEF Next, vars, InMap
<1>4. QED BY <1>1, <1>2, <1>3, PTL DEF Spec, H!Spec

(* The table is a dictionary; rows, links, count, memory and frees agree.  *)
THEOREM LibraryIsDictionary == ASSUME TableSizes PROVE Spec => IsDictionary
<1>1. [Next]_vars /\ (InMap => [H!IsDictionary]_H!vars)
        => [InMap => H!IsDictionary]_vars
  BY DEF Next, vars, mapVars, H!vars, H!dataVars, H!walkVars,
     InBuffer, InShm, InLog, InFiles, InMap, InGroups, InNet, InText
<1>2. QED BY <1>1, MapRun, MapIsDictionary, PTL DEF Spec, IsDictionary

(* A walk meets all keys though the table changes.                         *)
THEOREM LibraryWalkMeetsAll == ASSUME TableSizes PROVE Spec => []WalkMeetsAll
<1>1. (H!WalkMeetsAll => WalkMeetsAll) /\ (~InMap => WalkMeetsAll)
  BY DEF WalkMeetsAll
<1>2. QED BY <1>1, MapRun, MapWalkMeetsAll, PTL

-----------------------------------------------------------------------------
(* server_conhash.c in the library.                                        *)
LEMMA GroupsRun == Spec => (G!Spec /\ []InGroups) \/ []~InGroups
<1>1. Init /\ InGroups => G!Init
  BY DEF Init, Begin
<1>2. InGroups /\ [Next]_vars => [G!Next]_(G!vars) /\ InGroups'
  BY DEF Next, vars, groupVars, G!vars, InBuffer, InShm, InLog, InFiles,
     InMap, InGroups, InNet, InText
<1>3. ~InGroups /\ [Next]_vars => ~InGroups'
  BY DEF Next, vars, InGroups
<1>4. QED BY <1>1, <1>2, <1>3, PTL DEF Spec, G!Spec

(* As far as memory went while the file was loaded, the rings are those of *)
(* the file, a lookup answers a server of the group, and servers of        *)
(* different names all serve.                                              *)
THEOREM LibraryGroupsAnswer ==
  ASSUME FilesAreLists PROVE Spec => []GroupsAnswer
<1>1. (G!GroupsAnswer => GroupsAnswer) /\ (~InGroups => GroupsAnswer)
  BY DEF GroupsAnswer
<1>2. QED BY <1>1, GroupsRun, ServersAnswer, PTL

LEMMA TextRun == Spec => (P!Spec /\ []InText) \/ []~InText
<1>1. Init /\ InText => P!Init
  BY DEF Init, Begin
<1>2. InText /\ [Next]_vars => [P!Next]_(P!vars) /\ InText'
  BY DEF Next, vars, textVars, P!vars, P!readVars, InBuffer, InShm, InLog, InFiles,
     InMap, InGroups, InNet, InText
<1>3. ~InText /\ [Next]_vars => ~InText'
  BY DEF Next, vars, InText
<1>4. QED BY <1>1, <1>2, <1>3, PTL DEF Spec, P!Spec

(* Lines come once each and in order, keys and values are what the grammar *)
(* makes them, urls are cut behind the last slash, strings are ordered,    *)
(* and differences, sums and comparisons of times agree.                   *)
THEOREM LibraryTextsAreRight ==
  ASSUME NEW Char, TextUse(Char) PROVE Spec => []TextsAreRight
<1>. DEFINE Right == /\ P!ItemsFollowGrammar /\ P!LinesInOrder
                     /\ P!SplitIsRight /\ P!OrderIsRight /\ P!TimeIsRight
<1>1. (Right => TextsAreRight) /\ (~InText => TextsAreRight)
  BY DEF TextsAreRight
<1>2. P!Spec => []Right
  BY TextsRead
<1>. HIDE DEF Right
<1>3. QED BY <1>1, <1>2, TextRun, PTL
===============================================================================
