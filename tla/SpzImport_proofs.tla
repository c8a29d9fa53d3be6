-------------------------- MODULE SpzImport_proofs --------------------------
(***************************************************************************)
(* The import of SPZ files: what a call authors is exactly what one        *)
(* version of the file stands for, the gate and the writer never stop a    *)
(* cloud that was decoded, the statistics are those of what is authored,   *)
(* and the import implements its promise.  For all files, requests and     *)
(* replacements.                                                           *)
(*                                                                         *)
(* First the numbers: a half, a fixed-point number and a rotation of each  *)
(* container version have the value the format gives them, for every byte  *)
(* and every width.  Then the payload: the six streams lie behind one      *)
(* another and fill it, and every value is read at its place.  Then the    *)
(* call.                                                                   *)
(***************************************************************************)
EXTENDS SpzImport, FiniteSetTheorems, WellFoundedInduction, TLAPS

(* ---- Powers of two ----------------------------------------------------- *)

(* A set of n elements has 2^n subsets; that of a sum are the unions of    *)
(* those of its terms.                                                     *)
Subsets(a, b) == SUBSET ((a + 1) .. b)

LEMMA PowerCounts ==
  ASSUME NEW a \in Nat, NEW n \in Nat
  PROVE  /\ IsFiniteSet(Subsets(a, a + n))
         /\ Cardinality(Subsets(a, a + n)) = 2^n
         /\ 2^n \in Nat
<1> DEFINE I == (a + 1) .. (a + n)
<1>1. IsFiniteSet(I) /\ Cardinality(I) = n
  <2>1. a + 1 \in Int /\ a + n \in Int
    OBVIOUS
  <2>2. IsFiniteSet(I) /\ Cardinality(I) = IF a + 1 > a + n THEN 0 ELSE (a + n) - (a + 1) + 1
    BY <2>1, FS_Interval
  <2> QED BY <2>2
<1>2. IsFiniteSet(SUBSET I) /\ Cardinality(SUBSET I) = 2^Cardinality(I)
  BY <1>1, FS_SUBSET
<1>3. IsFiniteSet(SUBSET I) /\ Cardinality(SUBSET I) = 2^n
  BY <1>1, <1>2
<1>4. Cardinality(SUBSET I) \in Nat
  BY <1>3, FS_CardinalityType
<1> QED BY <1>3, <1>4 DEF Subsets

LEMMA PowerOfSum ==
  ASSUME NEW m \in Nat, NEW n \in Nat
  PROVE  2^(m + n) = 2^m * 2^n
<1> DEFINE A == 1 .. m
           B == (m + 1) .. (m + n)
           pairs == (SUBSET A) \X (SUBSET B)
           union == [p \in pairs |-> p[1] \cup p[2]]
<1>1. /\ IsFiniteSet(SUBSET A) /\ Cardinality(SUBSET A) = 2^m
      /\ IsFiniteSet(SUBSET B) /\ Cardinality(SUBSET B) = 2^n
      /\ IsFiniteSet(SUBSET (1 .. m + n)) /\ Cardinality(SUBSET (1 .. m + n)) = 2^(m + n)
  <2>1. 0 + 1 = 1 /\ 0 + m = m /\ 0 + (m + n) = m + n /\ m + n \in Nat
    OBVIOUS
  <2>2. /\ IsFiniteSet(Subsets(0, m)) /\ Cardinality(Subsets(0, m)) = 2^m
        /\ IsFiniteSet(Subsets(0, m + n)) /\ Cardinality(Subsets(0, m + n)) = 2^(m + n)
    BY <2>1, PowerCounts
  <2> QED BY <2>1, <2>2, PowerCounts DEF Subsets
<1>2. IsFiniteSet(pairs) /\ Cardinality(pairs) = 2^m * 2^n
  <2>1. /\ IsFiniteSet(pairs)
        /\ Cardinality(pairs) = Cardinality(SUBSET A) * Cardinality(SUBSET B)
    <3> HIDE DEF A, B
    <3> QED BY <1>1, FS_Product
  <2> QED BY <1>1, <2>1, Zenon
<1>3. union \in [pairs -> SUBSET (1 .. m + n)]
  <2>1. A \subseteq 1 .. m + n /\ B \subseteq 1 .. m + n
    OBVIOUS
  <2> HIDE DEF A, B
  <2>2. \A p \in pairs : p[1] \cup p[2] \in SUBSET (1 .. m + n)
    BY <2>1
  <2> QED BY <2>2
<1>4. A \cap B = {} /\ 1 .. m + n \subseteq A \cup B
  OBVIOUS
<1> HIDE DEF A, B
<1>5. ASSUME NEW p \in pairs, NEW q \in pairs, union[p] = union[q]
      PROVE  p = q
  <2>1. /\ p = <<p[1], p[2]>> /\ p[1] \subseteq A /\ p[2] \subseteq B
        /\ q = <<q[1], q[2]>> /\ q[1] \subseteq A /\ q[2] \subseteq B
    OBVIOUS
  <2>2. p[1] \cup p[2] = q[1] \cup q[2]
    BY <1>5
  <2>3. p[1] = q[1]
    BY <1>4, <2>1, <2>2
  <2>4. p[2] = q[2]
    BY <1>4, <2>1, <2>2
  <2> QED BY <2>1, <2>3, <2>4
<1>6. ASSUME NEW s \in SUBSET (1 .. m + n)
      PROVE  \E p \in pairs : union[p] = s
  <2>1. <<s \cap A, s \cap B>> \in pairs
    OBVIOUS
  <2>2. union[<<s \cap A, s \cap B>>] = s
    BY <1>4, <2>1
  <2> QED BY <2>1, <2>2
<1>7. union \in Bijection(pairs, SUBSET (1 .. m + n))
  BY <1>3, <1>5, <1>6 DEF Bijection, Injection, Surjection, IsInjective
<1>8. ExistsBijection(pairs, SUBSET (1 .. m + n))
  BY <1>7 DEF ExistsBijection
<1>9. Cardinality(SUBSET (1 .. m + n)) = Cardinality(pairs)
  BY <1>2, <1>8, FS_Bijection
<1> QED BY <1>1, <1>2, <1>9

LEMMA PowerFacts ==
  ASSUME NEW n \in Nat
  PROVE  /\ 2^n \in Nat /\ 2^n >= 1
         /\ 2^(n + 1) = 2 * 2^n
<1>1. \A k \in Nat : 2^k \in Nat
  BY PowerCounts
<1>2. 2^(n + 1) = 2 * 2^n
  <2>1. 2^1 = 2
    OBVIOUS
  <2>2. 2^(n + 1) = 2^n * 2^1 /\ 2^n \in Nat
    BY <1>1, PowerOfSum
  <2>3. PICK p \in Nat : p = 2^n
    BY <2>2
  <2>4. 2^(n + 1) = p * 2
    BY <2>1, <2>2, <2>3
  <2> QED BY <2>3, <2>4
<1>3. {} \in Subsets(0, n) /\ Cardinality(Subsets(0, n)) = 2^n /\ IsFiniteSet(Subsets(0, n))
  BY PowerCounts DEF Subsets
<1>4. Cardinality(Subsets(0, n)) # 0
  BY <1>3, FS_EmptySet
<1> QED BY <1>1, <1>2, <1>3, <1>4

(* ---- Division ---------------------------------------------------------- *)

LEMMA DivisionFacts ==
  ASSUME NEW e \in Nat, NEW p \in Nat, p >= 1
  PROVE  /\ e \div p \in Nat /\ e % p \in Nat /\ e % p < p
         /\ e = (e \div p) * p + (e % p)
OBVIOUS

LEMMA Divided ==
  ASSUME NEW e \in Nat, NEW p \in Nat, p >= 1
  PROVE  \E d \in Nat, r \in Nat :
           d = e \div p /\ r = e % p /\ r < p /\ e = d * p + r
BY DivisionFacts

LEMMA DivisionIsUnique ==
  ASSUME NEW p \in Nat, NEW a \in Nat, NEW r \in Nat, r < p
  PROVE  (a * p + r) \div p = a /\ (a * p + r) % p = r
<1> DEFINE e == a * p + r
<1>1. e \in Nat /\ p >= 1
  <2>1. a * p \in Nat
    OBVIOUS
  <2> QED BY <2>1
<1>2. PICK q \in Nat, s \in Nat : q = e \div p /\ s = e % p
  BY <1>1, DivisionFacts
<1>3. s < p /\ q * p + s = a * p + r
  BY <1>1, <1>2, DivisionFacts
<1> HIDE DEF e
<1>4. ASSUME NEW x \in Nat, NEW y \in Nat, x < y
      PROVE  x * p + p <= y * p
  <2>1. PICK k \in Nat : y = x + 1 + k
    <3>1. y - x - 1 \in Nat /\ y = x + 1 + (y - x - 1)
      BY <1>4
    <3> QED BY <3>1
  <2>2. y * p = x * p + p + k * p /\ k * p \in Nat /\ x * p \in Nat
    BY <2>1
  <2> QED BY <2>2
<1>5. q * p \in Nat /\ a * p \in Nat
  OBVIOUS
<1>6. ~(q < a)
  <2> SUFFICES ASSUME q < a PROVE FALSE
    OBVIOUS
  <2>1. q * p + p <= a * p
    BY <1>4
  <2> QED BY <1>3, <1>5, <2>1
<1>7. ~(a < q)
  <2> SUFFICES ASSUME a < q PROVE FALSE
    OBVIOUS
  <2>1. a * p + p <= q * p
    BY <1>4
  <2> QED BY <1>3, <1>5, <2>1
<1>8. q = a
  BY <1>6, <1>7
<1>9. s = r
  BY <1>3, <1>5, <1>8
<1> QED BY <1>2, <1>8, <1>9 DEF e

(* The digits of a number to two bases in turn.                            *)
HasDigits(e, p, q, h, g, l, pq) ==
  /\ h = (e \div p) \div q /\ g = (e \div p) % q /\ l = e % p
  /\ g < q /\ l < p /\ pq = p * q /\ pq >= 1
  /\ e \div pq = h /\ e % pq = g * p + l
  /\ (e % pq) \div p = g /\ (e % pq) % p = l

LEMMA TwoDigits ==
  ASSUME NEW e \in Nat, NEW p \in Nat, NEW q \in Nat, p >= 1, q >= 1
  PROVE  \E h, g, l, pq \in Nat : HasDigits(e, p, q, h, g, l, pq)
<1>1. PICK d \in Nat, l \in Nat : d = e \div p /\ l = e % p
  BY DivisionFacts
<1>2. l < p /\ e = d * p + l
  BY <1>1, DivisionFacts
<1>3. PICK h \in Nat, g \in Nat : h = d \div q /\ g = d % q
  BY DivisionFacts
<1>4. g < q /\ d = h * q + g
  BY <1>3, DivisionFacts
<1>5. e = h * (p * q) + (g * p + l)
  BY <1>2, <1>4
<1>6. /\ p * q \in Nat /\ p * q >= 1
      /\ g * p \in Nat /\ g * p + l < p * q
  <2>1. PICK k \in Nat : q = g + 1 + k
    <3>1. q - g - 1 \in Nat /\ q = g + 1 + (q - g - 1)
      BY <1>4
    <3> QED BY <3>1
  <2>2. p * q = g * p + p + k * p /\ k * p \in Nat /\ g * p \in Nat
    BY <2>1
  <2> QED BY <1>2, <2>2
<1>7. PICK pq \in Nat, low \in Nat : pq = p * q /\ low = g * p + l
  BY <1>6
<1>8. e \div pq = h /\ e % pq = low
  <2>1. low < pq /\ e = h * pq + low
    BY <1>5, <1>6, <1>7
  <2> QED BY <2>1, DivisionIsUnique
<1>9. low \div p = g /\ low % p = l
  BY <1>2, <1>7, DivisionIsUnique
<1>10. /\ h = (e \div p) \div q /\ g = (e \div p) % q /\ l = e % p
       /\ e % pq = g * p + l /\ (e % pq) \div p = g /\ (e % pq) % p = l
  BY <1>1, <1>3, <1>7, <1>8, <1>9, Zenon
<1>11. pq >= 1
  BY <1>6, <1>7
<1>12. HasDigits(e, p, q, h, g, l, pq)
  BY <1>2, <1>4, <1>7, <1>8, <1>10, <1>11, Zenon DEF HasDigits
<1> QED BY <1>12

LEMMA DividedTwice ==
  ASSUME NEW e \in Nat, NEW p \in Nat, NEW q \in Nat, p >= 1, q >= 1
  PROVE  e \div (p * q) = (e \div p) \div q
<1>1. PICK h, g, l, pq \in Nat : HasDigits(e, p, q, h, g, l, pq)
  BY TwoDigits
<1> QED BY <1>1, Zenon DEF HasDigits

LEMMA RemainderTwice ==
  ASSUME NEW e \in Nat, NEW p \in Nat, NEW q \in Nat, p >= 1, q >= 1
  PROVE  (e % (p * q)) \div p = (e \div p) % q /\ (e % (p * q)) % p = e % p
<1>1. PICK h, g, l, pq \in Nat : HasDigits(e, p, q, h, g, l, pq)
  BY TwoDigits
<1> QED BY <1>1, Zenon DEF HasDigits

LEMMA QuotientBelow ==
  ASSUME NEW e \in Nat, NEW p \in Nat, NEW q \in Nat, p >= 1, e < p * q
  PROVE  e \div p < q /\ q >= 1
<1>1. PICK d \in Nat, l \in Nat : d = e \div p /\ l < p /\ e = d * p + l
  BY DivisionFacts
<1>2. ~(q <= d)
  <2> SUFFICES ASSUME q <= d PROVE FALSE
    OBVIOUS
  <2>1. PICK k \in Nat : d = q + k
    <3>1. d - q \in Nat /\ d = q + (d - q)
      OBVIOUS
    <3> QED BY <3>1
  <2>2. d * p = p * q + k * p /\ k * p \in Nat /\ p * q \in Nat
    BY <2>1
  <2> QED BY <1>1, <2>2
<1> QED BY <1>1, <1>2

LEMMA SmallQuotient ==
  ASSUME NEW e \in Nat, NEW p \in Nat, e < p
  PROVE  e \div p = 0 /\ e % p = e
<1>1. e = 0 * p + e
  OBVIOUS
<1> QED BY <1>1, DivisionIsUnique

(* ---- Bytes and words --------------------------------------------------- *)

LEMMA BytePowers ==
  ASSUME NEW p, p = 2^ByteBits
  PROVE  /\ p \in Nat /\ p >= 2 /\ ByteBits \in Nat \ {0}
         /\ 2^(ByteBits * 0) = 1 /\ 2^(ByteBits * 1) = p
         /\ 2^(ByteBits * 2) = p * p /\ 2^(ByteBits * 3) = p * p * p
         /\ 2^(ByteBits * 4) = p * p * p * p
<1>1. ByteBits \in Nat \ {0}
  BY WidthsAssumption
<1>2. /\ ByteBits * 0 = 0 /\ ByteBits * 1 = ByteBits
      /\ ByteBits * 2 = ByteBits + ByteBits /\ ByteBits * 3 = ByteBits * 2 + ByteBits
      /\ ByteBits * 4 = ByteBits * 3 + ByteBits
      /\ ByteBits * 2 \in Nat /\ ByteBits * 3 \in Nat
  BY <1>1
<1>3. p \in Nat /\ p >= 2
  <2>1. PICK b \in Nat : ByteBits = b + 1
    <3>1. ByteBits - 1 \in Nat /\ ByteBits = (ByteBits - 1) + 1
      BY <1>1
    <3> QED BY <3>1
  <2>2. 2^(b + 1) = 2 * 2^b /\ 2^b \in Nat /\ 2^b >= 1
    BY PowerFacts
  <2>3. p = 2 * 2^b
    BY <2>1, <2>2
  <2>4. PICK q \in Nat : q = 2^b
    BY <2>2
  <2> QED BY <2>2, <2>3, <2>4
<1>4. 2^(ByteBits * 2) = 2^ByteBits * 2^ByteBits
  <2>1. 2^(ByteBits + ByteBits) = 2^ByteBits * 2^ByteBits
    BY <1>1, PowerOfSum
  <2> QED BY <1>2, <2>1, Zenon
<1>5. 2^(ByteBits * 3) = 2^(ByteBits * 2) * 2^ByteBits
  <2>1. 2^(ByteBits * 2 + ByteBits) = 2^(ByteBits * 2) * 2^ByteBits
    BY <1>1, <1>2, PowerOfSum
  <2> QED BY <1>2, <2>1, Zenon
<1>6. 2^(ByteBits * 4) = 2^(ByteBits * 3) * 2^ByteBits
  <2>1. 2^(ByteBits * 3 + ByteBits) = 2^(ByteBits * 3) * 2^ByteBits
    BY <1>1, <1>2, PowerOfSum
  <2> QED BY <1>2, <2>1, Zenon
<1>7. 2^0 = 1
  OBVIOUS
<1>8. 2^(ByteBits * 0) = 1 /\ 2^(ByteBits * 1) = p
  BY <1>2, <1>7, Zenon
<1>9. 2^(ByteBits * 2) = p * p /\ 2^(ByteBits * 3) = p * p * p /\ 2^(ByteBits * 4) = p * p * p * p
  BY <1>4, <1>5, <1>6, Zenon
<1> QED BY <1>1, <1>3, <1>8, <1>9

(* Two to four bytes of a word, put together again, are the word.          *)
LEMMA WordOfBytes ==
  ASSUME NEW w \in 2 .. 4, NEW word \in Words(w), NEW bytes,
         DOMAIN bytes = 1 .. w, \A n \in 1 .. w : bytes[n] = ByteOf(word, n - 1)
  PROVE  Word(bytes) = word
<1>1. PICK p \in Nat : p = 2^ByteBits
  BY BytePowers
<1>2. /\ 2^(ByteBits * 0) = 1 /\ 2^(ByteBits * 1) = p
      /\ 2^(ByteBits * 2) = p * p /\ 2^(ByteBits * 3) = p * p * p
      /\ 2^(ByteBits * 4) = p * p * p * p
  BY <1>1, BytePowers
<1>a. p >= 1
  <2>1. p >= 2
    BY <1>1, BytePowers
  <2> QED BY <2>1
<1>b. word \in Nat
  BY DEF Words
<1>e. word \div (p * p) = (word \div p) \div p
  BY <1>a, <1>b, DividedTwice
<1>c. PICK s \in Nat : s = p * p /\ s >= 1
  BY <1>a
<1>d. PICK c \in Nat : c = p * p * p /\ c = s * p /\ c >= 1
  <2>1. s * p \in Nat /\ s * p >= 1
    BY <1>a, <1>c
  <2> QED BY <1>c, <2>1
<1>f. word \div c = (word \div (p * p)) \div p
  <2>1. word \div (s * p) = (word \div s) \div p
    BY <1>a, <1>b, <1>c, DividedTwice
  <2> QED BY <1>c, <1>d, <2>1, Zenon
<1>3. PICK d1 \in Nat, b0 \in Nat :
        d1 = word \div p /\ b0 = word % p /\ b0 < p /\ word = d1 * p + b0
  BY <1>a, <1>b, Divided
<1>4. PICK d2 \in Nat, b1 \in Nat :
        d2 = d1 \div p /\ b1 = d1 % p /\ b1 < p /\ d1 = d2 * p + b1
  BY <1>a, Divided
<1>5. PICK d3 \in Nat, b2 \in Nat :
        d3 = d2 \div p /\ b2 = d2 % p /\ b2 < p /\ d2 = d3 * p + b2
  BY <1>a, Divided
<1>6. PICK d4 \in Nat, b3 \in Nat :
        d4 = d3 \div p /\ b3 = d3 % p /\ b3 < p /\ d3 = d4 * p + b3
  BY <1>a, Divided
<1>7. p * p \in Nat /\ p * p * p \in Nat /\ p * p >= 1 /\ p * p * p >= 1
  BY <1>c, <1>d
<1>8. word \div (p * p) = d2 /\ word \div (p * p * p) = d3
  <2>1. word \div (p * p) = d2
    BY <1>3, <1>4, <1>e, Zenon
  <2>4. word \div c = d3
    BY <1>f, <1>5, <2>1, Zenon
  <2> QED BY <1>d, <2>1, <2>4, Zenon
<1>9. /\ ByteOf(word, 0) = b0 /\ ByteOf(word, 1) = b1
      /\ ByteOf(word, 2) = b2 /\ ByteOf(word, 3) = b3
  <2>1. ByteOf(word, 0) = b0
    <3>1. word \div 1 = word
      BY <1>b
    <3> QED BY <1>1, <1>2, <1>3, <3>1 DEF ByteOf
  <2>2. ByteOf(word, 1) = b1
    BY <1>1, <1>2, <1>3, <1>4, Zenon DEF ByteOf
  <2>3. ByteOf(word, 2) = b2
    BY <1>1, <1>2, <1>5, <1>8, Zenon DEF ByteOf
  <2>4. ByteOf(word, 3) = b3
    BY <1>1, <1>2, <1>6, <1>8, Zenon DEF ByteOf
  <2> QED BY <2>1, <2>2, <2>3, <2>4
<1>10. /\ 1 \in 1 .. w => bytes[1] = b0
       /\ 2 \in 1 .. w => bytes[2] = b1
       /\ 3 \in 1 .. w => bytes[3] = b2
       /\ 4 \in 1 .. w => bytes[4] = b3
  <2>1. 1 - 1 = 0 /\ 2 - 1 = 1 /\ 3 - 1 = 2 /\ 4 - 1 = 3
    OBVIOUS
  <2> QED BY <1>9, <2>1
<1>11. /\ b0 * 1 = b0 /\ word = d2 * (p * p) + (b1 * p + b0)
       /\ word = d3 * (p * p * p) + (b2 * (p * p) + b1 * p + b0)
  <2>1. b0 * 1 = b0
    OBVIOUS
  <2>2. word = d1 * p + b0 /\ d1 = d2 * p + b1 /\ d2 = d3 * p + b2
    BY <1>3, <1>4, <1>5
  <2>3. word = d2 * (p * p) + (b1 * p + b0)
    BY <2>2
  <2>4. word = d3 * (p * p * p) + (b2 * (p * p) + b1 * p + b0)
    BY <2>2
  <2> QED BY <2>1, <2>3, <2>4
<1>12. /\ ByteBits * (1 - 1) = ByteBits * 0 /\ ByteBits * (2 - 1) = ByteBits * 1
       /\ ByteBits * (3 - 1) = ByteBits * 2 /\ ByteBits * (4 - 1) = ByteBits * 3
  OBVIOUS
<1>13. Word(bytes) = (IF 1 \in 1 .. w THEN b0 ELSE 0) + (IF 2 \in 1 .. w THEN b1 * p ELSE 0)
                       + (IF 3 \in 1 .. w THEN b2 * (p * p) ELSE 0)
                       + (IF 4 \in 1 .. w THEN b3 * (p * p * p) ELSE 0)
  <2>1. /\ 1 \in 1 .. w => ShiftLeft(bytes[1], ByteBits * (1 - 1)) = b0
        /\ 2 \in 1 .. w => ShiftLeft(bytes[2], ByteBits * (2 - 1)) = b1 * p
        /\ 3 \in 1 .. w => ShiftLeft(bytes[3], ByteBits * (3 - 1)) = b2 * (p * p)
        /\ 4 \in 1 .. w => ShiftLeft(bytes[4], ByteBits * (4 - 1)) = b3 * (p * p * p)
    BY <1>2, <1>10, <1>11, <1>12, Zenon DEF ShiftLeft
  <2> HIDE DEF ShiftLeft
  <2> QED BY <2>1, Zenon DEF Word
<1>14. CASE w = 2
  <2>1. word < p * p
    BY <1>2, <1>7, <1>14 DEF Words
  <2>2. d2 = 0
    BY <1>7, <1>8, <1>b, <2>1, SmallQuotient
  <2>3. word = b1 * p + b0
    BY <1>11, <2>2
  <2>4. Word(bytes) = b0 + b1 * p
    BY <1>13, <1>14
  <2> QED BY <2>3, <2>4
<1>15. CASE w = 3
  <2>1. word < p * p * p
    BY <1>2, <1>7, <1>15 DEF Words
  <2>2. d3 = 0
    BY <1>7, <1>8, <1>b, <2>1, SmallQuotient
  <2>3. word = b2 * (p * p) + b1 * p + b0
    BY <1>11, <2>2
  <2>4. Word(bytes) = b0 + b1 * p + b2 * (p * p)
    BY <1>13, <1>15
  <2> QED BY <2>3, <2>4
<1>16. CASE w = 4
  <2>1. word < p * p * p * p /\ p * p * p * p \in Nat
    <3>1. c * p \in Nat /\ c * p = p * p * p * p
      BY <1>d
    <3>2. word < 2^(ByteBits * 4) \/ ~(2^(ByteBits * 4) \in Nat)
      BY <1>16 DEF Words
    <3> QED BY <1>2, <3>1, <3>2
  <2>2. d4 = 0
    <3>1. word < c * p
      BY <1>d, <2>1
    <3>2. word \div c < p
      BY <1>b, <1>d, <3>1, QuotientBelow
    <3>3. d3 < p
      BY <1>d, <1>8, <3>2, Zenon
    <3> QED BY <1>6, <3>3, SmallQuotient
  <2>3. word = b3 * (p * p * p) + b2 * (p * p) + b1 * p + b0
    <3>1. d3 = b3
      BY <1>6, <2>2
    <3> QED BY <1>11, <3>1
  <2>4. Word(bytes) = b0 + b1 * p + b2 * (p * p) + b3 * (p * p * p)
    BY <1>13, <1>16
  <2> QED BY <2>3, <2>4
<1> QED BY <1>14, <1>15, <1>16

(* ---- Float16 ------------------------------------------------------------ *)

LEMMA HasLeast ==
  ASSUME NEW S, S \subseteq Nat, S # {}
  PROVE  \E x \in S : \A y \in S : x <= y
<1> DEFINE R == OpToRel(<, Nat)
<1>1. R = {p \in Nat \X Nat : p[1] < p[2]}
  BY DEF OpToRel
<1>2. IsWellFoundedOn(R, Nat)
  BY NatLessThanWellFounded
<1> HIDE DEF R
<1>3. PICK x \in S : \A y \in S : ~(<<y, x>> \in R)
  BY <1>2, WFMin
<1>4. \A y \in S : ~(y < x)
  BY <1>1, <1>3
<1> QED BY <1>3, <1>4

IsFormat(H, E, F, B) ==
  /\ H \in Nat \ {0} /\ E \in Nat \ {0} /\ F \in Nat /\ B \in Nat \ {0}
  /\ H + E = 2 * B - 1 /\ H <= F

LEMMA HalfFormat ==
  /\ IsFormat(HalfMantissaBits, HalfExponentBits, FloatMantissaBits, ByteBits)
  /\ Widen \in Nat /\ HalfMantissaBits + Widen = FloatMantissaBits
BY WidthsAssumption DEF IsFormat, HalfExponentBits, Widen

LEMMA HalfPowers ==
  ASSUME NEW M, M = 2^HalfMantissaBits, NEW X, X = 2^HalfExponentBits,
         NEW W, W = 2^Widen
  PROVE  /\ M \in Nat /\ M >= 2 /\ X \in Nat /\ X >= 2 /\ W \in Nat /\ W >= 1
         /\ 2^(2 * ByteBits - 1) = M * X /\ 2^(ByteBits * 2) = M * X * 2
         /\ 2^FloatMantissaBits = M * W
         /\ HalfExponentMax = X - 1
<1>1. /\ HalfMantissaBits \in Nat \ {0} /\ HalfExponentBits \in Nat \ {0}
      /\ HalfMantissaBits + HalfExponentBits = 2 * ByteBits - 1
      /\ Widen \in Nat /\ HalfMantissaBits + Widen = FloatMantissaBits
      /\ ByteBits * 2 = (2 * ByteBits - 1) + 1 /\ 2 * ByteBits - 1 \in Nat
  BY HalfFormat DEF IsFormat
<1>2. ASSUME NEW n \in Nat \ {0}
      PROVE  2^n \in Nat /\ 2^n >= 2
  <2>1. PICK k \in Nat : n = k + 1
    <3>1. n - 1 \in Nat /\ n = (n - 1) + 1
      OBVIOUS
    <3> QED BY <3>1
  <2>2. 2^(k + 1) = 2 * 2^k /\ 2^k \in Nat /\ 2^k >= 1
    BY PowerFacts
  <2>3. PICK q \in Nat : q = 2^k /\ q >= 1
    BY <2>2
  <2>4. 2^n = 2 * q
    BY <2>1, <2>2, <2>3, Zenon
  <2> QED BY <2>3, <2>4
<1>3. M \in Nat /\ M >= 2 /\ X \in Nat /\ X >= 2
  BY <1>1, <1>2
<1>4. W \in Nat /\ W >= 1
  BY <1>1, PowerFacts
<1>5. 2^(2 * ByteBits - 1) = M * X
  <2>1. 2^(HalfMantissaBits + HalfExponentBits) = M * X
    BY <1>1, PowerOfSum
  <2> QED BY <1>1, <2>1, Zenon
<1>6. 2^(ByteBits * 2) = M * X * 2
  <2>1. 2^((2 * ByteBits - 1) + 1) = 2^(2 * ByteBits - 1) * 2^1
    BY <1>1, PowerOfSum
  <2>2. 2^1 = 2
    OBVIOUS
  <2> QED BY <1>1, <1>5, <2>1, <2>2, Zenon
<1>7. 2^FloatMantissaBits = M * W
  <2>1. 2^(HalfMantissaBits + Widen) = M * W
    BY <1>1, PowerOfSum
  <2> QED BY <1>1, <2>1, Zenon
<1> QED BY <1>3, <1>4, <1>5, <1>6, <1>7, Zenon DEF HalfExponentMax

HalfFields(word, sign, e, m) ==
  /\ SignBit(word, 2 * ByteBits) = sign
  /\ LowBits(ShiftRight(word, HalfMantissaBits), HalfExponentBits) = e
  /\ LowBits(word, HalfMantissaBits) = m
  /\ (word % 2^(2 * ByteBits - 1)) \div 2^HalfMantissaBits = e
  /\ (word % 2^(2 * ByteBits - 1)) % 2^HalfMantissaBits = m
  /\ word = word % 2^(2 * ByteBits - 1) <=> sign = 0
  /\ HalfIsFinite(word) <=> e # HalfExponentMax

LEMMA HalfHasFields ==
  ASSUME NEW word \in Words(2)
  PROVE  \E sign \in {0, 1}, e \in 0 .. HalfExponentMax, m \in Nat :
           m < 2^HalfMantissaBits /\ HalfFields(word, sign, e, m)
<1>1. PICK M, X, W : M = 2^HalfMantissaBits /\ X = 2^HalfExponentBits /\ W = 2^Widen
  OBVIOUS
<1>2. /\ M \in Nat /\ M >= 2 /\ X \in Nat /\ X >= 2
      /\ 2^(2 * ByteBits - 1) = M * X /\ 2^(ByteBits * 2) = M * X * 2
      /\ HalfExponentMax = X - 1
  BY <1>1, HalfPowers
<1>3. PICK P \in Nat : P = M * X /\ P >= 1
  <2>1. M * X \in Nat /\ M * X >= 1
    <3>1. M \in Nat /\ M >= 2 /\ X \in Nat /\ X >= 2
      BY <1>2
    <3>2. PICK k \in Nat : X = k + 1
      <4>1. X - 1 \in Nat /\ X = (X - 1) + 1
        BY <3>1
      <4> QED BY <4>1
    <3>3. M * X = M * k + M /\ M * k \in Nat
      BY <3>1, <3>2
    <3> QED BY <3>1, <3>3
  <2> QED BY <2>1
<1>4. word \in Nat /\ word < 2 * P
  BY <1>2, <1>3 DEF Words
<1> DEFINE e == (word \div M) % X
           m == word % M
           magnitude == word % P
           q == word \div P
<1>5. magnitude \div M = e /\ magnitude % M = m
  <2>1. (word % (M * X)) \div M = (word \div M) % X /\ (word % (M * X)) % M = word % M
    <3>1. M >= 1 /\ X >= 1 /\ M \in Nat /\ X \in Nat
      BY <1>2
    <3> QED BY <1>4, <3>1, RemainderTwice
  <2> QED BY <1>3, <2>1, Zenon
<1>6. m \in Nat /\ m < M /\ e \in Nat /\ e < X
  <2>1. M >= 1 /\ X >= 1 /\ M \in Nat /\ X \in Nat
    BY <1>2
  <2>2. word \div M \in Nat /\ m \in Nat /\ m < M
    BY <1>4, <2>1, DivisionFacts
  <2> QED BY <2>1, <2>2, DivisionFacts
<1>7. /\ magnitude \in Nat /\ magnitude < P /\ q \in Nat /\ word = q * P + magnitude
      /\ magnitude = (magnitude \div M) * M + (magnitude % M)
  <2>1. magnitude \in Nat /\ magnitude < P /\ q \in Nat /\ word = q * P + magnitude
    BY <1>3, <1>4, DivisionFacts
  <2>2. M >= 1 /\ M \in Nat
    BY <1>2
  <2> QED BY <2>1, <2>2, DivisionFacts
<1>8. q < 2
  <2>1. word < P * 2
    BY <1>4
  <2> QED BY <1>3, <1>4, <2>1, QuotientBelow
<1>9. magnitude = e * M + m
  BY <1>5, <1>7, Zenon
<1> HIDE DEF e, m, magnitude, q
<1>10. q \in {0, 1} /\ q % 2 = q /\ (word = magnitude <=> q = 0)
  <2>1. q = 0 \/ q = 1
    BY <1>7, <1>8
  <2>2. q = 0 => word = magnitude
    BY <1>7
  <2>3. q = 1 => word # magnitude
    BY <1>3, <1>7
  <2> QED BY <2>1, <2>2, <2>3
<1>11. magnitude < (X - 1) * M <=> e # X - 1
  <2>1. M \in Nat /\ X - 1 \in Nat
    BY <1>2
  <2>2. CASE e = X - 1
    <3>1. magnitude = (X - 1) * M + m
      BY <1>9, <2>2
    <3> QED BY <1>6, <2>1, <2>2, <3>1
  <2>3. CASE e # X - 1
    <3>1. PICK k \in Nat : X - 1 = e + 1 + k
      <4>1. X - 1 - e - 1 \in Nat /\ X - 1 = e + 1 + (X - 1 - e - 1)
        BY <1>2, <1>6, <2>3
      <4> QED BY <4>1
    <3>2. (X - 1) * M = e * M + M + k * M /\ k * M \in Nat /\ e * M \in Nat
      BY <1>6, <2>1, <3>1
    <3> QED BY <1>6, <1>9, <2>1, <2>3, <3>2
  <2> QED BY <2>2, <2>3
<1>12. HalfIsFinite(word) <=> e # HalfExponentMax
  BY <1>1, <1>2, <1>3, <1>11, Zenon DEF HalfIsFinite, magnitude
<1>13. /\ SignBit(word, 2 * ByteBits) = q
       /\ LowBits(ShiftRight(word, HalfMantissaBits), HalfExponentBits) = e
       /\ LowBits(word, HalfMantissaBits) = m
  BY <1>1, <1>2, <1>3, <1>10, Zenon DEF SignBit, LowBits, ShiftRight, q, e, m
<1>14. /\ (word % 2^(2 * ByteBits - 1)) \div 2^HalfMantissaBits = e
       /\ (word % 2^(2 * ByteBits - 1)) % 2^HalfMantissaBits = m
       /\ word = word % 2^(2 * ByteBits - 1) <=> q = 0
  BY <1>1, <1>2, <1>3, <1>5, <1>10, Zenon DEF magnitude
<1>15. HalfFields(word, q, e, m)
  BY <1>12, <1>13, <1>14, Zenon DEF HalfFields
<1>16. e \in 0 .. HalfExponentMax /\ m < 2^HalfMantissaBits
  <2>1. e \in 0 .. X - 1
    BY <1>2, <1>6
  <2> QED BY <1>1, <1>2, <1>6, <2>1
<1> QED BY <1>6, <1>10, <1>15, <1>16

(* A subnormal mantissa is shifted until its leading bit is the implicit   *)
(* one, which always happens within the width of the mantissa.             *)
LEMMA Normalizing ==
  ASSUME NEW m \in Nat, m >= 1, NEW M, M = 2^HalfMantissaBits, m < M
  PROVE  \E s \in 1 .. HalfMantissaBits, l \in Nat :
           /\ s = NormalizingShift(m) /\ l < M
           /\ ShiftLeft(m, s) = M + l
           /\ LowBits(ShiftLeft(m, s), HalfMantissaBits) = l
<1>1. PICK H \in Nat : H = HalfMantissaBits /\ H >= 1
  BY HalfFormat DEF IsFormat
<1>2. M \in Nat /\ M >= 1
  BY <1>1, PowerFacts
<1> DEFINE at(s) == m * 2^s
<1>3. ASSUME NEW s \in Nat
      PROVE  at(s) \in Nat /\ at(s) >= 2^s /\ at(s + 1) = 2 * at(s)
  <2>1. PICK p \in Nat : p = 2^s
    BY PowerFacts
  <2>2. 2^(s + 1) = 2 * p
    BY <2>1, PowerFacts
  <2>3. PICK k \in Nat : m = k + 1
    <3>1. m - 1 \in Nat /\ m = (m - 1) + 1
      OBVIOUS
    <3> QED BY <3>1
  <2>4. m * p = k * p + p /\ k * p \in Nat
    BY <2>3
  <2>5. m * (2 * p) = 2 * (m * p) /\ m * p \in Nat
    OBVIOUS
  <2> QED BY <2>1, <2>2, <2>4, <2>5
<1>4. at(0) = m
  <2>1. 2^0 = 1 /\ m * 1 = m
    OBVIOUS
  <2> QED BY <2>1, Zenon
<1> HIDE DEF at
<1>5. PICK t \in {s \in Nat : at(s) >= M} : \A s \in {r \in Nat : at(r) >= M} : t <= s
  <2>1. H \in {s \in Nat : at(s) >= M}
    BY <1>1, <1>2, <1>3
  <2> QED BY <2>1, HasLeast
<1>6. t # 0
  BY <1>2, <1>4, <1>5
<1>7. PICK r \in Nat : t = r + 1
  <2>1. t - 1 \in Nat /\ t = (t - 1) + 1
    BY <1>5, <1>6
  <2> QED BY <2>1
<1>8. at(r) < M /\ at(r) \in Nat /\ at(t) = 2 * at(r)
  <2>1. ~(t <= r)
    BY <1>7
  <2> QED BY <1>2, <1>3, <1>5, <1>7, <2>1
<1>9. PICK l \in Nat : at(t) = M + l /\ l < M
  <2>1. at(t) - M \in Nat /\ at(t) = M + (at(t) - M) /\ at(t) - M < M
    BY <1>2, <1>3, <1>5, <1>8
  <2> QED BY <2>1
<1>10. at(t) \div M = 1 /\ at(t) % M = l
  <2>1. at(t) = 1 * M + l
    BY <1>2, <1>9
  <2>2. (1 * M + l) \div M = 1 /\ (1 * M + l) % M = l
    BY <1>2, <1>9, DivisionIsUnique
  <2> QED BY <2>1, <2>2, Zenon
<1> DEFINE S == {s \in 1 .. HalfMantissaBits :
                   ShiftRight(ShiftLeft(m, s), HalfMantissaBits) % 2 = 1}
<1>11. \A s : ShiftLeft(m, s) = at(s)
  BY Zenon DEF ShiftLeft, at
<1>12. t \in S
  <2>1. t \in 1 .. HalfMantissaBits
    <3>1. t <= H
      BY <1>1, <1>2, <1>3, <1>5
    <3> QED BY <1>1, <1>5, <1>6, <3>1
  <2>2. 1 % 2 = 1
    OBVIOUS
  <2>3. ShiftRight(ShiftLeft(m, t), HalfMantissaBits) % 2 = 1
    BY <1>10, <1>11, <2>2, Zenon DEF ShiftRight
  <2> QED BY <2>1, <2>3
<1>13. ASSUME NEW s \in S
       PROVE  s \in Nat /\ t <= s
  <2>1. s \in Nat
    BY <1>1
  <2>2. CASE at(s) < M
    <3>1. at(s) \div M = 0
      BY <1>2, <1>3, <2>1, <2>2, SmallQuotient
    <3>2. 0 % 2 # 1
      OBVIOUS
    <3>3. ShiftRight(ShiftLeft(m, s), HalfMantissaBits) % 2 = (at(s) \div M) % 2
      BY <1>11, Zenon DEF ShiftRight
    <3> QED BY <3>1, <3>2, <3>3
  <2>3. CASE ~(at(s) < M)
    <3>1. at(s) >= M
      BY <1>2, <1>3, <2>1, <2>3
    <3> QED BY <1>5, <2>1, <3>1
  <2> QED BY <2>2, <2>3, <2>1
<1> HIDE DEF S
<1>14. Min(S) = t
  <2>1. Min(S) \in S /\ Min(S) <= t
    BY <1>12, <1>13 DEF Min
  <2> QED BY <1>5, <1>13, <2>1
<1>15. NormalizingShift(m) = t
  BY <1>14, Zenon DEF NormalizingShift, S
<1>16. t \in 1 .. HalfMantissaBits
  BY <1>12 DEF S
<1> QED BY <1>9, <1>10, <1>11, <1>15, <1>16 DEF LowBits

(* The ranges of the exponents of the two formats.                         *)
LEMMA Exponents ==
  \E H, X, R, L \in Nat :
    /\ H = HalfMantissaBits /\ H >= 1 /\ X = HalfExponentMax /\ X >= 1
    /\ R = Rebias /\ L = FloatExponentMax
    /\ H <= R /\ R + X <= L
<1>1. PICK H \in Nat, E \in Nat : H = HalfMantissaBits /\ H >= 1 /\ E = HalfExponentBits /\ E >= 1
  BY HalfFormat DEF IsFormat
<1>2. PICK Y \in Nat : Y = 2^HalfExponentBits /\ Y >= 2 /\ HalfExponentMax = Y - 1
  BY HalfPowers
<1>3. PICK Z \in Nat : Z = 2^(HalfExponentBits - 1)
  <2>1. HalfExponentBits - 1 \in Nat
    BY <1>1
  <2> QED BY <2>1, PowerFacts
<1>4. Rebias = FloatBias - (Z - 1) /\ Rebias \in Int
  <2>1. FloatBias \in Int
    BY WidthsAssumption
  <2>2. Rebias = FloatBias - (Z - 1)
    BY <1>3, Zenon DEF Rebias, HalfBias
  <2> QED BY <2>1, <2>2
<1>5. PICK R \in Int : R = Rebias
  BY <1>4
<1>6. PICK L \in Nat : L = FloatExponentMax
  BY WidthsAssumption
<1>7. H <= R /\ R + (Y - 1) <= L
  BY <1>1, <1>2, <1>5, <1>6, RangesAssumption
<1>8. R \in Nat /\ Y - 1 \in Nat /\ Y - 1 >= 1
  BY <1>1, <1>2, <1>7
<1> QED BY <1>1, <1>2, <1>5, <1>6, <1>7, <1>8

Encoded(sign, e, m) == [sign |-> sign, exponent |-> e, mantissa |-> m]

(* What the decoder makes of the fields, one case of its branches each.    *)
LEMMA HalfBranches ==
  ASSUME NEW word \in Words(2), NEW sign \in {0, 1},
         NEW e \in 0 .. HalfExponentMax, NEW m \in Nat, HalfFields(word, sign, e, m)
  PROVE  LET s == NormalizingShift(m) IN
         /\ e = 0 /\ m = 0 => HalfToFloat(word) = FloatOf(Encoded(sign, 0, 0))
         /\ e = 0 /\ m # 0 => HalfToFloat(word)
              = FloatOf(Encoded(sign, Rebias + 1 - s,
                          ShiftLeft(LowBits(ShiftLeft(m, s), HalfMantissaBits), Widen)))
         /\ e # 0 /\ e # HalfExponentMax => HalfToFloat(word)
              = FloatOf(Encoded(sign, e + Rebias, ShiftLeft(m, Widen)))
         /\ e # 0 /\ e = HalfExponentMax => HalfToFloat(word)
              = FloatOf(Encoded(sign, FloatExponentMax, ShiftLeft(m, Widen)))
<1>1. /\ SignBit(word, 2 * ByteBits) = sign
      /\ LowBits(ShiftRight(word, HalfMantissaBits), HalfExponentBits) = e
      /\ LowBits(word, HalfMantissaBits) = m
  BY Zenon DEF HalfFields
<1> DEFINE s == NormalizingShift(m)
<1>2. HalfToFloat(word) =
        FloatOf(CASE e = 0 /\ m = 0 -> Encoded(sign, 0, 0)
                  [] e = 0 /\ m # 0 ->
                       Encoded(sign, Rebias + 1 - s,
                         ShiftLeft(LowBits(ShiftLeft(m, s), HalfMantissaBits), Widen))
                  [] e = HalfExponentMax ->
                       Encoded(sign, FloatExponentMax, ShiftLeft(m, Widen))
                  [] OTHER -> Encoded(sign, e + Rebias, ShiftLeft(m, Widen)))
  BY <1>1, Zenon DEF HalfToFloat, Encoded
<1> HIDE DEF s
<1> HIDE DEF FloatOf, Encoded
<1>3. HalfExponentMax # 0
  BY Exponents
<1>4. CASE e = 0 /\ m = 0
  <2>1. HalfToFloat(word) = FloatOf(Encoded(sign, 0, 0))
    BY <1>2, <1>3, <1>4
  <2> QED BY <1>4, <2>1, Zenon
<1>5. CASE e = 0 /\ m # 0
  BY <1>2, <1>3, <1>5 DEF s
<1>6. CASE e # 0 /\ e = HalfExponentMax
  BY <1>2, <1>3, <1>6
<1>7. CASE e # 0 /\ e # HalfExponentMax
  BY <1>2, <1>3, <1>7
<1> QED BY <1>4, <1>5, <1>6, <1>7

LEMMA HalfMeansOfFields ==
  ASSUME NEW word \in Words(2), NEW sign \in {0, 1},
         NEW e \in 0 .. HalfExponentMax, NEW m \in Nat, HalfFields(word, sign, e, m)
  PROVE  HalfMeans(word) =
           [finite |-> TRUE, exponent |-> 0,
            value |-> (IF sign = 0 THEN 1 ELSE -1)
                        * (IF e = 0 THEN m ELSE (2^HalfMantissaBits + m) * 2^(e - 1))
                        * 2^FloatMantissaBits]
BY Zenon DEF HalfFields, HalfMeans

LEMMA SignedProduct ==
  ASSUME NEW sign \in {0, 1}, NEW a \in Nat, NEW f \in Nat
  PROVE  (IF sign = 0 THEN 1 ELSE -1) * a * f = Signed(sign, a * f)
BY DEF Signed

(* The conversion of float16 to float32 is exact, for every width of the   *)
(* mantissas: it is finite where the half is, and has its value.           *)
LEMMA HalfConversion ==
  ASSUME NEW word \in Words(2)
  PROVE  /\ HalfToFloat(word).finite <=> HalfIsFinite(word)
         /\ HalfIsFinite(word) => HalfToFloat(word) = HalfMeans(word)
<1>1. PICK sign \in {0, 1}, e \in 0 .. HalfExponentMax, m \in Nat :
        m < 2^HalfMantissaBits /\ HalfFields(word, sign, e, m)
  BY HalfHasFields
<1>2. PICK H, T, R, L \in Nat :
        /\ H = HalfMantissaBits /\ H >= 1 /\ T = HalfExponentMax /\ T >= 1
        /\ R = Rebias /\ L = FloatExponentMax
        /\ H <= R /\ R + T <= L
  BY Exponents
<1>3. PICK M, W \in Nat :
        M = 2^HalfMantissaBits /\ W = 2^Widen /\ M >= 2 /\ 2^FloatMantissaBits = M * W
  BY HalfPowers
<1>4. HalfIsFinite(word) <=> e # HalfExponentMax
  BY <1>1, Zenon DEF HalfFields
<1> DEFINE s == NormalizingShift(m)
<1>5. /\ e = 0 /\ m = 0 => HalfToFloat(word) = FloatOf(Encoded(sign, 0, 0))
      /\ e = 0 /\ m # 0 => HalfToFloat(word)
           = FloatOf(Encoded(sign, Rebias + 1 - s,
                       ShiftLeft(LowBits(ShiftLeft(m, s), HalfMantissaBits), Widen)))
      /\ e # 0 /\ e # HalfExponentMax => HalfToFloat(word)
           = FloatOf(Encoded(sign, e + Rebias, ShiftLeft(m, Widen)))
      /\ e # 0 /\ e = HalfExponentMax => HalfToFloat(word)
           = FloatOf(Encoded(sign, FloatExponentMax, ShiftLeft(m, Widen)))
  BY <1>1, HalfBranches
<1>6. HalfMeans(word) =
        [finite |-> TRUE, exponent |-> 0,
         value |-> (IF sign = 0 THEN 1 ELSE -1)
                     * (IF e = 0 THEN m ELSE (M + m) * 2^(e - 1)) * (M * W)]
  <2>1. HalfMeans(word) =
          [finite |-> TRUE, exponent |-> 0,
           value |-> (IF sign = 0 THEN 1 ELSE -1)
                       * (IF e = 0 THEN m ELSE (2^HalfMantissaBits + m) * 2^(e - 1))
                       * 2^FloatMantissaBits]
    BY <1>1, HalfMeansOfFields
  <2> QED BY <1>3, <2>1, Zenon
<1> HIDE DEF s
<1>7. CASE e = 0 /\ m = 0
  <2>1. HalfToFloat(word) = FloatOf(Encoded(sign, 0, 0))
    BY <1>5, <1>7
  <2>2. 0 # FloatExponentMax
    BY <1>2
  <2>3. FloatOf(Encoded(sign, 0, 0)) = [finite |-> TRUE, value |-> 0, exponent |-> 0]
    BY <2>2 DEF FloatOf, Encoded
  <2>4. HalfMeans(word) = [finite |-> TRUE, exponent |-> 0, value |-> 0]
    <3>1. M * W \in Nat
      OBVIOUS
    <3>2. (IF sign = 0 THEN 1 ELSE -1) * 0 * (M * W) = 0
      BY <3>1
    <3> QED BY <1>6, <1>7, <3>2
  <2>5. e # HalfExponentMax
    BY <1>2, <1>7
  <2> QED BY <1>4, <2>1, <2>3, <2>4, <2>5
<1>8. CASE e = 0 /\ m # 0
  <2>1. PICK z \in 1 .. HalfMantissaBits, l \in Nat :
          /\ z = NormalizingShift(m) /\ l < M
          /\ ShiftLeft(m, z) = M + l
          /\ LowBits(ShiftLeft(m, z), HalfMantissaBits) = l
    <3>1. m >= 1 /\ m < M
      BY <1>1, <1>3, <1>8
    <3> QED BY <1>3, <3>1, Normalizing
  <2>2. HalfToFloat(word) = FloatOf(Encoded(sign, Rebias + 1 - z, l * W))
    <3>1. HalfToFloat(word) = FloatOf(Encoded(sign, Rebias + 1 - s,
            ShiftLeft(LowBits(ShiftLeft(m, s), HalfMantissaBits), Widen)))
      BY <1>5, <1>8
    <3> QED BY <1>3, <2>1, <3>1, Zenon DEF ShiftLeft, s
  <2>3. PICK x, n \in Nat : x = Rebias + 1 - z /\ n = x - Rebias - 1 + HalfMantissaBits
                             /\ n + z = HalfMantissaBits
                             /\ x # 0 /\ x # FloatExponentMax
    <3>1. z \in Nat /\ z >= 1 /\ z <= H
      BY <1>2, <2>1
    <3>2. R + 1 - z \in Nat /\ H - z \in Nat
      BY <1>2, <3>1
    <3>3. /\ R + 1 - z # 0 /\ R + 1 - z # L
          /\ H - z = (R + 1 - z) - R - 1 + H /\ H - z + z = H
      BY <1>2, <3>1
    <3> QED BY <1>2, <3>2, <3>3
  <2>4. FloatOf(Encoded(sign, x, l * W)) =
           [finite |-> TRUE, exponent |-> 0,
            value |-> Signed(sign, (M * W + l * W) * 2^n)]
    <3>1. PICK f \in Nat : f = l * W
      OBVIOUS
    <3>2. FloatOf(Encoded(sign, x, f)) =
           [finite |-> TRUE, exponent |-> 0,
            value |-> Signed(sign, (2^FloatMantissaBits + f) * 2^n)]
      BY <2>3, Zenon DEF FloatOf, Encoded, ShiftLeft
    <3> QED BY <1>3, <3>1, <3>2, Zenon
  <2>5. (M * W + l * W) * 2^n = m * (M * W)
    <3>1. z \in Nat
      BY <1>2, <2>1
    <3>2. PICK p, q \in Nat : p = 2^n /\ q = 2^z
      BY <2>3, <3>1, PowerFacts
    <3>3. p * q = M
      <4>1. 2^(n + z) = 2^n * 2^z
        BY <2>3, <3>1, PowerOfSum
      <4> QED BY <1>3, <2>3, <3>2, <4>1, Zenon
    <3>4. m * q = M + l
      BY <2>1, <3>2, Zenon DEF ShiftLeft
    <3>5. (M * W + l * W) * p = (M + l) * W * p
      OBVIOUS
    <3>6. (m * q) * W * p = m * (p * q) * W
      OBVIOUS
    <3>7. m * M * W = m * (M * W)
      OBVIOUS
    <3>8. (M * W + l * W) * p = m * (M * W)
      BY <3>3, <3>4, <3>5, <3>6, <3>7, Zenon
    <3> QED BY <3>2, <3>8, Zenon
  <2>6. HalfMeans(word) = [finite |-> TRUE, exponent |-> 0, value |-> Signed(sign, m * (M * W))]
    <3>1. PICK f \in Nat : f = M * W
      OBVIOUS
    <3>2. (IF sign = 0 THEN 1 ELSE -1) * m * f = Signed(sign, m * f)
      BY SignedProduct
    <3>3. HalfMeans(word) = [finite |-> TRUE, exponent |-> 0,
            value |-> (IF sign = 0 THEN 1 ELSE -1) * m * (M * W)]
      BY <1>6, <1>8, Zenon
    <3> QED BY <3>1, <3>2, <3>3, Zenon
  <2>7. e # HalfExponentMax
    BY <1>2, <1>8
  <2>8. HalfToFloat(word) = [finite |-> TRUE, exponent |-> 0, value |-> Signed(sign, m * (M * W))]
    BY <2>2, <2>3, <2>4, <2>5, Zenon
  <2> QED BY <1>4, <2>6, <2>7, <2>8
<1>9. CASE e # 0 /\ e # HalfExponentMax
  <2>1. HalfToFloat(word) = FloatOf(Encoded(sign, e + Rebias, m * W))
    <3>1. HalfToFloat(word) = FloatOf(Encoded(sign, e + Rebias, ShiftLeft(m, Widen)))
      BY <1>5, <1>9
    <3> QED BY <1>3, <3>1, Zenon DEF ShiftLeft
  <2>2. PICK k \in Nat : e = k + 1 /\ e - 1 = k /\ e < T
    <3>1. e \in Nat /\ e <= T /\ e # T /\ e # 0
      BY <1>2, <1>9
    <3>2. e - 1 \in Nat /\ e = (e - 1) + 1 /\ e < T
      BY <3>1
    <3> QED BY <3>2
  <2>3. PICK x, n \in Nat : x = e + Rebias /\ n = x - Rebias - 1 + HalfMantissaBits
                             /\ n = k + HalfMantissaBits
                             /\ x # 0 /\ x # FloatExponentMax
    <3>1. /\ k + 1 + R \in Nat /\ k + H \in Nat /\ k + H = (k + 1 + R) - R - 1 + H
          /\ k + 1 + R # 0 /\ k + 1 + R # L
      BY <1>2, <2>2
    <3> QED BY <1>2, <2>2, <3>1
  <2>4. FloatOf(Encoded(sign, x, m * W)) =
           [finite |-> TRUE, exponent |-> 0,
            value |-> Signed(sign, (M * W + m * W) * 2^n)]
    <3>1. PICK f \in Nat : f = m * W
      OBVIOUS
    <3>2. FloatOf(Encoded(sign, x, f)) =
           [finite |-> TRUE, exponent |-> 0,
            value |-> Signed(sign, (2^FloatMantissaBits + f) * 2^n)]
      BY <2>3, Zenon DEF FloatOf, Encoded, ShiftLeft
    <3> QED BY <1>3, <3>1, <3>2, Zenon
  <2>5. PICK p \in Nat : p = 2^k
    BY PowerFacts
  <2>6. (M * W + m * W) * 2^n = ((M + m) * p) * (M * W)
    <3>1. 2^n = p * M
      <4>1. H \in Nat /\ H = HalfMantissaBits
        BY <1>2
      <4>2. 2^(k + HalfMantissaBits) = 2^k * 2^HalfMantissaBits
        BY <4>1, PowerOfSum
      <4> QED BY <1>3, <2>3, <2>5, <4>2, Zenon
    <3>2. (M * W + m * W) * (p * M) = ((M + m) * p) * (M * W)
      OBVIOUS
    <3> QED BY <3>1, <3>2, Zenon
  <2>7. HalfMeans(word) = [finite |-> TRUE, exponent |-> 0,
                           value |-> Signed(sign, ((M + m) * p) * (M * W))]
    <3>1. PICK f, a \in Nat : f = M * W /\ a = (M + m) * p
      <4>1. M + m \in Nat
        OBVIOUS
      <4>2. M * W \in Nat /\ (M + m) * p \in Nat
        BY <4>1
      <4> QED BY <4>2
    <3>2. (IF sign = 0 THEN 1 ELSE -1) * a * f = Signed(sign, a * f)
      BY SignedProduct
    <3>3. HalfMeans(word) =
            [finite |-> TRUE, exponent |-> 0,
             value |-> (IF sign = 0 THEN 1 ELSE -1) * ((M + m) * p) * (M * W)]
      BY <1>6, <1>9, <2>2, <2>5, Zenon
    <3> QED BY <3>1, <3>2, <3>3, Zenon
  <2>8. HalfToFloat(word) = [finite |-> TRUE, exponent |-> 0,
                             value |-> Signed(sign, ((M + m) * p) * (M * W))]
    BY <2>1, <2>3, <2>4, <2>6, Zenon
  <2> QED BY <1>4, <1>9, <2>7, <2>8
<1>10. CASE e # 0 /\ e = HalfExponentMax
  <2>1. HalfToFloat(word) = FloatOf(Encoded(sign, FloatExponentMax, ShiftLeft(m, Widen)))
    BY <1>5, <1>10
  <2>2. ~FloatOf(Encoded(sign, FloatExponentMax, ShiftLeft(m, Widen))).finite
    BY Zenon DEF FloatOf, Encoded
  <2> QED BY <1>4, <1>10, <2>1, <2>2
<1> QED BY <1>7, <1>8, <1>9, <1>10

(* ---- Fixed-point positions ---------------------------------------------- *)

LEMMA FixedConversion ==
  ASSUME NEW word \in Words(3), NEW fractionalBits
  PROVE  Fixed24ToFloat(word, fractionalBits) = FixedMeans(word, fractionalBits)
<1>1. PICK n \in Nat : n = 3 * ByteBits - 1
  <2>1. ByteBits \in Nat /\ ByteBits >= 1
    BY BytePowers
  <2>2. 3 * ByteBits - 1 \in Nat
    BY <2>1
  <2> QED BY <2>2
<1>2. PICK P \in Nat : P = 2^n /\ P >= 1
  BY PowerFacts
<1>3. 2^(3 * ByteBits) = 2 * P /\ 2^(ByteBits * 3) = 2 * P
  <2>1. 3 * ByteBits = n + 1 /\ ByteBits * 3 = n + 1
    <3>1. ByteBits \in Nat
      BY BytePowers
    <3> QED BY <1>1, <3>1
  <2>2. 2^(n + 1) = 2 * P
    BY <1>2, PowerFacts
  <2> QED BY <2>1, <2>2, Zenon
<1>4. word \in Nat /\ word < 2 * P
  BY <1>3 DEF Words
<1>5. SignBit(word, 3 * ByteBits) = (word \div P) % 2
  BY <1>1, <1>2, Zenon DEF SignBit, ShiftRight
<1>6. PICK d \in Nat, r \in Nat : d = word \div P /\ r < P /\ word = d * P + r
  BY <1>2, <1>4, Divided
<1>7. d < 2
  <2>1. word < P * 2
    BY <1>4
  <2> QED BY <1>2, <1>4, <1>6, <2>1, QuotientBelow
<1>8. d = 0 \/ d = 1
  BY <1>6, <1>7
<1> DEFINE Means(n1) == n1 \in {word, word - 2 * P} /\ n1 \in -P .. P - 1
<1>9. CASE d = 0
  <2>1. word < P
    BY <1>6, <1>9
  <2>2. Means(word) /\ \A k : Means(k) => k = word
    BY <1>2, <1>4, <2>1
  <2>3. (CHOOSE k \in {word, word - 2 * P} : k \in -P .. P - 1) = word
    BY <2>2, Zenon
  <2>4. SignBit(word, 3 * ByteBits) # 1
    <3>1. 0 % 2 # 1
      OBVIOUS
    <3> QED BY <1>5, <1>6, <1>9, <3>1, Zenon
  <2>5. FixedMeans(word, fractionalBits)
          = [finite |-> TRUE, exponent |-> -fractionalBits, value |-> word]
    BY <1>1, <1>2, <1>3, <2>3, Zenon DEF FixedMeans
  <2>6. Fixed24ToFloat(word, fractionalBits)
          = [finite |-> TRUE, value |-> word, exponent |-> -fractionalBits]
    BY <2>4, Zenon DEF Fixed24ToFloat
  <2> QED BY <2>5, <2>6
<1>10. CASE d = 1
  <2>1. word >= P
    BY <1>6, <1>10
  <2>2. Means(word - 2 * P) /\ \A k : Means(k) => k = word - 2 * P
    BY <1>2, <1>4, <2>1
  <2>3. (CHOOSE k \in {word, word - 2 * P} : k \in -P .. P - 1) = word - 2 * P
    BY <2>2, Zenon
  <2>4. SignBit(word, 3 * ByteBits) = 1
    <3>1. 1 % 2 = 1
      OBVIOUS
    <3> QED BY <1>5, <1>6, <1>10, <3>1, Zenon
  <2>5. FixedMeans(word, fractionalBits)
          = [finite |-> TRUE, exponent |-> -fractionalBits, value |-> word - 2 * P]
    BY <1>1, <1>2, <1>3, <2>3, Zenon DEF FixedMeans
  <2>6. Fixed24ToFloat(word, fractionalBits)
          = [finite |-> TRUE, value |-> word - 2 * P, exponent |-> -fractionalBits]
    BY <1>3, <2>4, Zenon DEF Fixed24ToFloat
  <2> QED BY <2>5, <2>6
<1> QED BY <1>8, <1>9, <1>10

(* ---- Rotations ---------------------------------------------------------- *)

SignedSquare(v) == IF v < 0 THEN -(v * v) ELSE v * v
Part(stored, largest, c) == IF c = largest THEN 0 ELSE stored[c] * stored[c]

(* A decoded quaternion normalises to what the format describes.           *)
RotationMeans(q, meaning) ==
  /\ Normalizable(q)
  /\ NormalizeQuaternion(q[3], q[0], q[1], q[2]) = meaning
  /\ IsNormalized(meaning)

LEMMA MaxOfTwo ==
  ASSUME NEW a \in Int, NEW b \in Int
  PROVE  Max({a, b}) = IF a >= b THEN a ELSE b
<1>1. CASE a >= b
  <2>1. \A x \in {a, b} : (\A y \in {a, b} : x >= y) => x = a
    BY <1>1
  <2>2. a \in {a, b} /\ \A y \in {a, b} : a >= y
    BY <1>1
  <2> QED BY <1>1, <2>1, <2>2 DEF Max
<1>2. CASE ~(a >= b)
  <2>1. \A x \in {a, b} : (\A y \in {a, b} : x >= y) => x = b
    BY <1>2
  <2>2. b \in {a, b} /\ \A y \in {a, b} : b >= y
    BY <1>2
  <2> QED BY <1>2, <2>1, <2>2 DEF Max
<1> QED BY <1>1, <1>2

LEMMA SquareFacts ==
  ASSUME NEW v \in Int
  PROVE  /\ v * v \in Nat
         /\ SignedSquare(v) \in Int /\ AbsoluteOf(SignedSquare(v)) = v * v
<1>1. v * v \in Nat
  <2>1. CASE v >= 0
    <3>1. v \in Nat
      BY <2>1
    <3> QED BY <3>1
  <2>2. CASE v < 0
    <3>1. PICK n \in Nat : v = -n
      <4>1. -v \in Nat /\ v = -(-v)
        BY <2>2
      <4> QED BY <4>1
    <3>2. v * v = n * n /\ n * n \in Nat
      BY <3>1
    <3> QED BY <3>2
  <2> QED BY <2>1, <2>2
<1>2. PICK s \in Nat : s = v * v
  BY <1>1
<1>3. SignedSquare(v) = IF v < 0 THEN -s ELSE s
  BY <1>2, Zenon DEF SignedSquare
<1>4. SignedSquare(v) \in Int /\ AbsoluteOf(SignedSquare(v)) = s
  BY <1>3 DEF AbsoluteOf
<1> QED BY <1>1, <1>2, <1>4, Zenon

(* A component not stored is never negative and completes the others; the  *)
(* normalisation finds a quaternion of that length.                        *)
LEMMA CompletedIsNormalized ==
  ASSUME NEW stored \in [0 .. 3 -> Int], NEW largest \in 0 .. 3,
         NEW one \in Nat, one >= 1, NEW sum \in Nat,
         sum = Part(stored, largest, 0) + Part(stored, largest, 1)
                 + Part(stored, largest, 2) + Part(stored, largest, 3),
         NEW q, DOMAIN q = 0 .. 3,
         \A c \in 0 .. 3 : c # largest => q[c] = Component(SignedSquare(stored[c])),
         q[largest] = Root(one - sum)
  PROVE  RotationMeans(q, Rotation(Completed(stored, largest, one)))
<1>1. PICK root \in Nat : root = Max({0, one - sum}) /\ root + sum = Max({one, sum})
  <2>1. one - sum \in Int
    OBVIOUS
  <2>2. Max({0, one - sum}) = IF 0 >= one - sum THEN 0 ELSE one - sum
    BY <2>1, MaxOfTwo
  <2>3. Max({one, sum}) = IF one >= sum THEN one ELSE sum
    BY MaxOfTwo
  <2> QED BY <2>1, <2>2, <2>3
<1> DEFINE square(c) == IF c = largest THEN root ELSE SignedSquare(stored[c])
           part(c) == Part(stored, largest, c)
<1>2. ASSUME NEW c \in 0 .. 3
      PROVE  /\ q[c] = [finite |-> TRUE, square |-> square(c)]
             /\ square(c) \in Int /\ part(c) \in Nat
             /\ AbsoluteOf(square(c)) = IF c = largest THEN root ELSE part(c)
  <2>1. CASE c = largest
    <3>1. q[c] = [finite |-> TRUE, square |-> root]
      BY <1>1, <2>1, Zenon DEF Root, Component
    <3>2. AbsoluteOf(root) = root
      BY DEF AbsoluteOf
    <3> QED BY <2>1, <3>1, <3>2 DEF Part
  <2>2. CASE c # largest
    <3>1. stored[c] \in Int
      OBVIOUS
    <3>2. PICK v \in Int : v = stored[c]
      BY <3>1
    <3>3. v * v \in Nat /\ SignedSquare(v) \in Int /\ AbsoluteOf(SignedSquare(v)) = v * v
      BY SquareFacts
    <3>4. part(c) = v * v
      BY <2>2, <3>2, Zenon DEF Part
    <3>5. square(c) = SignedSquare(v)
      BY <2>2, <3>2, Zenon
    <3>6. q[c] = [finite |-> TRUE, square |-> square(c)]
      BY <2>2, <3>2, <3>5, Zenon DEF Component
    <3> QED BY <2>2, <3>3, <3>4, <3>5, <3>6, Zenon
  <2> QED BY <2>1, <2>2
<1>3. part(largest) = 0
  BY Zenon DEF Part
<1>4. sum = part(0) + part(1) + part(2) + part(3)
  BY Zenon
<1>5. Completed(stored, largest, one)
        = [square |-> [c \in 0 .. 3 |-> square(c)], length |-> root + sum]
  <2>1. /\ part(0) = IF 0 = largest THEN 0 ELSE stored[0] * stored[0]
        /\ part(1) = IF 1 = largest THEN 0 ELSE stored[1] * stored[1]
        /\ part(2) = IF 2 = largest THEN 0 ELSE stored[2] * stored[2]
        /\ part(3) = IF 3 = largest THEN 0 ELSE stored[3] * stored[3]
    BY Zenon DEF Part
  <2>2. Completed(stored, largest, one)
          = [square |-> [c \in 0 .. 3 |-> IF c = largest THEN Max({0, one - sum})
                          ELSE IF stored[c] < 0 THEN -(stored[c] * stored[c])
                          ELSE stored[c] * stored[c]],
             length |-> Max({one, sum})]
    BY <1>4, <2>1, Zenon DEF Completed
  <2> QED BY <1>1, <2>2, Zenon DEF SignedSquare
<1> HIDE DEF square, part
<1>6. AbsoluteOf(square(3)) + AbsoluteOf(square(0)) + AbsoluteOf(square(1))
        + AbsoluteOf(square(2)) = root + sum
  <2>1. PICK a0, a1, a2, a3 \in Nat :
          a0 = part(0) /\ a1 = part(1) /\ a2 = part(2) /\ a3 = part(3)
    BY <1>2
  <2>2. /\ AbsoluteOf(square(0)) = IF 0 = largest THEN root ELSE a0
        /\ AbsoluteOf(square(1)) = IF 1 = largest THEN root ELSE a1
        /\ AbsoluteOf(square(2)) = IF 2 = largest THEN root ELSE a2
        /\ AbsoluteOf(square(3)) = IF 3 = largest THEN root ELSE a3
    BY <1>2, <2>1
  <2>3. /\ 0 = largest => a0 = 0
        /\ 1 = largest => a1 = 0
        /\ 2 = largest => a2 = 0
        /\ 3 = largest => a3 = 0
    BY <1>3, <2>1
  <2>4. sum = a0 + a1 + a2 + a3
    BY <1>4, <2>1
  <2>5. largest \in {0, 1, 2, 3}
    OBVIOUS
  <2> QED BY <2>2, <2>3, <2>4, <2>5
<1>7. root + sum # 0
  <2>1. Max({one, sum}) = IF one >= sum THEN one ELSE sum
    BY MaxOfTwo
  <2>2. Max({one, sum}) # 0
    <3>1. ~(one >= sum) => sum # 0
      OBVIOUS
    <3>2. one # 0
      OBVIOUS
    <3> QED BY <2>1, <3>1, <3>2
  <2> QED BY <1>1, <2>2, Zenon
<1>8. Rotation(Completed(stored, largest, one))
        = [real |-> square(3), i |-> square(0), j |-> square(1), k |-> square(2),
           length |-> root + sum]
  BY <1>5 DEF Rotation
<1>9. NormalizeQuaternion(q[3], q[0], q[1], q[2])
        = [real |-> square(3), i |-> square(0), j |-> square(1), k |-> square(2),
           length |-> root + sum]
  <2>1. /\ q[0].square = square(0) /\ q[1].square = square(1)
        /\ q[2].square = square(2) /\ q[3].square = square(3)
    BY <1>2
  <2> QED BY <1>6, <1>7, <2>1, Zenon DEF NormalizeQuaternion
<1>10. Normalizable(q)
  BY <1>2 DEF Normalizable
<1>11. IsNormalized(NormalizeQuaternion(q[3], q[0], q[1], q[2]))
  <2>1. PICK z : z = NormalizeQuaternion(q[3], q[0], q[1], q[2])
    OBVIOUS
  <2>2. /\ z.real = square(3) /\ z.i = square(0) /\ z.j = square(1)
        /\ z.k = square(2) /\ z.length = root + sum
    BY <1>9, <2>1
  <2>3. IsNormalized(z)
    BY <1>6, <2>2, Zenon DEF IsNormalized
  <2> QED BY <2>1, <2>3, Zenon
<1> QED BY <1>8, <1>9, <1>10, <1>11 DEF RotationMeans

LEMMA ByteMaxFacts == ByteMax \in Nat /\ ByteMax >= 1 /\ 2^ByteBits = ByteMax + 1
<1>1. PICK p \in Nat : p = 2^ByteBits /\ p >= 2
  BY BytePowers
<1> QED BY <1>1 DEF ByteMax

(* Three signed bytes and a root.                                          *)
LEMMA FirstThreeRotation ==
  ASSUME NEW r, \A n \in 1 .. 3 : r[n] \in Int, NEW bytes,
         \A n \in 1 .. 3 : bytes[n] = r[n]
  PROVE  RotationMeans(UnpackRotationFirstThree(r), FirstThreeMeans(bytes))
<1> DEFINE q == UnpackRotationFirstThree(r)
           stored == [c \in 0 .. 3 |-> IF c = 3 THEN 0 ELSE 2 * r[c + 1] - ByteMax]
<1>1. PICK b \in Nat, one \in Nat : b = ByteMax /\ one = b * b /\ one >= 1
  <2>1. PICK k \in Nat : ByteMax = k + 1
    <3>1. ByteMax - 1 \in Nat /\ ByteMax = (ByteMax - 1) + 1
      BY ByteMaxFacts
    <3> QED BY <3>1
  <2>2. (k + 1) * (k + 1) = k * k + k + k + 1 /\ k * k \in Nat
    OBVIOUS
  <2>3. k + 1 \in Nat /\ (k + 1) * (k + 1) \in Nat /\ (k + 1) * (k + 1) >= 1
    BY <2>2
  <2> QED BY <2>1, <2>3
<1>2. stored \in [0 .. 3 -> Int]
  <2>1. \A c \in 0 .. 3 : c # 3 => c + 1 \in 1 .. 3
    OBVIOUS
  <2> QED BY <1>1, <2>1
<1>3. /\ stored[0] = 2 * r[0 + 1] - ByteMax /\ stored[1] = 2 * r[1 + 1] - ByteMax
      /\ stored[2] = 2 * r[2 + 1] - ByteMax /\ stored[3] = 0
  OBVIOUS
<1>4. PICK sum \in Nat :
        /\ sum = Part(stored, 3, 0) + Part(stored, 3, 1) + Part(stored, 3, 2)
                   + Part(stored, 3, 3)
        /\ sum = stored[0] * stored[0] + stored[1] * stored[1] + stored[2] * stored[2]
  <2>1. PICK v0, v1, v2 \in Int : v0 = stored[0] /\ v1 = stored[1] /\ v2 = stored[2]
    BY <1>2
  <2>2. PICK s0, s1, s2 \in Nat : s0 = v0 * v0 /\ s1 = v1 * v1 /\ s2 = v2 * v2
    BY SquareFacts
  <2>3. /\ Part(stored, 3, 0) = s0 /\ Part(stored, 3, 1) = s1
        /\ Part(stored, 3, 2) = s2 /\ Part(stored, 3, 3) = 0
    <3>1. 0 # 3 /\ 1 # 3 /\ 2 # 3
      OBVIOUS
    <3> QED BY <2>1, <2>2, <3>1, Zenon DEF Part
  <2>4. s0 + s1 + s2 + 0 = s0 + s1 + s2 /\ s0 + s1 + s2 \in Nat
    OBVIOUS
  <2> QED BY <2>1, <2>2, <2>3, <2>4, Zenon
<1> HIDE DEF stored
<1>5. q = [c \in 0 .. 3 |->
             IF c = 3 THEN Root(ByteMax * ByteMax - sum)
             ELSE Component(Signed(IF 2 * r[c + 1] - ByteMax < 0 THEN 1 ELSE 0,
                                   (2 * r[c + 1] - ByteMax) * (2 * r[c + 1] - ByteMax)))]
  BY <1>3, <1>4, Zenon DEF UnpackRotationFirstThree
<1>6. DOMAIN q = 0 .. 3 /\ q[3] = Root(one - sum)
  <2>1. DOMAIN q = 0 .. 3
    BY <1>5, Zenon
  <2>2. 3 \in 0 .. 3
    OBVIOUS
  <2> HIDE DEF q
  <2>3. q[3] = Root(ByteMax * ByteMax - sum)
    BY <1>5, <2>2, Zenon
  <2> QED BY <1>1, <2>1, <2>3, Zenon
<1> HIDE DEF q
<1>7. ASSUME NEW c \in 0 .. 3, c # 3
      PROVE  q[c] = Component(SignedSquare(stored[c]))
  <2>1. stored[c] = 2 * r[c + 1] - ByteMax
    BY <1>7 DEF stored
  <2>2. q[c] = Component(Signed(IF stored[c] < 0 THEN 1 ELSE 0, stored[c] * stored[c]))
    BY <1>5, <1>7, <2>1, Zenon
  <2>3. Signed(IF stored[c] < 0 THEN 1 ELSE 0, stored[c] * stored[c]) = SignedSquare(stored[c])
    <3>1. 0 # 1
      OBVIOUS
    <3> QED BY <3>1, Zenon DEF Signed, SignedSquare
  <2> QED BY <2>2, <2>3, Zenon
<1>8. RotationMeans(q, Rotation(Completed(stored, 3, one)))
  <2>1. 3 \in 0 .. 3
    OBVIOUS
  <2> QED BY <1>1, <1>2, <1>4, <1>6, <1>7, <2>1, CompletedIsNormalized
<1>9. FirstThreeMeans(bytes) = Rotation(Completed(stored, 3, one))
  <2>1. \A c \in 0 .. 3 : c # 3 => bytes[c + 1] = r[c + 1]
    <3>1. \A c \in 0 .. 3 : c # 3 => c + 1 \in 1 .. 3
      OBVIOUS
    <3> QED BY <3>1
  <2>2. [c \in 0 .. 3 |-> IF c = 3 THEN 0 ELSE 2 * bytes[c + 1] - ByteMax] = stored
    BY <2>1, Zenon DEF stored
  <2> QED BY <1>1, <2>2, Zenon DEF FirstThreeMeans
<1> QED BY <1>8, <1>9, Zenon DEF q

(* The widths of a word's fields: two bits and three times as many as a    *)
(* sign and a magnitude take.                                              *)
LEMMA FieldWidths ==
  \E f, m \in Nat : /\ f = FieldBits /\ m = MagnitudeBits /\ f = m + 1 /\ m >= 1
                    /\ ByteBits * 4 = 3 * f + 2
<1>1. ByteBits \in Nat /\ ByteBits >= 1 /\ (4 * ByteBits - 2) % 3 = 0
  BY WidthsAssumption
<1>2. PICK n \in Nat : n = 4 * ByteBits - 2 /\ n >= 2
  BY <1>1
<1>3. PICK f \in Nat : f = n \div 3 /\ n = f * 3 + 0
  <2>1. n = (n \div 3) * 3 + (n % 3) /\ n \div 3 \in Nat
    BY DivisionFacts
  <2>2. n % 3 = 0
    BY <1>1, <1>2
  <2> QED BY <2>1, <2>2
<1>4. ByteBits * 4 = 3 * f + 2 /\ f >= 2
  BY <1>1, <1>2, <1>3
<1>5. f = FieldBits /\ f - 1 = MagnitudeBits
  BY <1>2, <1>3, Zenon DEF FieldBits, MagnitudeBits
<1>6. f - 1 \in Nat /\ f = (f - 1) + 1 /\ f - 1 >= 1
  BY <1>4
<1> QED BY <1>4, <1>5, <1>6

LEMMA FieldPowers ==
  \E Q, P, P2, P3 \in Nat :
    /\ Q = 2^MagnitudeBits /\ Q >= 2 /\ P = 2^FieldBits /\ P = Q * 2
    /\ P2 = P * P /\ P3 = P2 * P /\ P2 >= 1 /\ P3 >= 1
    /\ 2^(FieldBits * 0) = 1 /\ 2^(FieldBits * 1) = P /\ 2^(FieldBits * 2) = P2
    /\ 2^(3 * FieldBits) = P3 /\ 2^(ByteBits * 4) = P3 * 4
<1>1. PICK f, m \in Nat :
        /\ f = FieldBits /\ m = MagnitudeBits /\ f = m + 1 /\ m >= 1
        /\ ByteBits * 4 = 3 * f + 2
  BY FieldWidths
<1>2. PICK Q, P \in Nat : Q = 2^m /\ P = 2^f
  BY PowerFacts
<1>3. Q >= 2
  <2>1. PICK k \in Nat : m = k + 1
    <3>1. m - 1 \in Nat /\ m = (m - 1) + 1
      BY <1>1
    <3> QED BY <3>1
  <2>2. 2^(k + 1) = 2 * 2^k /\ 2^k \in Nat /\ 2^k >= 1
    BY PowerFacts
  <2>3. PICK q \in Nat : q = 2^k /\ q >= 1
    BY <2>2
  <2>4. Q = 2 * q
    BY <1>2, <2>1, <2>2, <2>3, Zenon
  <2> QED BY <2>3, <2>4
<1>4. P = Q * 2 /\ P >= 1
  <2>1. 2^(m + 1) = 2 * 2^m
    BY PowerFacts
  <2>2. P = 2 * Q
    BY <1>1, <1>2, <2>1, Zenon
  <2> QED BY <1>3, <2>2
<1>5. PICK P2 \in Nat : P2 = P * P /\ P2 >= 1
  BY <1>4
<1>6. PICK P3 \in Nat : P3 = P2 * P /\ P3 >= 1
  BY <1>4, <1>5
<1>7. /\ f * 0 = 0 /\ f * 1 = f /\ f * 2 = f + f /\ 3 * f = f * 2 + f
      /\ f * 2 \in Nat /\ 3 * f \in Nat
  OBVIOUS
<1>8. 2^(f * 2) = P2
  <2>1. 2^(f + f) = 2^f * 2^f
    BY PowerOfSum
  <2> QED BY <1>2, <1>5, <1>7, <2>1, Zenon
<1>9. 2^(3 * f) = P3
  <2>1. 2^(f * 2 + f) = 2^(f * 2) * 2^f
    BY <1>7, PowerOfSum
  <2> QED BY <1>2, <1>6, <1>7, <1>8, <2>1, Zenon
<1>10. 2^(3 * f + 2) = P3 * 4
  <2>1. 2^(3 * f + 2) = 2^(3 * f) * 2^2
    BY <1>7, PowerOfSum
  <2>2. 2^2 = 4
    OBVIOUS
  <2> QED BY <1>9, <2>1, <2>2, Zenon
<1>11. 2^0 = 1
  OBVIOUS
<1>12. /\ 2^MagnitudeBits = Q /\ 2^FieldBits = P
       /\ 2^(FieldBits * 0) = 1 /\ 2^(FieldBits * 1) = P /\ 2^(FieldBits * 2) = P2
  BY <1>1, <1>2, <1>7, <1>8, <1>11, Zenon
<1>13. 2^(3 * FieldBits) = P3 /\ 2^(ByteBits * 4) = P3 * 4
  BY <1>1, <1>9, <1>10, Zenon
<1> QED BY <1>3, <1>4, <1>5, <1>6, <1>12, <1>13

FieldValue(f) == IF f < 2^MagnitudeBits THEN f ELSE 2^MagnitudeBits - f
Taken(packed, norm, q) == [packed |-> packed, norm |-> norm, q |-> q]

(* One field is a sign and a magnitude.                                    *)
LEMMA FieldTaken ==
  ASSUME NEW packed \in Nat, NEW P \in Nat, P = 2^FieldBits,
         NEW largest, NEW norm, NEW q, NEW c, c # largest
  PROVE  \E v \in Int :
           /\ v = FieldValue(packed % P)
           /\ TakeComponent(largest, Taken(packed, norm, q), c)
                = Taken(packed \div P, norm + v * v,
                        [q EXCEPT ![c] = Component(SignedSquare(v))])
<1>1. PICK Q \in Nat : Q = 2^MagnitudeBits /\ Q >= 1 /\ P = Q * 2
  <2>1. PICK Q, R \in Nat : Q = 2^MagnitudeBits /\ Q >= 2 /\ R = 2^FieldBits /\ R = Q * 2
    BY FieldPowers
  <2> QED BY <2>1
<1>2. PICK f, m, n \in Nat :
        /\ f = packed % P /\ m = packed % Q /\ n = (packed \div Q) % 2
        /\ f \div Q = n /\ f % Q = m
  <2>1. (packed % (Q * 2)) \div Q = (packed \div Q) % 2 /\ (packed % (Q * 2)) % Q = packed % Q
    <3>1. Q >= 1
      BY <1>1
    <3>2. ASSUME NEW r \in Nat, r >= 1
          PROVE  (packed % (Q * r)) \div Q = (packed \div Q) % r
                   /\ (packed % (Q * r)) % Q = packed % Q
      BY <3>1, <3>2, RemainderTwice
    <3>3. 2 \in Nat /\ 2 >= 1
      OBVIOUS
    <3> QED BY <3>2, <3>3, Zenon
  <2>2. packed \div Q \in Nat /\ packed % Q \in Nat
    BY <1>1, DivisionFacts
  <2>3. (packed \div Q) % 2 \in Nat
    BY <2>2
  <2>4. packed % P \in Nat
    <3>1. P >= 1
      BY <1>1
    <3> QED BY <3>1, DivisionFacts
  <2> QED BY <1>1, <2>1, <2>2, <2>3, <2>4, Zenon
<1>3. n < 2
  <2>1. packed \div Q \in Nat
    BY <1>1, DivisionFacts
  <2> QED BY <1>2, <2>1
<1>4. f = n * Q + m /\ m < Q
  BY <1>1, <1>2, DivisionFacts
<1> DEFINE v == FieldValue(f)
<1>5. v = IF f < Q THEN f ELSE Q - f
  BY <1>1, Zenon DEF FieldValue
<1> HIDE DEF v
<1>6. v \in Int /\ v * v = m * m /\ Signed(n, m * m) = SignedSquare(v)
  <2>1. CASE n = 0
    <3>1. f = m /\ f < Q /\ m >= 0
      BY <1>1, <1>4, <2>1
    <3>2. v = m /\ ~(v < 0)
      BY <1>5, <3>1
    <3>3. Signed(n, m * m) = m * m
      <4>1. n # 1
        BY <2>1
      <4> QED BY <4>1, Zenon DEF Signed
    <3>4. v \in Int
      BY <3>2
    <3> QED BY <3>2, <3>3, <3>4, Zenon DEF SignedSquare
  <2>2. CASE n = 1
    <3>1. f = Q + m /\ ~(f < Q)
      BY <1>1, <1>4, <2>2
    <3>2. v = -m /\ v \in Int
      BY <1>1, <1>5, <3>1
    <3>3. v * v = m * m
      BY <3>2
    <3>4. Signed(n, m * m) = -(m * m)
      BY <2>2, Zenon DEF Signed
    <3>5. -(m * m) = SignedSquare(v)
      <4>1. CASE m = 0
        <5>1. ~(v < 0)
          BY <3>2, <4>1
        <5>2. m * m = 0
          <6>1. 0 * 0 = 0
            OBVIOUS
          <6> QED BY <4>1, <6>1, Zenon
        <5>3. \A z \in Int : z <= 0 /\ z >= 0 => -z = z
          OBVIOUS
        <5>4. m * m \in Int /\ m * m <= 0 /\ m * m >= 0
          BY <5>2
        <5> QED BY <3>3, <5>1, <5>3, <5>4, Zenon DEF SignedSquare
      <4>2. CASE m # 0
        <5>1. v < 0
          BY <3>2, <4>2
        <5> QED BY <3>3, <5>1, Zenon DEF SignedSquare
      <4> QED BY <4>1, <4>2
    <3> QED BY <3>2, <3>3, <3>4, <3>5, Zenon
  <2>3. n = 0 \/ n = 1
    BY <1>3
  <2> QED BY <2>1, <2>2, <2>3
<1>7. TakeComponent(largest, Taken(packed, norm, q), c)
        = Taken(packed \div P, norm + v * v, [q EXCEPT ![c] = Component(SignedSquare(v))])
  <2>1. LowBits(packed, MagnitudeBits) = m /\ ShiftRight(packed, MagnitudeBits) % 2 = n
        /\ ShiftRight(packed, FieldBits) = packed \div P
    BY <1>1, <1>2, Zenon DEF LowBits, ShiftRight
  <2>2. /\ Taken(packed, norm, q).packed = packed
        /\ Taken(packed, norm, q).norm = norm
        /\ Taken(packed, norm, q).q = q
    BY DEF Taken
  <2>3. TakeComponent(largest, Taken(packed, norm, q), c)
          = [packed |-> packed \div P, norm |-> norm + m * m,
             q |-> [q EXCEPT ![c] = Component(Signed(n, m * m))]]
    BY <2>1, <2>2, Zenon DEF TakeComponent
  <2> QED BY <1>6, <2>3, Zenon DEF Taken
<1> QED BY <1>2, <1>6, <1>7 DEF v

Empty == [c \in 0 .. 3 |-> Component(0)]

AllTurns(word, largest) ==
  TakeComponent(largest, TakeComponent(largest, TakeComponent(largest,
    TakeComponent(largest, Taken(word, 0, Empty), 3), 2), 1), 0)

LEMMA SmallestThreeUnfolded ==
  ASSUME NEW word, NEW largest, largest = ShiftRight(word, 3 * FieldBits), NEW last,
         last = AllTurns(word, largest)
  PROVE  UnpackRotationSmallestThree(word)
           = [last.q EXCEPT ![largest] =
                Root(2 * MagnitudeMask * MagnitudeMask - last.norm)]
BY Zenon DEF UnpackRotationSmallestThree, AllTurns, Taken, Empty

(* The place of a component's field.                                       *)
FieldOf(word, largest, c) ==
  LET place == Cardinality({d \in 0 .. 3 : d > c /\ d # largest})
  IN  (word \div 2^(FieldBits * place)) % 2^FieldBits

LEMMA CardinalityFacts ==
  /\ Cardinality({}) = 0
  /\ \A a : Cardinality({a}) = 1
  /\ \A a, b : a # b => Cardinality({a, b}) = 2
  /\ \A a, b, c : a # b /\ a # c /\ b # c => Cardinality({a, b, c}) = 3
<1>1. Cardinality({}) = 0
  BY FS_EmptySet
<1>2. ASSUME NEW a
      PROVE  Cardinality({a}) = 1 /\ IsFiniteSet({a})
  BY FS_Singleton
<1>3. ASSUME NEW a, NEW b, a # b
      PROVE  Cardinality({a, b}) = 2 /\ IsFiniteSet({a, b})
  <2>1. {a, b} = {a} \cup {b} /\ b \notin {a}
    BY <1>3
  <2>2. IsFiniteSet({a} \cup {b}) /\ Cardinality({a} \cup {b}) = Cardinality({a}) + 1
    BY <1>2, <2>1, FS_AddElement
  <2> QED BY <1>2, <2>1, <2>2
<1>4. ASSUME NEW a, NEW b, NEW c, a # b, a # c, b # c
      PROVE  Cardinality({a, b, c}) = 3
  <2>1. {a, b, c} = {a, b} \cup {c} /\ c \notin {a, b}
    BY <1>4
  <2>2. Cardinality({a, b} \cup {c}) = Cardinality({a, b}) + 1
    BY <1>3, <1>4, <2>1, FS_AddElement
  <2> QED BY <1>3, <1>4, <2>1, <2>2
<1>5. \A a : Cardinality({a}) = 1
  BY <1>2, Zenon
<1>6. \A a, b : a # b => Cardinality({a, b}) = 2
  BY <1>3, Zenon
<1>7. \A a, b, c : a # b /\ a # c /\ b # c => Cardinality({a, b, c}) = 3
  BY <1>4, Zenon
<1> QED BY <1>1, <1>5, <1>6, <1>7, Zenon

LEMMA FieldPlaces ==
  /\ Cardinality({d \in 0 .. 3 : d > 3 /\ d # 0}) = 0
  /\ Cardinality({d \in 0 .. 3 : d > 2 /\ d # 0}) = 1
  /\ Cardinality({d \in 0 .. 3 : d > 1 /\ d # 0}) = 2
  /\ Cardinality({d \in 0 .. 3 : d > 3 /\ d # 1}) = 0
  /\ Cardinality({d \in 0 .. 3 : d > 2 /\ d # 1}) = 1
  /\ Cardinality({d \in 0 .. 3 : d > 0 /\ d # 1}) = 2
  /\ Cardinality({d \in 0 .. 3 : d > 3 /\ d # 2}) = 0
  /\ Cardinality({d \in 0 .. 3 : d > 1 /\ d # 2}) = 1
  /\ Cardinality({d \in 0 .. 3 : d > 0 /\ d # 2}) = 2
  /\ Cardinality({d \in 0 .. 3 : d > 2 /\ d # 3}) = 0
  /\ Cardinality({d \in 0 .. 3 : d > 1 /\ d # 3}) = 1
  /\ Cardinality({d \in 0 .. 3 : d > 0 /\ d # 3}) = 2
<1>1. /\ Cardinality({}) = 0
      /\ Cardinality({2}) = 1 /\ Cardinality({3}) = 1
      /\ Cardinality({1, 2}) = 2 /\ Cardinality({1, 3}) = 2 /\ Cardinality({2, 3}) = 2
  <2>1. 1 # 2 /\ 1 # 3 /\ 2 # 3
    OBVIOUS
  <2> QED BY <2>1, CardinalityFacts, Zenon
<1>2. /\ {d \in 0 .. 3 : d > 3 /\ d # 0} = {}
      /\ {d \in 0 .. 3 : d > 2 /\ d # 0} = {3}
      /\ {d \in 0 .. 3 : d > 1 /\ d # 0} = {2, 3}
      /\ {d \in 0 .. 3 : d > 3 /\ d # 1} = {}
      /\ {d \in 0 .. 3 : d > 2 /\ d # 1} = {3}
      /\ {d \in 0 .. 3 : d > 0 /\ d # 1} = {2, 3}
      /\ {d \in 0 .. 3 : d > 3 /\ d # 2} = {}
      /\ {d \in 0 .. 3 : d > 1 /\ d # 2} = {3}
      /\ {d \in 0 .. 3 : d > 0 /\ d # 2} = {1, 3}
      /\ {d \in 0 .. 3 : d > 2 /\ d # 3} = {}
      /\ {d \in 0 .. 3 : d > 1 /\ d # 3} = {2}
      /\ {d \in 0 .. 3 : d > 0 /\ d # 3} = {1, 2}
  OBVIOUS
<1> QED BY <1>1, <1>2, Zenon

(* The loop's three turns with a field.                                    *)
ThreeTurns(word, largest, a, b, c) ==
  TakeComponent(largest, TakeComponent(largest, TakeComponent(largest,
    Taken(word, 0, Empty), a), b), c)

(* The values of a word's three fields, the lowest first.                  *)
FieldValues(word, v1, v2, v3) ==
  LET P == 2^FieldBits IN
  /\ v1 = FieldValue(word % P)
  /\ v2 = FieldValue((word \div P) % P)
  /\ v3 = FieldValue(((word \div P) \div P) % P)

Advance(state, rest, c, v) ==
  Taken(rest, state.norm + v * v,
        [state.q EXCEPT ![c] = Component(SignedSquare(v))])

IsAdvanced(last, word, a, b, c, v1, v2, v3) ==
  \E d1, d2, d3 :
    last = Advance(Advance(Advance(Taken(word, 0, Empty),
                                   d1, a, v1), d2, b, v2), d3, c, v3)

LEMMA TurnAdvances ==
  ASSUME NEW packed \in Nat, NEW rest \in Nat, rest = packed \div 2^FieldBits,
         NEW v, v = FieldValue(packed % 2^FieldBits),
         NEW state, state = Taken(packed, state.norm, state.q),
         NEW largest, NEW c, c # largest
  PROVE  /\ TakeComponent(largest, state, c) = Advance(state, rest, c, v)
         /\ v \in Int
<1>1. PICK P \in Nat : P = 2^FieldBits
  BY FieldPowers
<1>2. PICK w \in Int :
        /\ w = FieldValue(packed % P)
        /\ TakeComponent(largest, Taken(packed, state.norm, state.q), c)
             = Taken(packed \div P, state.norm + w * w,
                     [state.q EXCEPT ![c] = Component(SignedSquare(w))])
  BY <1>1, FieldTaken
<1>3. w = v /\ packed \div P = rest
  BY <1>1, <1>2, Zenon
<1> QED BY <1>2, <1>3, Zenon DEF Advance

LEMMA AdvanceTaken ==
  ASSUME NEW state, NEW rest, NEW c, NEW v, NEW next, next = Advance(state, rest, c, v)
  PROVE  next = Taken(rest, next.norm, next.q)
BY DEF Advance, Taken

(* Three turns with a field leave the three values behind.                 *)
LEMMA ThreeFields ==
  ASSUME NEW word \in Nat
  PROVE  \E v1, v2, v3 \in Int :
           /\ FieldValues(word, v1, v2, v3)
           /\ \A largest, a, b, c :
                a # largest /\ b # largest /\ c # largest =>
                  IsAdvanced(ThreeTurns(word, largest, a, b, c), word, a, b, c, v1, v2, v3)
<1>1. PICK P \in Nat : P = 2^FieldBits /\ P >= 1
  <2>1. PICK Q, R \in Nat : Q >= 2 /\ R = 2^FieldBits /\ R = Q * 2
    BY FieldPowers
  <2> QED BY <2>1
<1>2. PICK d1, d2, d3 \in Nat : d1 = word \div P /\ d2 = d1 \div P /\ d3 = d2 \div P
  BY <1>1, DivisionFacts
<1>3. PICK v1, v2, v3 :
        v1 = FieldValue(word % P) /\ v2 = FieldValue(d1 % P) /\ v3 = FieldValue(d2 % P)
  OBVIOUS
<1> DEFINE first == Taken(word, 0, Empty)
<1>4. first = Taken(word, first.norm, first.q)
  BY DEF Taken
<1> HIDE DEF first
<1>5. ASSUME NEW largest, NEW a, NEW b, NEW c, a # largest, b # largest, c # largest
      PROVE  /\ TakeComponent(largest, TakeComponent(largest,
                   TakeComponent(largest, first, a), b), c)
                 = Advance(Advance(Advance(first, d1, a, v1), d2, b, v2), d3, c, v3)
             /\ v1 \in Int /\ v2 \in Int /\ v3 \in Int
  <2>1. d1 = word \div 2^FieldBits /\ v1 = FieldValue(word % 2^FieldBits)
    BY <1>1, <1>2, <1>3, Zenon
  <2>2. d2 = d1 \div 2^FieldBits /\ v2 = FieldValue(d1 % 2^FieldBits)
    BY <1>1, <1>2, <1>3, Zenon
  <2>3. d3 = d2 \div 2^FieldBits /\ v3 = FieldValue(d2 % 2^FieldBits)
    BY <1>1, <1>2, <1>3, Zenon
  <2>4. PICK s1 : s1 = Advance(first, d1, a, v1)
    OBVIOUS
  <2>5. PICK s2 : s2 = Advance(s1, d2, b, v2)
    OBVIOUS
  <2>6. TakeComponent(largest, first, a) = s1 /\ v1 \in Int
    BY <1>4, <1>5, <2>1, <2>4, TurnAdvances
  <2>7. s1 = Taken(d1, s1.norm, s1.q)
    BY <2>4, AdvanceTaken
  <2>8. TakeComponent(largest, s1, b) = s2 /\ v2 \in Int
    BY <1>5, <2>2, <2>5, <2>7, TurnAdvances
  <2>9. s2 = Taken(d2, s2.norm, s2.q)
    BY <2>5, AdvanceTaken
  <2>10. TakeComponent(largest, s2, c) = Advance(s2, d3, c, v3) /\ v3 \in Int
    BY <1>5, <2>3, <2>9, TurnAdvances
  <2> QED BY <2>4, <2>5, <2>6, <2>8, <2>10, Zenon
<1>6. v1 \in Int /\ v2 \in Int /\ v3 \in Int
  <2>1. 0 # 1
    OBVIOUS
  <2> QED BY <1>5, <2>1, Zenon
<1>7. FieldValues(word, v1, v2, v3)
  BY <1>1, <1>2, <1>3, Zenon DEF FieldValues
<1>8. ASSUME NEW largest, NEW a, NEW b, NEW c, a # largest, b # largest, c # largest
      PROVE  IsAdvanced(ThreeTurns(word, largest, a, b, c), word, a, b, c, v1, v2, v3)
  <2>1. ThreeTurns(word, largest, a, b, c) =
           Advance(Advance(Advance(first, d1, a, v1), d2, b, v2), d3, c, v3)
    BY <1>5, <1>8, Zenon DEF ThreeTurns, first
  <2> QED BY <2>1, Zenon DEF first, IsAdvanced
<1>9. \A largest, a, b, c :
        a # largest /\ b # largest /\ c # largest =>
          IsAdvanced(ThreeTurns(word, largest, a, b, c), word, a, b, c, v1, v2, v3)
  BY <1>8
<1> QED BY <1>6, <1>7, <1>9

(* Four turns of the loop are three with a field.                          *)
LEMMA FourTurns ==
  ASSUME NEW word, NEW largest \in 0 .. 3
  PROVE  /\ largest = 3 => AllTurns(word, largest) = ThreeTurns(word, largest, 2, 1, 0)
         /\ largest = 2 => AllTurns(word, largest) = ThreeTurns(word, largest, 3, 1, 0)
         /\ largest = 1 => AllTurns(word, largest) = ThreeTurns(word, largest, 3, 2, 0)
         /\ largest = 0 => AllTurns(word, largest) = ThreeTurns(word, largest, 3, 2, 1)
<1>1. \A state : TakeComponent(largest, state, largest) = state
  BY Zenon DEF TakeComponent
<1> DEFINE T(state, c) == TakeComponent(largest, state, c)
           first == Taken(word, 0, Empty)
<1>2. CASE largest = 3
  <2>1. T(first, 3) = first
    BY <1>1, <1>2, Zenon
  <2>2. AllTurns(word, largest) = ThreeTurns(word, largest, 2, 1, 0)
    BY <2>1, Zenon DEF ThreeTurns, AllTurns
  <2> QED BY <1>2, <2>2
<1>3. CASE largest = 2
  <2>1. T(T(first, 3), 2) = T(first, 3)
    BY <1>1, <1>3, Zenon
  <2>2. AllTurns(word, largest) = ThreeTurns(word, largest, 3, 1, 0)
    BY <2>1, Zenon DEF ThreeTurns, AllTurns
  <2> QED BY <1>3, <2>2
<1>4. CASE largest = 1
  <2>1. T(T(T(first, 3), 2), 1) = T(T(first, 3), 2)
    BY <1>1, <1>4, Zenon
  <2>2. AllTurns(word, largest) = ThreeTurns(word, largest, 3, 2, 0)
    BY <2>1, Zenon DEF ThreeTurns, AllTurns
  <2> QED BY <1>4, <2>2
<1>5. CASE largest = 0
  <2>1. T(T(T(T(first, 3), 2), 1), 0) = T(T(T(first, 3), 2), 1)
    BY <1>1, <1>5, Zenon
  <2>2. AllTurns(word, largest) = ThreeTurns(word, largest, 3, 2, 1)
    BY <2>1, Zenon DEF ThreeTurns, AllTurns
  <2> QED BY <1>5, <2>2
<1>6. largest = 0 \/ largest = 1 \/ largest = 2 \/ largest = 3
  OBVIOUS
<1> QED BY <1>2, <1>3, <1>4, <1>5, <1>6, Zenon

(* The stored component of each field, where the three others are.         *)
Stored(word, largest) ==
  [c \in 0 .. 3 |-> FieldValue(FieldOf(word, largest, c))]

LEMMA FieldsArePlaced ==
  ASSUME NEW word \in Nat, NEW largest \in 0 .. 3,
         NEW v1, NEW v2, NEW v3, FieldValues(word, v1, v2, v3)
  PROVE  LET stored == Stored(word, largest) IN
         /\ largest = 3 => stored[2] = v1 /\ stored[1] = v2 /\ stored[0] = v3
         /\ largest = 2 => stored[3] = v1 /\ stored[1] = v2 /\ stored[0] = v3
         /\ largest = 1 => stored[3] = v1 /\ stored[2] = v2 /\ stored[0] = v3
         /\ largest = 0 => stored[3] = v1 /\ stored[2] = v2 /\ stored[1] = v3
<1>1. PICK P, P2 \in Nat :
        /\ P = 2^FieldBits /\ P2 = P * P /\ P >= 1 /\ P2 >= 1
        /\ 2^(FieldBits * 0) = 1 /\ 2^(FieldBits * 1) = P /\ 2^(FieldBits * 2) = P2
  <2>1. PICK Q, P, P2 \in Nat :
        /\ Q >= 2 /\ P = 2^FieldBits /\ P = Q * 2 /\ P2 = P * P /\ P2 >= 1
        /\ 2^(FieldBits * 0) = 1 /\ 2^(FieldBits * 1) = P /\ 2^(FieldBits * 2) = P2
    BY FieldPowers
  <2>2. P >= 1
    BY <2>1
  <2> QED BY <2>1, <2>2
<1>2. word \div 1 = word
  OBVIOUS
<1>3. word \div P2 = (word \div P) \div P
  <2>1. P >= 1
    BY <1>1
  <2>2. word \div (P * P) = (word \div P) \div P
    BY <2>1, DividedTwice
  <2> QED BY <1>1, <2>2, Zenon
<1>4. ASSUME NEW c \in 0 .. 3
      PROVE  LET places == {d \in 0 .. 3 : d > c /\ d # largest} IN
             /\ Cardinality(places) = 0 => Stored(word, largest)[c] = v1
             /\ Cardinality(places) = 1 => Stored(word, largest)[c] = v2
             /\ Cardinality(places) = 2 => Stored(word, largest)[c] = v3
  <2> DEFINE place == Cardinality({d \in 0 .. 3 : d > c /\ d # largest})
  <2>1. Stored(word, largest)[c] = FieldValue((word \div 2^(FieldBits * place)) % P)
    BY <1>1, <1>4, Zenon DEF Stored, FieldOf
  <2> HIDE DEF place
  <2>2. place = 0 => Stored(word, largest)[c] = v1
    BY <1>1, <1>2, <2>1, Zenon DEF FieldValues
  <2>3. place = 1 => Stored(word, largest)[c] = v2
    BY <1>1, <2>1, Zenon DEF FieldValues
  <2>4. place = 2 => Stored(word, largest)[c] = v3
    BY <1>1, <1>3, <2>1, Zenon DEF FieldValues
  <2> QED BY <2>2, <2>3, <2>4, Zenon DEF place
<1>5. 2 # 3 /\ 1 # 3 /\ 1 # 2 /\ 0 \in 0 .. 3 /\ 1 \in 0 .. 3 /\ 2 \in 0 .. 3 /\ 3 \in 0 .. 3
  OBVIOUS
<1>6. CASE largest = 3
  <2>1. /\ Cardinality({d \in 0 .. 3 : d > 2 /\ d # 3}) = 0
        /\ Cardinality({d \in 0 .. 3 : d > 1 /\ d # 3}) = 1
        /\ Cardinality({d \in 0 .. 3 : d > 0 /\ d # 3}) = 2
    BY FieldPlaces
  <2>2. Stored(word, 3)[2] = v1 /\ Stored(word, 3)[1] = v2 /\ Stored(word, 3)[0] = v3
    BY <1>4, <1>5, <1>6, <2>1, Zenon
  <2> QED BY <1>5, <1>6, <2>2
<1>7. CASE largest = 2
  <2>1. /\ Cardinality({d \in 0 .. 3 : d > 3 /\ d # 2}) = 0
        /\ Cardinality({d \in 0 .. 3 : d > 1 /\ d # 2}) = 1
        /\ Cardinality({d \in 0 .. 3 : d > 0 /\ d # 2}) = 2
    BY FieldPlaces
  <2>2. Stored(word, 2)[3] = v1 /\ Stored(word, 2)[1] = v2 /\ Stored(word, 2)[0] = v3
    BY <1>4, <1>5, <1>7, <2>1, Zenon
  <2> QED BY <1>5, <1>7, <2>2
<1>8. CASE largest = 1
  <2>1. /\ Cardinality({d \in 0 .. 3 : d > 3 /\ d # 1}) = 0
        /\ Cardinality({d \in 0 .. 3 : d > 2 /\ d # 1}) = 1
        /\ Cardinality({d \in 0 .. 3 : d > 0 /\ d # 1}) = 2
    BY FieldPlaces
  <2>2. Stored(word, 1)[3] = v1 /\ Stored(word, 1)[2] = v2 /\ Stored(word, 1)[0] = v3
    BY <1>4, <1>5, <1>8, <2>1, Zenon
  <2> QED BY <1>5, <1>8, <2>2
<1>9. CASE largest = 0
  <2>1. /\ Cardinality({d \in 0 .. 3 : d > 3 /\ d # 0}) = 0
        /\ Cardinality({d \in 0 .. 3 : d > 2 /\ d # 0}) = 1
        /\ Cardinality({d \in 0 .. 3 : d > 1 /\ d # 0}) = 2
    BY FieldPlaces
  <2>2. Stored(word, 0)[3] = v1 /\ Stored(word, 0)[2] = v2 /\ Stored(word, 0)[1] = v3
    BY <1>4, <1>5, <1>9, <2>1, Zenon
  <2> QED BY <1>5, <1>9, <2>2
<1> QED BY <1>6, <1>7, <1>8, <1>9

(* A largest component and the three others.                               *)
Places(largest, a, b, c) ==
  /\ {largest, a, b, c} \subseteq 0 .. 3
  /\ a # b /\ a # c /\ b # c
  /\ a # largest /\ b # largest /\ c # largest

HasTaken(last, a, b, c, v1, v2, v3) ==
  /\ last.norm = v1 * v1 + v2 * v2 + v3 * v3
  /\ DOMAIN last.q = 0 .. 3
  /\ last.q[a] = Component(SignedSquare(v1))
  /\ last.q[b] = Component(SignedSquare(v2))
  /\ last.q[c] = Component(SignedSquare(v3))

LEMMA AdvancedThrice ==
  ASSUME NEW word, NEW largest, NEW a, NEW b, NEW c, Places(largest, a, b, c),
         NEW v1 \in Int, NEW v2 \in Int, NEW v3 \in Int, NEW last,
         IsAdvanced(last, word, a, b, c, v1, v2, v3)
  PROVE  HasTaken(last, a, b, c, v1, v2, v3)
<1>a. a \in 0 .. 3 /\ b \in 0 .. 3 /\ c \in 0 .. 3 /\ a # b /\ a # c /\ b # c
  BY DEF Places
<1>b. PICK d1, d2, d3 :
        last = Advance(Advance(Advance(Taken(word, 0, Empty),
                                       d1, a, v1), d2, b, v2), d3, c, v3)
  BY DEF IsAdvanced
<1> DEFINE S(v) == Component(SignedSquare(v))
           q1 == [Empty EXCEPT ![a] = S(v1)]
           q2 == [q1 EXCEPT ![b] = S(v2)]
           q3 == [q2 EXCEPT ![c] = S(v3)]
<1>1. PICK n1, n2, n3 \in Nat : n1 = v1 * v1 /\ n2 = v2 * v2 /\ n3 = v3 * v3
  BY SquareFacts
<1>2. last = Taken(d3, ((0 + n1) + n2) + n3, q3)
  <2>1. \A rest, n, q : Taken(rest, n, q).norm = n /\ Taken(rest, n, q).q = q
    BY DEF Taken
  <2>2. PICK s0 : s0 = Taken(word, 0, Empty)
    OBVIOUS
  <2>3. PICK s1 : s1 = Advance(s0, d1, a, v1)
    OBVIOUS
  <2>4. PICK s2 : s2 = Advance(s1, d2, b, v2)
    OBVIOUS
  <2>5. s0.norm = 0 /\ s0.q = Empty
    BY <2>1, <2>2, Zenon
  <2>6. s1 = Taken(d1, 0 + n1, q1)
    BY <1>1, <2>3, <2>5, Zenon DEF Advance
  <2> HIDE DEF q1
  <2>7. s1.norm = 0 + n1 /\ s1.q = q1
    BY <2>1, <2>6, Zenon
  <2>8. s2 = Taken(d2, (0 + n1) + n2, q2)
    BY <1>1, <2>4, <2>7, Zenon DEF Advance
  <2> HIDE DEF q2
  <2>9. s2.norm = (0 + n1) + n2 /\ s2.q = q2
    BY <2>1, <2>8, Zenon
  <2>10. Advance(s2, d3, c, v3) = Taken(d3, ((0 + n1) + n2) + n3, q3)
    BY <1>1, <2>9, Zenon DEF Advance
  <2> QED BY <1>b, <2>2, <2>3, <2>4, <2>10, Zenon
<1>3. last.norm = n1 + n2 + n3 /\ last.q = q3
  <2>1. last.norm = ((0 + n1) + n2) + n3 /\ last.q = q3
    <3> HIDE DEF q3
    <3> QED BY <1>2 DEF Taken
  <2>2. ((0 + n1) + n2) + n3 = n1 + n2 + n3
    OBVIOUS
  <2> QED BY <2>1, <2>2, Zenon
<1> HIDE DEF S
<1>4. DOMAIN Empty = 0 .. 3
  BY DEF Empty
<1>5. DOMAIN q3 = 0 .. 3 /\ q3[a] = S(v1) /\ q3[b] = S(v2) /\ q3[c] = S(v3)
  <2> HIDE DEF q1
  <2>1. DOMAIN q1 = 0 .. 3 /\ q1[a] = S(v1)
    BY <1>4, <1>a DEF q1
  <2> HIDE DEF q2
  <2>2. DOMAIN q2 = 0 .. 3 /\ q2[a] = S(v1) /\ q2[b] = S(v2)
    BY <2>1, <1>a DEF q2
  <2> QED BY <2>2, <1>a
<1> QED BY <1>1, <1>3, <1>5, Zenon DEF S, HasTaken

LEMMA MaskFacts ==
  \E one \in Nat : one = 2 * MagnitudeMask * MagnitudeMask /\ one >= 1
<1>1. PICK Q \in Nat : Q = 2^MagnitudeBits /\ Q >= 2
  BY FieldPowers
<1>2. PICK k \in Nat : Q - 1 = k + 1
  <2>1. Q - 2 \in Nat /\ Q - 1 = (Q - 2) + 1
    BY <1>1
  <2> QED BY <2>1
<1>3. MagnitudeMask = k + 1
  BY <1>1, <1>2, Zenon DEF MagnitudeMask
<1>4. PICK s \in Nat : s = k * k
  OBVIOUS
<1>5. 2 * (k + 1) * (k + 1) = 2 * s + 4 * k + 2
  BY <1>4
<1>6. 2 * s + 4 * k + 2 \in Nat /\ 2 * s + 4 * k + 2 >= 1
  OBVIOUS
<1> QED BY <1>3, <1>5, <1>6, Zenon

(* Given where the three fields are, the loop and the root make the        *)
(* quaternion the format describes.                                        *)
LEMMA TurnsComplete ==
  ASSUME NEW word, NEW largest, largest = word \div 2^(3 * FieldBits),
         NEW a, NEW b, NEW c, Places(largest, a, b, c),
         NEW v1 \in Int, NEW v2 \in Int, NEW v3 \in Int,
         IsAdvanced(AllTurns(word, largest), word, a, b, c, v1, v2, v3),
         Stored(word, largest)[a] = v1, Stored(word, largest)[b] = v2,
         Stored(word, largest)[c] = v3,
         Stored(word, largest) \in [0 .. 3 -> Int]
  PROVE  RotationMeans(UnpackRotationSmallestThree(word), SmallestThreeMeans(word))
<1>a. /\ largest \in 0 .. 3 /\ a \in 0 .. 3 /\ b \in 0 .. 3 /\ c \in 0 .. 3
      /\ a # b /\ a # c /\ b # c /\ a # largest /\ b # largest /\ c # largest
  BY DEF Places
<1> DEFINE q == UnpackRotationSmallestThree(word)
           stored == Stored(word, largest)
<1>1. PICK one \in Nat : one = 2 * MagnitudeMask * MagnitudeMask /\ one >= 1
  BY MaskFacts
<1>2. PICK last : last = AllTurns(word, largest)
  OBVIOUS
<1>3. /\ last.norm = v1 * v1 + v2 * v2 + v3 * v3
      /\ DOMAIN last.q = 0 .. 3
      /\ last.q[a] = Component(SignedSquare(v1))
      /\ last.q[b] = Component(SignedSquare(v2))
      /\ last.q[c] = Component(SignedSquare(v3))
  <2>1. IsAdvanced(last, word, a, b, c, v1, v2, v3)
    BY <1>2, Zenon
  <2>2. HasTaken(last, a, b, c, v1, v2, v3)
    BY <2>1, AdvancedThrice
  <2> QED BY <2>2, Zenon DEF HasTaken
<1>4. PICK n1, n2, n3 \in Nat : n1 = v1 * v1 /\ n2 = v2 * v2 /\ n3 = v3 * v3
  BY SquareFacts
<1>5. PICK sum \in Nat : sum = n1 + n2 + n3 /\ last.norm = sum
  <2>1. n1 + n2 + n3 \in Nat
    OBVIOUS
  <2> QED BY <1>3, <1>4, <2>1, Zenon
<1>6. q = [last.q EXCEPT ![largest] = Root(one - sum)]
  <2>1. largest = ShiftRight(word, 3 * FieldBits)
    BY Zenon DEF ShiftRight
  <2>2. UnpackRotationSmallestThree(word)
          = [last.q EXCEPT ![largest] =
               Root(2 * MagnitudeMask * MagnitudeMask - last.norm)]
    BY <1>2, <2>1, SmallestThreeUnfolded
  <2> QED BY <1>1, <1>5, <2>2, Zenon
<1> HIDE DEF q, stored
<1>7. DOMAIN q = 0 .. 3 /\ q[largest] = Root(one - sum)
  BY <1>3, <1>6, <1>a
<1>8. /\ q[a] = last.q[a] /\ q[b] = last.q[b] /\ q[c] = last.q[c]
  BY <1>3, <1>6, <1>a
<1>9. stored[a] = v1 /\ stored[b] = v2 /\ stored[c] = v3 /\ stored \in [0 .. 3 -> Int]
  BY DEF stored
<1>10. \A d \in 0 .. 3 : d = a \/ d = b \/ d = c \/ d = largest
  BY <1>a
<1>11. \A d \in 0 .. 3 : d # largest => q[d] = Component(SignedSquare(stored[d]))
  BY <1>3, <1>8, <1>9, <1>10, Zenon
<1>12. sum = Part(stored, largest, 0) + Part(stored, largest, 1)
               + Part(stored, largest, 2) + Part(stored, largest, 3)
  <2>1. /\ Part(stored, largest, a) = n1 /\ Part(stored, largest, b) = n2
        /\ Part(stored, largest, c) = n3 /\ Part(stored, largest, largest) = 0
    BY <1>4, <1>9, <1>a, Zenon DEF Part
  <2> DEFINE part == [d \in 0 .. 3 |-> Part(stored, largest, d)]
  <2>2. part[a] = n1 /\ part[b] = n2 /\ part[c] = n3 /\ part[largest] = 0
    BY <1>a, <2>1
  <2>3. /\ part[0] = Part(stored, largest, 0) /\ part[1] = Part(stored, largest, 1)
        /\ part[2] = Part(stored, largest, 2) /\ part[3] = Part(stored, largest, 3)
    OBVIOUS
  <2> HIDE DEF part
  <2>4. /\ a \in {0, 1, 2, 3} /\ b \in {0, 1, 2, 3}
        /\ c \in {0, 1, 2, 3} /\ largest \in {0, 1, 2, 3}
    BY <1>a
  <2>7. sum = part[0] + part[1] + part[2] + part[3]
    BY <1>5, <1>a, <2>2, <2>4
  <2> QED BY <2>3, <2>7, Zenon
<1>13. RotationMeans(q, Rotation(Completed(stored, largest, one)))
  BY <1>a, <1>1, <1>5, <1>7, <1>9, <1>11, <1>12, CompletedIsNormalized
<1>14. SmallestThreeMeans(word) = Rotation(Completed(stored, largest, one))
  BY <1>1, Zenon DEF SmallestThreeMeans, Stored, FieldOf, FieldValue, stored
<1> QED BY <1>13, <1>14, Zenon DEF q

(* The smallest three components and a root.                               *)
LEMMA SmallestThreeRotation ==
  ASSUME NEW word \in Words(4)
  PROVE  RotationMeans(UnpackRotationSmallestThree(word), SmallestThreeMeans(word))
<1>1. PICK Q, P, P3 \in Nat :
        /\ Q = 2^MagnitudeBits /\ Q >= 2 /\ P = 2^FieldBits /\ P >= 1
        /\ P3 = 2^(3 * FieldBits) /\ P3 >= 1
        /\ 2^(ByteBits * 4) = P3 * 4
  <2>1. PICK Q, P, P2, P3 \in Nat :
        /\ Q = 2^MagnitudeBits /\ Q >= 2 /\ P = 2^FieldBits /\ P = Q * 2
        /\ P2 >= 1 /\ P3 >= 1
        /\ P3 = 2^(3 * FieldBits) /\ 2^(ByteBits * 4) = P3 * 4
    BY FieldPowers
  <2>2. P >= 1
    BY <2>1
  <2> QED BY <2>1, <2>2
<1>2. word \in Nat /\ word < P3 * 4
  BY <1>1 DEF Words
<1>3. PICK largest \in 0 .. 3 : largest = word \div 2^(3 * FieldBits)
  <2>1. word \div P3 \in Nat
    BY <1>1, <1>2, DivisionFacts
  <2>2. \A n \in Nat : n >= 1 /\ word < P3 * n => word \div P3 < n
    BY <1>1, <1>2, QuotientBelow
  <2>3. word \div P3 < 4
    <3>1. 4 \in Nat /\ 4 >= 1
      OBVIOUS
    <3> QED BY <1>2, <2>2, <3>1, Zenon
  <2>4. word \div P3 \in 0 .. 3
    BY <2>1, <2>3
  <2> QED BY <1>1, <2>4, Zenon
<1>4. PICK v1, v2, v3 \in Int :
        /\ FieldValues(word, v1, v2, v3)
        /\ \A l, a, b, c :
             a # l /\ b # l /\ c # l =>
               IsAdvanced(ThreeTurns(word, l, a, b, c), word, a, b, c, v1, v2, v3)
  BY <1>2, ThreeFields
<1>5. Stored(word, largest) \in [0 .. 3 -> Int]
  <2>1. ASSUME NEW c \in 0 .. 3
        PROVE  FieldValue(FieldOf(word, largest, c)) \in Int
    <3>1. PICK k \in Nat : k = Cardinality({d \in 0 .. 3 : d > c /\ d # largest})
      <4>1. IsFiniteSet(0 .. 3)
        <5>1. \A m, n \in Int : IsFiniteSet(m .. n)
          BY FS_Interval
        <5>2. 0 \in Int /\ 3 \in Int
          OBVIOUS
        <5> QED BY <5>1, <5>2, Zenon
      <4>2. IsFiniteSet({d \in 0 .. 3 : d > c /\ d # largest})
        BY <4>1, FS_Subset
      <4> QED BY <4>2, FS_CardinalityType
    <3>2. PICK n \in Nat : n = 2^(FieldBits * k) /\ n >= 1
      <4>1. FieldBits * k \in Nat
        BY FieldWidths
      <4> QED BY <4>1, PowerFacts
    <3>3. PICK f \in Nat : f = (word \div n) % P
      <4>1. word \div n \in Nat
        BY <1>2, <3>2, DivisionFacts
      <4> QED BY <1>1, <4>1, DivisionFacts
    <3>4. FieldValue(f) \in Int
      BY <1>1 DEF FieldValue
    <3>5. FieldOf(word, largest, c) = f
      BY <1>1, <3>1, <3>2, <3>3, Zenon DEF FieldOf
    <3> QED BY <3>4, <3>5, Zenon
  <2> QED BY <2>1 DEF Stored
<1>7. /\ largest = 3 => AllTurns(word, largest) = ThreeTurns(word, largest, 2, 1, 0)
      /\ largest = 2 => AllTurns(word, largest) = ThreeTurns(word, largest, 3, 1, 0)
      /\ largest = 1 => AllTurns(word, largest) = ThreeTurns(word, largest, 3, 2, 0)
      /\ largest = 0 => AllTurns(word, largest) = ThreeTurns(word, largest, 3, 2, 1)
  BY FourTurns
<1>8. LET stored == Stored(word, largest) IN
      /\ largest = 3 => stored[2] = v1 /\ stored[1] = v2 /\ stored[0] = v3
      /\ largest = 2 => stored[3] = v1 /\ stored[1] = v2 /\ stored[0] = v3
      /\ largest = 1 => stored[3] = v1 /\ stored[2] = v2 /\ stored[0] = v3
      /\ largest = 0 => stored[3] = v1 /\ stored[2] = v2 /\ stored[1] = v3
  BY <1>2, <1>4, FieldsArePlaced
<1>9. ASSUME NEW a, NEW b, NEW c, Places(largest, a, b, c),
             AllTurns(word, largest) = ThreeTurns(word, largest, a, b, c),
             Stored(word, largest)[a] = v1, Stored(word, largest)[b] = v2,
             Stored(word, largest)[c] = v3
      PROVE  RotationMeans(UnpackRotationSmallestThree(word), SmallestThreeMeans(word))
  <2>1. IsAdvanced(AllTurns(word, largest), word, a, b, c, v1, v2, v3)
    BY <1>4, <1>9, Zenon DEF Places
  <2> QED BY <1>3, <1>5, <1>9, <2>1, TurnsComplete
<1>10. CASE largest = 3
  <2>1. Places(largest, 2, 1, 0)
    BY <1>10 DEF Places
  <2> QED BY <1>7, <1>8, <1>9, <1>10, <2>1, Zenon
<1>11. CASE largest = 2
  <2>1. Places(largest, 3, 1, 0)
    BY <1>11 DEF Places
  <2> QED BY <1>7, <1>8, <1>9, <1>11, <2>1, Zenon
<1>12. CASE largest = 1
  <2>1. Places(largest, 3, 2, 0)
    BY <1>12 DEF Places
  <2> QED BY <1>7, <1>8, <1>9, <1>12, <2>1, Zenon
<1>13. CASE largest = 0
  <2>1. Places(largest, 3, 2, 1)
    BY <1>13 DEF Places
  <2> QED BY <1>7, <1>8, <1>9, <1>13, <2>1, Zenon
<1>14. largest = 0 \/ largest = 1 \/ largest = 2 \/ largest = 3
  BY <1>3
<1> QED BY <1>10, <1>11, <1>12, <1>13, <1>14

(* ---- The payload -------------------------------------------------------- *)

Stream == <<"positions", "alphas", "colors", "scales", "rotations", "sh">>

(* Where a stream of the payload begins and ends.                          *)
StreamBounds(h, s, from, to) ==
  /\ from = h.pointCount * StreamStart(h)[s]
  /\ to = h.pointCount * (StreamStart(h)[s] + StreamWidth(h)[s])

AreBounds(h, c, a, b, d) ==
  /\ StreamBounds(h, "positions", 0, a)
  /\ StreamBounds(h, "alphas", a, a + c)
  /\ StreamBounds(h, "colors", a + c, a + 4 * c)
  /\ StreamBounds(h, "scales", a + 4 * c, a + 7 * c)
  /\ StreamBounds(h, "rotations", a + 7 * c, a + 7 * c + b)
  /\ StreamBounds(h, "sh", a + 7 * c + b, a + 7 * c + b + d)

LEMMA HeaderWidths ==
  ASSUME NEW h, IsHeader(h)
  PROVE  \E c, p, r, d \in Nat :
           /\ c = h.pointCount /\ c >= 1 /\ p = BytesPerPosition(h) /\ r = BytesPerRotation(h)
           /\ d = 3 * ShDimensions(h) /\ p \in {6, 9} /\ r \in {3, 4}
           /\ ShDimensions(h) \in Nat
<1>1. PICK g \in 0 .. 4 : g = h.shDegree
  BY DEF IsHeader, kSpecMaxShDegree
<1>2. (g + 1) * (g + 1) - 1 \in Nat
  <2>1. g = 0 \/ g = 1 \/ g = 2 \/ g = 3 \/ g = 4
    OBVIOUS
  <2> QED BY <2>1
<1>3. PICK e \in Nat : e = ShDimensions(h) /\ 3 * e \in Nat
  BY <1>1, <1>2 DEF ShDimensions
<1>4. BytesPerPosition(h) \in {6, 9} /\ BytesPerRotation(h) \in {3, 4}
  BY DEF BytesPerPosition, BytesPerRotation
<1>5. h.pointCount \in Nat /\ h.pointCount >= 1
  BY DEF IsHeader
<1> QED BY <1>3, <1>4, <1>5

(* The six streams lie behind one another, in the order of the spans.      *)
LEMMA Bounds ==
  ASSUME NEW h, IsHeader(h)
  PROVE  \E c, a, b, d, p, r, e \in Nat :
           /\ c = h.pointCount /\ c >= 1 /\ a = c * p /\ b = c * r /\ d = c * e
           /\ p = BytesPerPosition(h) /\ r = BytesPerRotation(h) /\ e = 3 * ShDimensions(h)
           /\ p \in {6, 9} /\ r \in {3, 4}
           /\ AreBounds(h, c, a, b, d)
<1>1. PICK c, p, r, e \in Nat :
           /\ c = h.pointCount /\ c >= 1 /\ p = BytesPerPosition(h) /\ r = BytesPerRotation(h)
           /\ e = 3 * ShDimensions(h) /\ p \in {6, 9} /\ r \in {3, 4}
  BY HeaderWidths
<1>2. PICK a, b, d \in Nat : a = c * p /\ b = c * r /\ d = c * e
  OBVIOUS
<1>3. StreamStart(h) = [positions |-> 0, alphas |-> p, colors |-> p + 1,
                        scales |-> p + 4, rotations |-> p + 7, sh |-> p + 7 + r]
  <2>1. (p + 1) + 3 = p + 4 /\ (p + 1) + 6 = p + 7
    OBVIOUS
  <2> QED BY <1>1, <2>1, Zenon DEF StreamStart
<1>4. StreamWidth(h) = [positions |-> p, alphas |-> 1, colors |-> 3, scales |-> 3,
                        rotations |-> r, sh |-> e]
  BY <1>1, Zenon DEF StreamWidth
<1>5. /\ c * 0 = 0 /\ c * (0 + p) = a /\ c * (p + 1) = a + c
      /\ c * (p + 1 + 3) = a + 4 * c /\ c * (p + 4) = a + 4 * c
      /\ c * (p + 4 + 3) = a + 7 * c /\ c * (p + 7) = a + 7 * c
      /\ c * (p + 7 + r) = a + 7 * c + b /\ c * (p + 7 + r + e) = a + 7 * c + b + d
  BY <1>2
<1>6. /\ StreamBounds(h, "positions", 0, a)
      /\ StreamBounds(h, "alphas", a, a + c)
      /\ StreamBounds(h, "colors", a + c, a + 4 * c)
  <2>1. /\ StreamStart(h)["positions"] = 0 /\ StreamWidth(h)["positions"] = p
        /\ StreamStart(h)["alphas"] = p /\ StreamWidth(h)["alphas"] = 1
        /\ StreamStart(h)["colors"] = p + 1 /\ StreamWidth(h)["colors"] = 3
    BY <1>3, <1>4
  <2> QED BY <1>1, <1>2, <1>5, <2>1, Zenon DEF StreamBounds
<1>7. /\ StreamBounds(h, "scales", a + 4 * c, a + 7 * c)
      /\ StreamBounds(h, "rotations", a + 7 * c, a + 7 * c + b)
      /\ StreamBounds(h, "sh", a + 7 * c + b, a + 7 * c + b + d)
  <2>1. /\ StreamStart(h)["scales"] = p + 4 /\ StreamWidth(h)["scales"] = 3
        /\ StreamStart(h)["rotations"] = p + 7 /\ StreamWidth(h)["rotations"] = r
        /\ StreamStart(h)["sh"] = p + 7 + r /\ StreamWidth(h)["sh"] = e
    BY <1>3, <1>4
  <2> QED BY <1>1, <1>2, <1>5, <2>1, Zenon DEF StreamBounds
<1>8. AreBounds(h, c, a, b, d)
  BY <1>6, <1>7, Zenon DEF AreBounds
<1> QED BY <1>1, <1>2, <1>8

LEMMA SpansFollowStreams ==
  ASSUME NEW h, IsHeader(h), NEW k \in 1 .. 6
  PROVE  /\ \E to : StreamBounds(h, Stream[k], Slices(h)[k].offset, to)
         /\ Slices(h)[k].offset \in Nat
<1>1. PICK c, a, b, d, p, r, e \in Nat :
           /\ c = h.pointCount /\ c >= 1 /\ a = c * p /\ b = c * r /\ d = c * e
           /\ p = BytesPerPosition(h) /\ r = BytesPerRotation(h) /\ e = 3 * ShDimensions(h)
           /\ p \in {6, 9} /\ r \in {3, 4}
           /\ AreBounds(h, c, a, b, d)
  BY Bounds
<1>2. /\ Slices(h)[1].offset = 0 /\ Slices(h)[2].offset = a
      /\ Slices(h)[3].offset = a + c /\ Slices(h)[4].offset = a + 4 * c
      /\ Slices(h)[5].offset = a + 7 * c /\ Slices(h)[6].offset = a + 7 * c + b
  <2>1. /\ StreamBytes(h).positions = a /\ StreamBytes(h).alphas = c
        /\ StreamBytes(h).colors = c * 3 /\ StreamBytes(h).scales = c * 3
        /\ StreamBytes(h).rotations = b
    BY <1>1, Zenon DEF StreamBytes
  <2> DEFINE B == StreamBytes(h)
  <2>2. /\ Slices(h)[1].offset = 0 /\ Slices(h)[2].offset = B.positions
        /\ Slices(h)[3].offset = B.positions + B.alphas
        /\ Slices(h)[4].offset = (B.positions + B.alphas) + B.colors
        /\ Slices(h)[5].offset = ((B.positions + B.alphas) + B.colors) + B.scales
        /\ Slices(h)[6].offset = (((B.positions + B.alphas) + B.colors) + B.scales) + B.rotations
    <3> HIDE DEF B
    <3> QED BY DEF Slices, B
  <2> HIDE DEF B
  <2>3. /\ B.positions = a /\ B.alphas = c /\ B.colors = 3 * c /\ B.scales = 3 * c
        /\ B.rotations = b
    BY <2>1 DEF B
  <2> QED BY <2>2, <2>3
<1>3. /\ Stream[1] = "positions" /\ Stream[2] = "alphas" /\ Stream[3] = "colors"
      /\ Stream[4] = "scales" /\ Stream[5] = "rotations" /\ Stream[6] = "sh"
  BY DEF Stream
<1>4. k \in {1, 2, 3, 4, 5, 6}
  OBVIOUS
<1> HIDE DEF Slices
<1>5. \E to : StreamBounds(h, Stream[k], Slices(h)[k].offset, to)
  BY <1>1, <1>2, <1>3, <1>4, Zenon DEF AreBounds
<1>6. a \in Nat /\ a + c \in Nat /\ a + 4 * c \in Nat /\ a + 7 * c \in Nat /\ a + 7 * c + b \in Nat
      /\ 0 \in Nat
  OBVIOUS
<1>7. Slices(h)[k].offset \in Nat
  BY <1>2, <1>4, <1>6, Zenon
<1> QED BY <1>5, <1>7

(* A byte is inside one stream only.                                       *)
LEMMA StreamsAreApart ==
  ASSUME NEW h, IsHeader(h), NEW n \in Nat,
         NEW s \in DOMAIN StreamStart(h), NEW t \in DOMAIN StreamStart(h),
         NEW s1, NEW s2, StreamBounds(h, s, s1, s2), n \in s1 .. s2 - 1,
         NEW t1, NEW t2, StreamBounds(h, t, t1, t2), n \in t1 .. t2 - 1
  PROVE  s = t
<1>1. PICK c, a, b, d, p, r, e \in Nat :
           /\ c = h.pointCount /\ c >= 1 /\ a = c * p /\ b = c * r /\ d = c * e
           /\ p = BytesPerPosition(h) /\ r = BytesPerRotation(h) /\ e = 3 * ShDimensions(h)
           /\ p \in {6, 9} /\ r \in {3, 4}
           /\ AreBounds(h, c, a, b, d)
  BY Bounds
<1>2. DOMAIN StreamStart(h) = {"positions", "alphas", "colors", "scales", "rotations", "sh"}
  <2>1. PICK v2, v3, v4, v5, v6 :
          StreamStart(h) = [positions |-> 0, alphas |-> v2, colors |-> v3,
                            scales |-> v4, rotations |-> v5, sh |-> v6]
    BY Zenon DEF StreamStart
  <2> QED BY <2>1
<1> DEFINE At(x) == /\ x = "positions" => n \in 0 .. a - 1
                    /\ x = "alphas" => n \in a .. a + c - 1
                    /\ x = "colors" => n \in a + c .. a + 4 * c - 1
                    /\ x = "scales" => n \in a + 4 * c .. a + 7 * c - 1
                    /\ x = "rotations" => n \in a + 7 * c .. a + 7 * c + b - 1
                    /\ x = "sh" => n \in a + 7 * c + b .. a + 7 * c + b + d - 1
<1>4. ASSUME NEW x \in DOMAIN StreamStart(h), NEW f1, NEW f2,
             StreamBounds(h, x, f1, f2), n \in f1 .. f2 - 1
      PROVE  At(x)
  <2>1. CASE x = "positions"
    <3>1. f1 = 0 /\ f2 = a
      BY <1>1, <1>4, <2>1, Zenon DEF AreBounds, StreamBounds
    <3> QED BY <1>4, <2>1, <3>1
  <2>2. CASE x = "alphas"
    <3>1. f1 = a /\ f2 = a + c
      BY <1>1, <1>4, <2>2, Zenon DEF AreBounds, StreamBounds
    <3> QED BY <1>4, <2>2, <3>1
  <2>3. CASE x = "colors"
    <3>1. f1 = a + c /\ f2 = a + 4 * c
      BY <1>1, <1>4, <2>3, Zenon DEF AreBounds, StreamBounds
    <3> QED BY <1>4, <2>3, <3>1
  <2>4. CASE x = "scales"
    <3>1. f1 = a + 4 * c /\ f2 = a + 7 * c
      BY <1>1, <1>4, <2>4, Zenon DEF AreBounds, StreamBounds
    <3> QED BY <1>4, <2>4, <3>1
  <2>5. CASE x = "rotations"
    <3>1. f1 = a + 7 * c /\ f2 = a + 7 * c + b
      BY <1>1, <1>4, <2>5, Zenon DEF AreBounds, StreamBounds
    <3> QED BY <1>4, <2>5, <3>1
  <2>6. CASE x = "sh"
    <3>1. f1 = a + 7 * c + b /\ f2 = a + 7 * c + b + d
      BY <1>1, <1>4, <2>6, Zenon DEF AreBounds, StreamBounds
    <3> QED BY <1>4, <2>6, <3>1
  <2> QED BY <1>2, <2>1, <2>2, <2>3, <2>4, <2>5, <2>6
<1>5. At(s) /\ At(t)
  <2> HIDE DEF At
  <2> QED BY <1>4
<1> QED BY <1>2, <1>5

(* The spans are cut as the sizes say, and fill the payload.               *)
LEMMA SpansAgree ==
  ASSUME NEW h, IsHeader(h)
  PROVE  ~SpansDisagree(h, Slices(h), PayloadSize(h))
<1>1. PICK c, a, b, d, p, r, e \in Nat :
           /\ c = h.pointCount /\ c >= 1 /\ a = c * p /\ b = c * r /\ d = c * e
           /\ p = BytesPerPosition(h) /\ r = BytesPerRotation(h) /\ e = 3 * ShDimensions(h)
           /\ p \in {6, 9} /\ r \in {3, 4}
           /\ AreBounds(h, c, a, b, d)
  BY Bounds
<1>2. PICK s \in Nat : s = ShDimensions(h)
  BY HeaderWidths
<1>3. PayloadSize(h) = a + 7 * c + b + d
  BY <1>1, Zenon DEF AreBounds, StreamBounds, PayloadSize
<1> DEFINE B == StreamBytes(h)
           S == Slices(h)
<1>4. /\ B.positions = c * BytesPerPosition(h) /\ B.alphas = c /\ B.colors = c * 3
      /\ B.scales = c * 3 /\ B.rotations = c * BytesPerRotation(h)
      /\ B.sh = c * 3 * ShDimensions(h)
  BY <1>1, Zenon DEF StreamBytes
<1> HIDE DEF B
<1>5. /\ S[1].size = B.positions /\ S[2].size = B.alphas /\ S[3].size = B.colors
      /\ S[4].size = B.scales /\ S[5].size = B.rotations /\ S[6].size = B.sh
      /\ S[6].offset = (((B.positions + B.alphas) + B.colors) + B.scales) + B.rotations
  BY DEF Slices, B
<1> HIDE DEF S
<1>6. S[6].offset + S[6].size = PayloadSize(h)
  <2>1. B.positions = a /\ B.rotations = b
    BY <1>1, <1>4, Zenon
  <2>2. B.sh = d
    <3>1. c * 3 * s = c * (3 * s)
      OBVIOUS
    <3>2. d = c * (3 * s)
      BY <1>1, <1>2, Zenon
    <3> QED BY <1>2, <1>4, <3>1, <3>2, Zenon
  <2>3. B.alphas = c /\ B.colors = 3 * c /\ B.scales = 3 * c
    BY <1>4
  <2> QED BY <1>3, <1>5, <2>1, <2>2, <2>3
<1>7. /\ S[1].size = h.pointCount * BytesPerPosition(h) /\ S[2].size = h.pointCount
      /\ S[3].size = h.pointCount * 3 /\ S[4].size = h.pointCount * 3
      /\ S[5].size = h.pointCount * BytesPerRotation(h)
      /\ S[6].size = h.pointCount * 3 * ShDimensions(h)
  BY <1>1, <1>4, <1>5, Zenon
<1> QED BY <1>6, <1>7, Zenon DEF SpansDisagree, S

(* A byte of a span is the Gaussian's the stride says, at the place the    *)
(* remainder says.                                                         *)
LEMMA PayloadByteAt ==
  ASSUME NEW v, IsHeader(v.header), NEW k \in 1 .. 6, NEW w \in Nat,
         w = StreamWidth(v.header)[Stream[k]],
         NEW g \in 0 .. v.header.pointCount - 1, NEW m \in Nat, m < w,
         NEW n, n = Slices(v.header)[k].offset + (g * w + m)
  PROVE  PayloadByte(v, n) = StoredByte(v, Stream[k], g, m)
<1> DEFINE h == v.header
           s == Stream[k]
           start == StreamStart(h)
           width == StreamWidth(h)
           count == h.pointCount
           In(x) == n \in count * start[x] .. count * (start[x] + width[x]) - 1
<1>1. PICK c \in Nat : c = count
  BY HeaderWidths
<1>2. PICK o, to : /\ o \in Nat /\ o = Slices(h)[k].offset
                    /\ StreamBounds(h, s, o, to)
  BY SpansFollowStreams
<1>3. s \in DOMAIN start
  <2>1. DOMAIN start = {"positions", "alphas", "colors", "scales", "rotations", "sh"}
    <3>1. PICK v2, v3, v4, v5, v6 :
            start = [positions |-> 0, alphas |-> v2, colors |-> v3,
                     scales |-> v4, rotations |-> v5, sh |-> v6]
      BY Zenon DEF StreamStart
    <3> HIDE DEF start
    <3> QED BY <3>1
  <2>2. k \in {1, 2, 3, 4, 5, 6}
    OBVIOUS
  <2> HIDE DEF start
  <2> QED BY <2>1, <2>2 DEF Stream
<1> HIDE DEF h, s, start, width, count
<1>4. o = c * start[s] /\ to = c * (start[s] + w)
  BY <1>1, <1>2, Zenon DEF StreamBounds, start, width, count, s, h
<1>5. start[s] \in Nat
  <2>1. \E p, r \in Nat : p = BytesPerPosition(h) /\ r = BytesPerRotation(h)
    BY HeaderWidths DEF h
  <2>2. PICK p, r \in Nat :
          start = [positions |-> 0, alphas |-> p, colors |-> p + 1,
                   scales |-> (p + 1) + 3, rotations |-> (p + 1) + 6, sh |-> (p + 1) + 6 + r]
    BY <2>1, Zenon DEF StreamStart, start
  <2> QED BY <1>3, <2>2
<1>6. PICK q, cw \in Nat : q = g * w + m /\ cw = c * w /\ q < cw
  <2>1. g \in Nat /\ g < c
    BY <1>1 DEF count, h
  <2>2. PICK j \in Nat : c = g + 1 + j
    <3>1. c - g - 1 \in Nat /\ c = g + 1 + (c - g - 1)
      BY <2>1
    <3> QED BY <3>1
  <2>3. c * w = g * w + w + j * w /\ j * w \in Nat /\ g * w \in Nat
    BY <2>1, <2>2
  <2> QED BY <2>1, <2>3
<1>7. to = o + cw
  <2>1. PICK x \in Nat : x = start[s]
    BY <1>5
  <2>2. c * (x + w) = c * x + c * w
    OBVIOUS
  <2> QED BY <1>4, <1>6, <2>1, <2>2, Zenon
<1>8. n = o + q /\ n \in Nat /\ n \in o .. to - 1
  <2>1. n = o + q
    BY <1>2, <1>6, Zenon DEF h
  <2>2. o \in Nat
    BY <1>2
  <2> QED BY <1>6, <1>7, <2>1, <2>2
<1>9. w = width[s]
  BY Zenon DEF width, s, h
<1>10. In(s)
  BY <1>1, <1>4, <1>8, <1>9, Zenon
<1>11. ASSUME NEW x \in DOMAIN start, In(x)
       PROVE  x = s
  <2>1. StreamBounds(h, x, count * start[x], count * (start[x] + width[x]))
    BY Zenon DEF StreamBounds, start, width, count
  <2>2. IsHeader(h) /\ s \in DOMAIN StreamStart(h) /\ x \in DOMAIN StreamStart(h)
    BY <1>3, <1>11 DEF h, start
  <2> QED BY <1>2, <1>8, <1>11, <2>1, <2>2, StreamsAreApart
<1>12. (CHOOSE x \in DOMAIN start : In(x)) = s
  <2> HIDE DEF In
  <2> QED BY <1>3, <1>10, <1>11
<1>13. n - count * start[s] = q /\ q \div w = g /\ q % w = m
  <2>1. q \div w = g /\ q % w = m
    <3>1. g \in Nat
      OBVIOUS
    <3>2. (g * w + m) \div w = g /\ (g * w + m) % w = m
      BY <3>1, DivisionIsUnique
    <3> QED BY <1>6, <3>2, Zenon
  <2>2. count * start[s] = o
    BY <1>1, <1>4, Zenon
  <2>3. n - o = q
    <3>1. o \in Nat
      BY <1>2
    <3>2. (o + q) - o = q
      BY <3>1
    <3>3. n = o + q
      BY <1>8
    <3> QED BY <3>2, <3>3, Zenon
  <2> QED BY <2>1, <2>2, <2>3
<1>14. PayloadByte(v, n)
         = StoredByte(v, s, (n - count * start[s]) \div width[s],
                      (n - count * start[s]) % width[s])
  BY <1>12, Zenon DEF PayloadByte, start, width, count, h
<1> QED BY <1>9, <1>13, <1>14, Zenon DEF s

Bytewise(v, stream, from, n, g) ==
  [m \in 1 .. n |-> StoredByte(v, stream, g, from + m - 1)]
IsPlace(offset, g, w, from) == offset = g * w + from

LEMMA BytesAre ==
  ASSUME NEW v, IsHeader(v.header), NEW k \in 1 .. 6, NEW w \in Nat,
         w = StreamWidth(v.header)[Stream[k]],
         NEW g \in 0 .. v.header.pointCount - 1,
         NEW from \in Nat, NEW n \in Nat, from + n <= w,
         NEW offset, IsPlace(offset, g, w, from)
  PROVE  Bytes(v, Slices(v.header)[k], offset, n)
           = Bytewise(v, Stream[k], from, n, g)
<1>1. PICK o \in Nat : o = Slices(v.header)[k].offset
  BY SpansFollowStreams
<1>2. ASSUME NEW m \in 1 .. n
      PROVE  PayloadByte(v, Slices(v.header)[k].offset + offset + m - 1)
               = StoredByte(v, Stream[k], g, from + m - 1)
  <2>1. from + m - 1 \in Nat /\ from + m - 1 < w
    OBVIOUS
  <2>2. o + offset + m - 1 = o + (g * w + (from + m - 1))
    <3>1. g * w \in Nat
      OBVIOUS
    <3>2. offset = g * w + from
      BY Zenon DEF IsPlace
    <3>3. PICK p \in Nat : p = g * w
      BY <3>1
    <3>4. offset = p + from
      BY <3>2, <3>3, Zenon
    <3>5. o + offset + m - 1 = o + (p + (from + m - 1))
      BY <3>4
    <3> QED BY <3>3, <3>5, Zenon
  <2>3. PICK i \in Nat : i = from + m - 1 /\ i < w
    BY <2>1
  <2>4. PICK x : x = Slices(v.header)[k].offset + (g * w + i)
    OBVIOUS
  <2>5. PayloadByte(v, x) = StoredByte(v, Stream[k], g, i)
    BY <2>3, <2>4, PayloadByteAt
  <2> QED BY <1>1, <2>2, <2>3, <2>4, <2>5, Zenon
<1> QED BY <1>2, Zenon DEF Bytes, Bytewise

(* ---- What the arrays hold ---------------------------------------------- *)

Whole(v) == v.problem = NoProblem /\ IsVersion(v)

(* The layer's cloud, by name.                                             *)
Position(v, word) == IF v.header.version = 1 THEN HalfMeans(word)
                     ELSE FixedMeans(word, v.header.fractionalBits)
Turn(v, word) == IF v.header.version = 3 THEN SmallestThreeMeans(word)
                 ELSE FirstThreeMeans([n \in 1 .. 3 |-> ByteOf(word, n - 1)])
RestOf(v) ==
  LET Rest(g, c) == Bytewise(v, "sh", 3 * (c - 1), 3, g - 1)
  IN  Interleaved(v.header.pointCount, ShDimensions(v.header), Rest)
CloudOf(v) ==
  LET count == v.header.pointCount IN
  [positions |-> [g \in 1 .. count |-> [axis \in 1 .. 3 |->
                    Position(v, v.position[g - 1][axis - 1])]],
   opacities |-> [g \in 1 .. count |-> Bytewise(v, "alphas", 0, 1, g - 1)],
   scales |-> [g \in 1 .. count |-> Bytewise(v, "scales", 0, 3, g - 1)],
   dcCoefficients |-> [g \in 1 .. count |-> Bytewise(v, "colors", 0, 3, g - 1)],
   rotations |-> [g \in 1 .. count |-> Turn(v, v.rotation[g - 1])],
   restCoefficients |-> RestOf(v)]

LEMMA ContentIs ==
  ASSUME NEW v, NEW r
  PROVE  Content(v, r) = IF r.metadataOnly THEN Metadata(v.header)
                         ELSE Full(CloudOf(v), v.header)
BY DEF Content, Metadata, Full, CloudOf, Position, Turn, Bytewise, RestOf

(* The streams of whole bytes.                                             *)
LEMMA BytesDecoded ==
  ASSUME NEW v, IsHeader(v.header), NEW k \in 1 .. 6, NEW w \in Nat,
         w = StreamWidth(v.header)[Stream[k]]
  PROVE  DecodedBytes(v, k, w)
           = [g \in 1 .. v.header.pointCount |-> Bytewise(v, Stream[k], 0, w, g - 1)]
<1>1. PICK c \in Nat : c = v.header.pointCount
  BY HeaderWidths
<1>2. ASSUME NEW g \in 1 .. v.header.pointCount
      PROVE  Bytes(v, Slices(v.header)[k], (g - 1) * w, w)
               = Bytewise(v, Stream[k], 0, w, g - 1)
  <2>1. PICK i \in Nat : i = g - 1 /\ i \in 0 .. v.header.pointCount - 1
    BY <1>1
  <2>2. PICK offset : offset = i * w
    OBVIOUS
  <2>3. offset = i * w + 0 /\ 0 + w <= w
    <3>1. i * w \in Nat
      OBVIOUS
    <3> QED BY <2>2, <3>1
  <2>4. Bytes(v, Slices(v.header)[k], offset, w)
          = Bytewise(v, Stream[k], 0, w, i)
    <3>1. IsPlace(offset, i, w, 0)
      BY <2>3, Zenon DEF IsPlace
    <3> QED BY <2>1, <2>3, <3>1, BytesAre
  <2> QED BY <2>1, <2>2, <2>4, Zenon
<1> QED BY <1>2, Zenon DEF DecodedBytes

LEMMA WidthsOf ==
  ASSUME NEW h
  PROVE  /\ StreamWidth(h)[Stream[1]] = BytesPerPosition(h)
         /\ StreamWidth(h)[Stream[2]] = 1 /\ StreamWidth(h)[Stream[3]] = 3
         /\ StreamWidth(h)[Stream[4]] = 3
         /\ StreamWidth(h)[Stream[5]] = BytesPerRotation(h)
         /\ StreamWidth(h)[Stream[6]] = 3 * ShDimensions(h)
         /\ Stream[1] = "positions" /\ Stream[2] = "alphas" /\ Stream[3] = "colors"
         /\ Stream[4] = "scales" /\ Stream[5] = "rotations" /\ Stream[6] = "sh"
<1>1. /\ Stream[1] = "positions" /\ Stream[2] = "alphas" /\ Stream[3] = "colors"
      /\ Stream[4] = "scales" /\ Stream[5] = "rotations" /\ Stream[6] = "sh"
  BY DEF Stream
<1>2. PICK p, r, d : p = BytesPerPosition(h) /\ r = BytesPerRotation(h)
                     /\ d = 3 * ShDimensions(h)
  OBVIOUS
<1>3. StreamWidth(h) = [positions |-> p, alphas |-> 1, colors |-> 3, scales |-> 3,
                        rotations |-> r, sh |-> d]
  BY <1>2, Zenon DEF StreamWidth
<1> QED BY <1>1, <1>2, <1>3

(* The word of one position: its bytes lie at the stride, axis behind axis. *)
PositionWord(d, i, axis) ==
  LET width == BytesPerPosition(d.header) \div 3 IN
  Word(Values(Bytes(d, Slices(d.header)[1],
                    i * BytesPerPosition(d.header) + axis * width, width)))

LEMMA PositionWidth ==
  ASSUME NEW h, IsHeader(h)
  PROVE  \E w \in 2 .. 3 : /\ w = BytesPerPosition(h) \div 3
                           /\ BytesPerPosition(h) = 3 * w
                           /\ w = 2 <=> h.version = 1
<1>1. CASE h.version = 1
  <2>1. BytesPerPosition(h) = 6
    BY <1>1 DEF BytesPerPosition
  <2>2. 6 \div 3 = 2 /\ 6 = 3 * 2
    OBVIOUS
  <2> QED BY <1>1, <2>1, <2>2
<1>2. CASE h.version # 1
  <2>1. BytesPerPosition(h) = 9
    BY <1>2 DEF BytesPerPosition
  <2>2. 9 \div 3 = 3 /\ 9 = 3 * 3
    OBVIOUS
  <2> QED BY <1>2, <2>1, <2>2
<1> QED BY <1>1, <1>2

LEMMA PositionWordIs ==
  ASSUME NEW v, Whole(v), NEW i \in 0 .. v.header.pointCount - 1, NEW axis \in 0 .. 2
  PROVE  /\ PositionWord(v, i, axis) = v.position[i][axis]
         /\ v.position[i][axis] \in Words(BytesPerPosition(v.header) \div 3)
<1>1. IsHeader(v.header)
  BY DEF Whole, IsVersion
<1>2. PICK w \in 2 .. 3 : /\ w = BytesPerPosition(v.header) \div 3
                          /\ BytesPerPosition(v.header) = 3 * w
  BY <1>1, PositionWidth
<1>3. v.position[i][axis] \in Words(w)
  <2>1. v.position \in [0 .. v.header.pointCount - 1 -> [0 .. 2 -> Words(w)]]
    BY <1>2, Zenon DEF Whole, IsVersion
  <2> QED BY <2>1, Zenon
<1>4. PICK W \in Nat : W = 3 * w
  OBVIOUS
<1>5. PICK from \in Nat : from = axis * w /\ from + w <= W
  <2>1. axis = 0 \/ axis = 1 \/ axis = 2
    OBVIOUS
  <2>2. axis * w \in Nat /\ axis * w + w <= W
    <3>1. CASE axis = 0
      BY <1>4, <3>1
    <3>2. CASE axis = 1
      BY <1>4, <3>2
    <3>3. CASE axis = 2
      BY <1>4, <3>3
    <3> QED BY <2>1, <3>1, <3>2, <3>3
  <2> QED BY <2>2
<1> DEFINE bytes == Bytes(v, Slices(v.header)[1], i * W + from, w)
<1>6. bytes = [m \in 1 .. w |-> StoredByte(v, "positions", i, from + m - 1)]
  <2>1. W = StreamWidth(v.header)[Stream[1]] /\ Stream[1] = "positions"
    BY <1>2, <1>4, WidthsOf, Zenon
  <2>2. PICK offset : offset = i * W + from
    OBVIOUS
  <2>3. w \in Nat
    OBVIOUS
  <2>4. 1 \in 1 .. 6
    OBVIOUS
  <2>5. \A k \in 1 .. 6 : W = StreamWidth(v.header)[Stream[k]] =>
          Bytes(v, Slices(v.header)[k], offset, w)
            = Bytewise(v, Stream[k], from, w, i)
    <3>1. IsPlace(offset, i, W, from)
      BY <2>2, Zenon DEF IsPlace
    <3> HIDE <2>2
    <3> QED BY <1>1, <1>5, <2>3, <3>1, BytesAre
  <2>6. Bytes(v, Slices(v.header)[1], offset, w)
            = Bytewise(v, Stream[1], from, w, i)
    BY <2>1, <2>4, <2>5, Zenon
  <2> QED BY <2>1, <2>2, <2>6, Zenon DEF Bytewise
<1>7. ASSUME NEW m \in 1 .. w
      PROVE  StoredByte(v, "positions", i, from + m - 1).value
               = ByteOf(v.position[i][axis], m - 1)
  <2>1. PICK j \in Nat : j = m - 1 /\ j < w
    OBVIOUS
  <2>2. from + m - 1 = axis * w + j
    BY <1>5, <2>1
  <2>3. PICK b : b = axis * w + j
    OBVIOUS
  <2>4. b \div w = axis /\ b % w = j
    <3>1. axis \in Nat /\ w \in Nat
      OBVIOUS
    <3>2. (axis * w + j) \div w = axis /\ (axis * w + j) % w = j
      BY <2>1, <3>1, DivisionIsUnique
    <3> QED BY <2>3, <3>2, Zenon
  <2>5. StoredByte(v, "positions", i, b).value = ByteOf(v.position[i][b \div w], b % w)
    BY <1>2, Zenon DEF StoredByte
  <2> QED BY <2>1, <2>2, <2>3, <2>4, <2>5, Zenon
<1>8. Word(Values(bytes)) = v.position[i][axis]
  <2> DEFINE values == Values(bytes)
  <2>1. DOMAIN bytes = 1 .. w
    BY <1>6, Zenon
  <2> HIDE DEF bytes
  <2>2. DOMAIN values = 1 .. w
    BY <2>1, Zenon DEF Values
  <2>3. \A m \in 1 .. w : values[m] = ByteOf(v.position[i][axis], m - 1)
    BY <1>6, <1>7, <2>1, Zenon DEF Values
  <2> HIDE DEF values
  <2>4. w \in 2 .. 4
    OBVIOUS
  <2>5. Word(values) = v.position[i][axis]
    BY <1>3, <2>2, <2>3, <2>4, WordOfBytes
  <2> QED BY <2>5, Zenon DEF values
<1>9. PositionWord(v, i, axis) = Word(Values(bytes))
  BY <1>2, <1>4, <1>5, Zenon DEF PositionWord
<1> QED BY <1>2, <1>3, <1>8, <1>9, Zenon

PositionFloat(v, word) ==
  IF v.header.version = 1 THEN HalfToFloat(word)
  ELSE Fixed24ToFloat(word, v.header.fractionalBits)

LEMMA PositionsDecoded ==
  ASSUME NEW v, Whole(v)
  PROVE  DecodedPositions(v)
           = [g \in 1 .. v.header.pointCount |-> [axis \in 1 .. 3 |->
                PositionFloat(v, v.position[g - 1][axis - 1])]]
<1>1. PICK c \in Nat : c = v.header.pointCount
  BY HeaderWidths DEF Whole, IsVersion
<1>2. ASSUME NEW g \in 1 .. v.header.pointCount, NEW axis \in 1 .. 3
      PROVE  (IF v.header.version = 1 THEN HalfToFloat(PositionWord(v, g - 1, axis - 1))
              ELSE Fixed24ToFloat(PositionWord(v, g - 1, axis - 1), v.header.fractionalBits))
             = PositionFloat(v, v.position[g - 1][axis - 1])
  <2>1. g - 1 \in 0 .. v.header.pointCount - 1 /\ axis - 1 \in 0 .. 2
    BY <1>1
  <2>2. PositionWord(v, g - 1, axis - 1) = v.position[g - 1][axis - 1]
    BY <2>1, PositionWordIs, Zenon
  <2> QED BY <2>2, Zenon DEF PositionFloat
<1>3. DecodedPositions(v)
        = [g \in 1 .. v.header.pointCount |-> [axis \in 1 .. 3 |->
             IF v.header.version = 1 THEN HalfToFloat(PositionWord(v, g - 1, axis - 1))
             ELSE Fixed24ToFloat(PositionWord(v, g - 1, axis - 1), v.header.fractionalBits)]]
  BY Zenon DEF DecodedPositions, PositionWord
<1> QED BY <1>2, <1>3, Zenon

FinitePositions(v) ==
  v.header.version = 1 =>
    \A g \in DOMAIN v.position : \A axis \in 0 .. 2 : HalfIsFinite(v.position[g][axis])

(* One value: not finite in a float16 at most, and else what the format    *)
(* means.                                                                  *)
LEMMA PositionFloatIs ==
  ASSUME NEW v, Whole(v), NEW i \in 0 .. v.header.pointCount - 1, NEW axis \in 0 .. 2,
         NEW word, word = v.position[i][axis]
  PROVE  /\ v.header.version # 1 => PositionFloat(v, word).finite
         /\ v.header.version = 1 => (PositionFloat(v, word).finite <=> HalfIsFinite(word))
         /\ PositionFloat(v, word).finite => PositionFloat(v, word) = Position(v, word)
<1>1. PICK w \in 2 .. 3 : /\ w = BytesPerPosition(v.header) \div 3
                          /\ w = 2 <=> v.header.version = 1
  BY PositionWidth DEF Whole, IsVersion
<1>2. word \in Words(w)
  BY <1>1, PositionWordIs, Zenon
<1>3. CASE v.header.version = 1
  <2>1. word \in Words(2)
    BY <1>1, <1>2, <1>3, Zenon
  <2> QED BY <2>1, <1>3, HalfConversion, Zenon DEF PositionFloat, Position
<1>4. CASE v.header.version # 1
  <2>1. w = 3
    BY <1>1, <1>4
  <2>2. word \in Words(3)
    BY <1>2, <2>1, Zenon
  <2>3. Fixed24ToFloat(word, v.header.fractionalBits)
          = FixedMeans(word, v.header.fractionalBits)
    BY <2>2, FixedConversion, Zenon
  <2>4. Fixed24ToFloat(word, v.header.fractionalBits).finite
    BY Zenon DEF Fixed24ToFloat
  <2> QED BY <1>4, <2>3, <2>4, Zenon DEF PositionFloat, Position
<1> QED BY <1>3, <1>4

LEMMA PositionsAre ==
  ASSUME NEW v, Whole(v)
  PROVE  /\ ArrayProblem("positions", v)
              = IF FinitePositions(v) THEN NoProblem ELSE "nonFinitePosition"
         /\ FinitePositions(v) =>
              /\ DecodedArray("positions", v) = CloudOf(v).positions
              /\ \A g \in 1 .. v.header.pointCount, axis \in 1 .. 3 :
                   CloudOf(v).positions[g][axis].finite
<1> DEFINE Float(g, axis) == PositionFloat(v, v.position[g - 1][axis - 1])
           count == v.header.pointCount
<1>1. PICK c \in Nat : c = v.header.pointCount
  BY HeaderWidths DEF Whole, IsVersion
<1>2. DecodedPositions(v) = [g \in 1 .. count |-> [axis \in 1 .. 3 |-> Float(g, axis)]]
  BY PositionsDecoded, Zenon
<1>3. ASSUME NEW g \in 1 .. count, NEW axis \in 1 .. 3
      PROVE  /\ v.header.version # 1 => Float(g, axis).finite
             /\ v.header.version = 1 =>
                  (Float(g, axis).finite <=> HalfIsFinite(v.position[g - 1][axis - 1]))
             /\ Float(g, axis).finite =>
                  Float(g, axis) = Position(v, v.position[g - 1][axis - 1])
  <2>1. g - 1 \in 0 .. v.header.pointCount - 1 /\ axis - 1 \in 0 .. 2
    BY <1>1
  <2> QED BY <2>1, PositionFloatIs, Zenon
<1>4. DOMAIN v.position = 0 .. count - 1
  BY Zenon DEF Whole, IsVersion
<1> DEFINE AllFinite == \A g \in 1 .. count, axis \in 1 .. 3 : Float(g, axis).finite
<1>5. AllFinite <=> FinitePositions(v)
  <2>1. ASSUME v.header.version = 1, AllFinite, NEW g \in DOMAIN v.position, NEW axis \in 0 .. 2
        PROVE  HalfIsFinite(v.position[g][axis])
    <3>1. g \in Int
      BY <1>1, <1>4, <2>1
    <3>2. PICK g1 \in 1 .. count : g1 = g + 1
      BY <1>1, <1>4, <2>1
    <3>3. PICK a1 \in 1 .. 3 : a1 = axis + 1
      OBVIOUS
    <3>4. g1 - 1 = g /\ a1 - 1 = axis
      BY <3>1, <3>2, <3>3
    <3>5. HalfIsFinite(v.position[g1 - 1][a1 - 1])
      BY <1>3, <2>1, Zenon
    <3> QED BY <3>4, <3>5, Zenon
  <2>2. ASSUME FinitePositions(v), NEW g \in 1 .. count, NEW axis \in 1 .. 3
        PROVE  Float(g, axis).finite
    <3>1. g - 1 \in 0 .. count - 1 /\ axis - 1 \in 0 .. 2
      BY <1>1
    <3> QED BY <1>3, <1>4, <2>2, <3>1, Zenon DEF FinitePositions
  <2>3. ASSUME v.header.version # 1
        PROVE  AllFinite /\ FinitePositions(v)
    BY <1>3, <2>3, Zenon DEF FinitePositions
  <2> QED BY <2>1, <2>2, <2>3, Zenon DEF FinitePositions
<1>6. v.header.version # 1 => AllFinite
  BY <1>3, Zenon
<1>7. \A g \in 1 .. count, axis \in 1 .. 3 : DecodedPositions(v)[g][axis] = Float(g, axis)
  <2> HIDE DEF Float
  <2> QED BY <1>2
<1> HIDE DEF Float
<1>8. ArrayProblem("positions", v)
        = Check(v.header.version = 1
                  /\ \E g \in 1 .. count, axis \in 1 .. 3 :
                       ~DecodedPositions(v)[g][axis].finite,
                "nonFinitePosition")
  BY DEF ArrayProblem
<1>9. (v.header.version = 1 /\ \E g \in 1 .. count, axis \in 1 .. 3 :
         ~DecodedPositions(v)[g][axis].finite) <=> ~FinitePositions(v)
  BY <1>5, <1>6, <1>7, Zenon
<1>10. ArrayProblem("positions", v)
         = IF FinitePositions(v) THEN NoProblem ELSE "nonFinitePosition"
  BY <1>8, <1>9, Zenon DEF Check
<1>11. CloudOf(v).positions = [g \in 1 .. count |-> [axis \in 1 .. 3 |->
                    Position(v, v.position[g - 1][axis - 1])]]
  BY Zenon DEF CloudOf
<1>12. ASSUME FinitePositions(v)
       PROVE  /\ DecodedArray("positions", v) = CloudOf(v).positions
              /\ \A g \in 1 .. count, axis \in 1 .. 3 : CloudOf(v).positions[g][axis].finite
  <2>1. \A g \in 1 .. count, axis \in 1 .. 3 :
          Float(g, axis) = Position(v, v.position[g - 1][axis - 1])
    BY <1>3, <1>5, <1>12, Zenon DEF Float
  <2>2. DecodedPositions(v) = CloudOf(v).positions
    BY <1>2, <1>11, <2>1, Zenon
  <2>3. DecodedArray("positions", v) = DecodedPositions(v)
    BY DEF DecodedArray
  <2> QED BY <1>5, <1>7, <1>12, <2>2, <2>3, Zenon
<1> QED BY <1>10, <1>12

(* ---- Rotations --------------------------------------------------------- *)

RotationBytes(d, i) ==
  Values(Bytes(d, Slices(d.header)[5], i * BytesPerRotation(d.header),
               BytesPerRotation(d.header)))

LEMMA RotationBytesAre ==
  ASSUME NEW v, Whole(v), NEW i \in 0 .. v.header.pointCount - 1
  PROVE  /\ DOMAIN RotationBytes(v, i) = 1 .. BytesPerRotation(v.header)
         /\ \A n \in 1 .. BytesPerRotation(v.header) :
              RotationBytes(v, i)[n] = ByteOf(v.rotation[i], n - 1)
<1>1. IsHeader(v.header)
  BY DEF Whole, IsVersion
<1>2. PICK w \in Nat : w = BytesPerRotation(v.header)
  BY <1>1, HeaderWidths
<1> DEFINE bytes == Bytes(v, Slices(v.header)[5], i * w, w)
<1>3. bytes = Bytewise(v, "rotations", 0, w, i)
  <2>1. w = StreamWidth(v.header)[Stream[5]] /\ Stream[5] = "rotations"
    BY <1>2, WidthsOf, Zenon
  <2>2. PICK offset : offset = i * w
    OBVIOUS
  <2>3. IsPlace(offset, i, w, 0)
    <3>1. i * w = i * w + 0
      <4>1. i * w \in Nat
        OBVIOUS
      <4> QED BY <4>1
    <3> QED BY <2>2, <3>1, Zenon DEF IsPlace
  <2>4. \A k \in 1 .. 6 : w = StreamWidth(v.header)[Stream[k]] =>
          Bytes(v, Slices(v.header)[k], offset, w) = Bytewise(v, Stream[k], 0, w, i)
    <3> HIDE <2>2
    <3> QED BY <1>1, <2>3, BytesAre
  <2>5. 5 \in 1 .. 6
    OBVIOUS
  <2> QED BY <2>1, <2>2, <2>4, <2>5, Zenon
<1>4. DOMAIN bytes = 1 .. w
  BY <1>3, Zenon DEF Bytewise
<1>5. ASSUME NEW n \in 1 .. w
      PROVE  bytes[n].value = ByteOf(v.rotation[i], n - 1)
  <2>1. bytes[n] = StoredByte(v, "rotations", i, 0 + n - 1)
    BY <1>3, Zenon DEF Bytewise
  <2>2. 0 + n - 1 = n - 1
    OBVIOUS
  <2>3. StoredByte(v, "rotations", i, n - 1).value = ByteOf(v.rotation[i], n - 1)
    <3>1. PICK b : b = n - 1
      OBVIOUS
    <3>2. StoredByte(v, "rotations", i, b).value = ByteOf(v.rotation[i], b)
      BY DEF StoredByte
    <3> QED BY <3>1, <3>2, Zenon
  <2> QED BY <2>1, <2>2, <2>3, Zenon
<1>6. RotationBytes(v, i) = Values(bytes)
  BY <1>2, Zenon DEF RotationBytes
<1> HIDE DEF bytes
<1> QED BY <1>2, <1>4, <1>5, <1>6, Zenon DEF Values

UnpackedRotation(v, i) ==
  IF v.header.version >= 3 THEN UnpackRotationSmallestThree(Word(RotationBytes(v, i)))
  ELSE UnpackRotationFirstThree(RotationBytes(v, i))

LEMMA UnpackedRotationMeans ==
  ASSUME NEW v, Whole(v), NEW i \in 0 .. v.header.pointCount - 1
  PROVE  RotationMeans(UnpackedRotation(v, i), Turn(v, v.rotation[i]))
<1> DEFINE bytes == RotationBytes(v, i)
           word == v.rotation[i]
<1>1. IsHeader(v.header) /\ v.header.version \in 1 .. 3
  BY DEF Whole, IsVersion, IsHeader
<1>2. word \in Words(BytesPerRotation(v.header))
  BY Zenon DEF Whole, IsVersion
<1>3. CASE v.header.version >= 3
  <2>1. v.header.version = 3
    BY <1>1, <1>3
  <2>2. BytesPerRotation(v.header) = 4
    BY <1>3 DEF BytesPerRotation
  <2>3. Word(bytes) = word
    <3>1. 4 \in 2 .. 4
      OBVIOUS
    <3>2. \A w \in 2 .. 4 : w = BytesPerRotation(v.header) => Word(bytes) = word
      <4> SUFFICES ASSUME NEW w \in 2 .. 4, w = BytesPerRotation(v.header)
                   PROVE  Word(bytes) = word
        OBVIOUS
      <4>1. word \in Words(w) /\ DOMAIN bytes = 1 .. w
            /\ \A n \in 1 .. w : bytes[n] = ByteOf(word, n - 1)
        BY <1>2, RotationBytesAre, Zenon
      <4> HIDE DEF bytes, word
      <4> QED BY <4>1, WordOfBytes
    <3> QED BY <2>2, <3>1, <3>2, Zenon
  <2>4. word \in Words(4)
    BY <1>2, <2>2, Zenon
  <2>5. RotationMeans(UnpackRotationSmallestThree(word), SmallestThreeMeans(word))
    BY <2>4, SmallestThreeRotation, Zenon
  <2> QED BY <1>3, <2>1, <2>3, <2>5, Zenon DEF UnpackedRotation, Turn
<1>4. CASE ~(v.header.version >= 3)
  <2>1. v.header.version # 3
    BY <1>1, <1>4
  <2>2. BytesPerRotation(v.header) = 3
    BY <1>4 DEF BytesPerRotation
  <2>3. \A n \in 1 .. 3 : bytes[n] = ByteOf(word, n - 1)
    <3>1. \A n \in 1 .. BytesPerRotation(v.header) : bytes[n] = ByteOf(word, n - 1)
      BY RotationBytesAre, Zenon
    <3> QED BY <2>2, <3>1, Zenon
  <2>4. \A n \in 1 .. 3 : ByteOf(word, n - 1) \in Int
    <3> SUFFICES ASSUME NEW n \in 1 .. 3
                 PROVE  ByteOf(word, n - 1) \in Int
      OBVIOUS
    <3>1. PICK p \in Nat : p = 2^(ByteBits * (n - 1)) /\ p >= 1
      <4>1. ByteBits * (n - 1) \in Nat
        <5>1. n = 1 \/ n = 2 \/ n = 3
          OBVIOUS
        <5>2. ByteBits \in Nat
          BY BytePowers
        <5>3. ByteBits * 0 \in Nat /\ ByteBits * 1 \in Nat /\ ByteBits * 2 \in Nat
          BY <5>2
        <5>4. 1 - 1 = 0 /\ 2 - 1 = 1 /\ 3 - 1 = 2
          OBVIOUS
        <5> QED BY <5>1, <5>3, <5>4, Zenon
      <4> QED BY <4>1, PowerFacts
    <3>2. PICK q \in Nat : q = 2^ByteBits /\ q >= 1
      BY BytePowers
    <3>3. word \in Nat
      <4>1. PICK top : top = 2^(ByteBits * BytesPerRotation(v.header)) - 1
        OBVIOUS
      <4>2. word \in 0 .. top
        BY <1>2, <4>1, Zenon DEF Words
      <4> QED BY <4>2
    <3>4. PICK d \in Nat : d = word \div p
      BY <3>1, <3>3, DivisionFacts
    <3>5. d % q \in Int
      BY <3>2, DivisionFacts
    <3> QED BY <3>1, <3>2, <3>4, <3>5, Zenon DEF ByteOf
  <2> DEFINE means == [n \in 1 .. 3 |-> ByteOf(word, n - 1)]
  <2>5. \A n \in 1 .. 3 : bytes[n] \in Int /\ means[n] = bytes[n]
    BY <2>3, <2>4, Zenon
  <2> HIDE DEF means, bytes, word
  <2>6. RotationMeans(UnpackRotationFirstThree(bytes), FirstThreeMeans(means))
    BY <2>5, FirstThreeRotation
  <2>7. UnpackedRotation(v, i) = UnpackRotationFirstThree(bytes)
    BY <1>4, Zenon DEF UnpackedRotation, bytes
  <2>8. Turn(v, v.rotation[i]) = FirstThreeMeans(means)
    BY <2>1, Zenon DEF Turn, means, word
  <2> QED BY <2>6, <2>7, <2>8, Zenon
<1> QED BY <1>3, <1>4

LEMMA RotationsAre ==
  ASSUME NEW v, Whole(v)
  PROVE  /\ ArrayProblem("rotations", v) = NoProblem
         /\ DecodedArray("rotations", v) = CloudOf(v).rotations
         /\ \A g \in 1 .. v.header.pointCount : IsNormalized(CloudOf(v).rotations[g])
<1> DEFINE count == v.header.pointCount
           q == DecodedRotations(v)
           Normal(g) == NormalizeQuaternion(q[g][3], q[g][0], q[g][1], q[g][2])
<1>1. PICK c \in Nat : c = v.header.pointCount
  BY HeaderWidths DEF Whole, IsVersion
<1>2. q = [g \in 1 .. count |-> UnpackedRotation(v, g - 1)]
  BY Zenon DEF DecodedRotations, UnpackedRotation, RotationBytes
<1>3. ASSUME NEW g \in 1 .. count
      PROVE  /\ q[g] = UnpackedRotation(v, g - 1)
             /\ RotationMeans(UnpackedRotation(v, g - 1), Turn(v, v.rotation[g - 1]))
  <2>1. g - 1 \in 0 .. v.header.pointCount - 1
    BY <1>1
  <2>2. q[g] = UnpackedRotation(v, g - 1)
    <3> HIDE DEF q
    <3> QED BY <1>2
  <2> HIDE DEF q
  <2> QED BY <2>1, <2>2, UnpackedRotationMeans, Zenon
<1>4. CloudOf(v).rotations = [g \in 1 .. count |-> Turn(v, v.rotation[g - 1])]
  BY DEF CloudOf
<1>5. DecodedArray("rotations", v) = [g \in DOMAIN q |-> Normal(g)]
  <2>1. "rotations" # "positions" /\ "rotations" # "opacities" /\ "rotations" # "scales"
        /\ "rotations" # "dcCoefficients"
    OBVIOUS
  <2> QED BY <2>1, Zenon DEF DecodedArray
<1>6. ArrayProblem("rotations", v)
        = Check(\E g \in 1 .. count : ~Normalizable(q[g]), "internalError")
  <2>1. "rotations" # "positions"
    OBVIOUS
  <2> QED BY <2>1, Zenon DEF ArrayProblem
<1> HIDE DEF q
<1>7. ASSUME NEW g \in 1 .. count
      PROVE  /\ Normalizable(q[g])
             /\ Normal(g) = Turn(v, v.rotation[g - 1])
             /\ IsNormalized(Turn(v, v.rotation[g - 1]))
  BY <1>3, Zenon DEF RotationMeans
<1>8. DOMAIN q = 1 .. count
  BY <1>2, Zenon
<1>9. ArrayProblem("rotations", v) = NoProblem
  BY <1>6, <1>7, Zenon DEF Check
<1>10. DecodedArray("rotations", v) = CloudOf(v).rotations
  BY <1>4, <1>5, <1>7, <1>8, Zenon
<1>11. \A g \in 1 .. count : CloudOf(v).rotations[g] = Turn(v, v.rotation[g - 1])
  BY <1>4
<1> QED BY <1>7, <1>9, <1>10, <1>11, Zenon

(* The place of an interleaved element is unique.                          *)
IsPlaceOf(count, each, n, g, x) ==
  /\ g - 1 = (n - 1) \div each /\ x - 1 = (n - 1) % each
  /\ \A p \in (1 .. count) \X (1 .. each) :
       n = (p[1] - 1) * each + p[2] <=> p = <<g, x>>

LEMMA PlaceOf ==
  ASSUME NEW count \in Nat, NEW each \in Nat, NEW n \in 1 .. count * each
  PROVE  \E g \in 1 .. count, x \in 1 .. each : IsPlaceOf(count, each, n, g, x)
<1>1. PICK total \in Nat : total = count * each
  OBVIOUS
<1>2. PICK m \in Nat : m = n - 1 /\ m < total /\ n = m + 1
  BY <1>1
<1>3. each >= 1
  <2>1. each = 0 => total = 0
    BY <1>1
  <2> QED BY <1>2, <2>1
<1>4. PICK d \in Nat, r \in Nat : d = m \div each /\ r = m % each /\ r < each /\ m = d * each + r
  BY <1>3, Divided
<1>5. d < count
  <2>1. m < each * count
    <3>1. count * each = each * count
      OBVIOUS
    <3> QED BY <1>1, <1>2, <3>1
  <2>2. m \div each < count
    BY <1>3, <2>1, QuotientBelow
  <2> QED BY <1>4, <2>2, Zenon
<1>6. PICK g \in 1 .. count : g = d + 1
  BY <1>5
<1>7. PICK x \in 1 .. each : x = r + 1
  BY <1>4
<1>8. g - 1 = d /\ x - 1 = r
  BY <1>6, <1>7
<1>9. (g - 1) * each + x = n
  <2>1. PICK k \in Nat : k = d * each
    OBVIOUS
  <2>2. k + x = n
    BY <1>2, <1>4, <1>7, <2>1
  <2> QED BY <1>8, <2>1, <2>2, Zenon
<1>10. ASSUME NEW h \in 1 .. count, NEW y \in 1 .. each, n = (h - 1) * each + y
       PROVE  h = g /\ y = x
  <2>1. PICK i \in Nat : i = h - 1 /\ h = i + 1
    OBVIOUS
  <2>2. PICK s \in Nat : s = y - 1 /\ s < each /\ y = s + 1
    OBVIOUS
  <2>3. m = i * each + s
    <3>1. PICK k \in Nat : k = i * each
      OBVIOUS
    <3>2. n = k + y
      BY <1>10, <2>1, <3>1, Zenon
    <3>3. m = k + s
      BY <1>2, <2>2, <3>2
    <3> QED BY <3>1, <3>3, Zenon
  <2>4. (i * each + s) \div each = i /\ (i * each + s) % each = s
    BY <2>2, DivisionIsUnique
  <2>5. d = i /\ r = s
    BY <1>4, <2>3, <2>4, Zenon
  <2> QED BY <1>6, <1>7, <2>1, <2>2, <2>5
<1>11. ASSUME NEW p \in (1 .. count) \X (1 .. each)
       PROVE  n = (p[1] - 1) * each + p[2] <=> p = <<g, x>>
  <2>1. PICK h \in 1 .. count, y \in 1 .. each : p = <<h, y>>
    OBVIOUS
  <2>2. p[1] = h /\ p[2] = y
    BY <2>1
  <2>3. n = (h - 1) * each + y <=> h = g /\ y = x
    BY <1>9, <1>10, Zenon
  <2>4. p = <<g, x>> <=> h = g /\ y = x
    BY <2>1
  <2> QED BY <2>2, <2>3, <2>4, Zenon
<1>12. d = (n - 1) \div each /\ r = (n - 1) % each
  BY <1>2, <1>4, Zenon
<1> QED BY <1>8, <1>11, <1>12, Zenon DEF IsPlaceOf

LEMMA RestIs ==
  ASSUME NEW v, Whole(v)
  PROVE  DecodedRest(v) = RestOf(v)
<1>1. IsHeader(v.header)
  BY DEF Whole, IsVersion
<1> DEFINE c == v.header.pointCount
           e == ShDimensions(v.header)
<1>2. c \in Nat /\ e \in Nat
  BY <1>1, HeaderWidths
<1> DEFINE Rest(g, x) == Bytewise(v, "sh", 3 * (x - 1), 3, g - 1)
           Decoded(n) == Bytes(v, Slices(v.header)[6],
                               (((n - 1) \div e) * e + ((n - 1) % e)) * 3, 3)
           Placed(n) == LET place == CHOOSE p \in (1 .. c) \X (1 .. e) :
                                       n = (p[1] - 1) * e + p[2]
                        IN  Rest(place[1], place[2])
<1>3. DecodedRest(v) = [n \in 1 .. c * e |-> Decoded(n)]
  BY DEF DecodedRest
<1>4. RestOf(v) = [n \in 1 .. c * e |-> Placed(n)]
  BY Zenon DEF RestOf, Interleaved
<1> HIDE DEF c, e
<1>5. ASSUME NEW n \in 1 .. c * e
      PROVE  Decoded(n) = Placed(n)
  <2>0. PICK g \in 1 .. c, x \in 1 .. e : IsPlaceOf(c, e, n, g, x)
    BY <1>2, PlaceOf
  <2>1. /\ g - 1 = (n - 1) \div e /\ x - 1 = (n - 1) % e
        /\ \A p \in (1 .. c) \X (1 .. e) :
             n = (p[1] - 1) * e + p[2] <=> p = <<g, x>>
    BY <2>0, Zenon DEF IsPlaceOf
  <2>2. Placed(n) = Rest(g, x)
    <3> DEFINE place == CHOOSE p \in (1 .. c) \X (1 .. e) : n = (p[1] - 1) * e + p[2]
    <3>1. <<g, x>> \in (1 .. c) \X (1 .. e)
      OBVIOUS
    <3>2. place = <<g, x>>
      BY <2>1, <3>1, Zenon
    <3>3. <<g, x>>[1] = g /\ <<g, x>>[2] = x
      OBVIOUS
    <3>4. Placed(n) = Rest(place[1], place[2])
      OBVIOUS
    <3> HIDE DEF place, Placed
    <3> QED BY <3>2, <3>3, <3>4, Zenon
  <2>3. PICK i \in Nat : i = g - 1 /\ i \in 0 .. c - 1
    BY <1>2
  <2>4. PICK y \in Nat : y = x - 1 /\ y < e
    BY <1>2
  <2>5. PICK w \in Nat : w = 3 * e
    BY <1>2
  <2>6. PICK from \in Nat : from = 3 * y /\ from + 3 <= w
    BY <1>2, <2>4, <2>5
  <2>7. PICK offset : offset = (i * e + y) * 3
    OBVIOUS
  <2>8. IsPlace(offset, i, w, from)
    <3>1. (i * e + y) * 3 = i * (3 * e) + 3 * y
      <4>1. PICK k \in Nat : k = i * e
        BY <1>2
      <4>2. i * (3 * e) = 3 * k
        BY <1>2, <4>1
      <4>3. (k + y) * 3 = 3 * k + 3 * y
        OBVIOUS
      <4> QED BY <4>1, <4>2, <4>3, Zenon
    <3> QED BY <2>5, <2>6, <2>7, <3>1, Zenon DEF IsPlace
  <2>9. Bytes(v, Slices(v.header)[6], offset, 3) = Bytewise(v, "sh", from, 3, i)
    <3>1. w = StreamWidth(v.header)[Stream[6]] /\ Stream[6] = "sh"
      BY <2>5, WidthsOf, Zenon DEF e
    <3>2. i \in 0 .. v.header.pointCount - 1
      BY <2>3, Zenon DEF c
    <3>3. \A k \in 1 .. 6 : w = StreamWidth(v.header)[Stream[k]] =>
            \A three \in Nat : from + three <= w =>
              Bytes(v, Slices(v.header)[k], offset, three)
                = Bytewise(v, Stream[k], from, three, i)
      <4> HIDE <2>7, <2>1, <2>3, <2>4, <2>5
      <4> QED BY <1>1, <2>8, <3>2, BytesAre
    <3>4. 6 \in 1 .. 6 /\ 3 \in Nat
      OBVIOUS
    <3> QED BY <2>6, <3>1, <3>3, <3>4, Zenon
  <2>10. Decoded(n) = Bytes(v, Slices(v.header)[6], offset, 3)
    BY <2>1, <2>3, <2>4, <2>7, Zenon
  <2>11. Rest(g, x) = Bytewise(v, "sh", from, 3, i)
    BY <2>3, <2>4, <2>6, Zenon
  <2> QED BY <2>2, <2>9, <2>10, <2>11, Zenon
<1> HIDE DEF Decoded, Placed
<1> QED BY <1>3, <1>4, <1>5, Zenon

Name == {"positions", "opacities", "scales", "dcCoefficients", "rotations",
         "restCoefficients"}

(* Every array is what the format places there, and only a float16         *)
(* position can be amiss.                                                  *)
LEMMA ArraysAre ==
  ASSUME NEW v, Whole(v), NEW name \in Name
  PROVE  /\ ArrayProblem(name, v)
              = IF name = "positions" /\ ~FinitePositions(v)
                THEN "nonFinitePosition" ELSE NoProblem
         /\ ArrayProblem(name, v) = NoProblem =>
              DecodedArray(name, v) = CloudOf(v)[name]
<1>1. IsHeader(v.header)
  BY DEF Whole, IsVersion
<1>2. ASSUME NEW k \in 2 .. 4, NEW w \in Nat, w = StreamWidth(v.header)[Stream[k]]
      PROVE  DecodedBytes(v, k, w)
               = [g \in 1 .. v.header.pointCount |-> Bytewise(v, Stream[k], 0, w, g - 1)]
  <2>1. k \in 1 .. 6
    OBVIOUS
  <2> QED BY <1>1, <1>2, <2>1, BytesDecoded, Zenon
<1>3. CASE name = "positions"
  <2>1. NoProblem # "nonFinitePosition"
    BY DEF NoProblem
  <2>2. CloudOf(v)[name] = CloudOf(v).positions
    BY <1>3
  <2> QED BY <1>3, <2>1, <2>2, PositionsAre, Zenon
<1>4. CASE name = "rotations"
  <2>1. name # "positions" /\ CloudOf(v)[name] = CloudOf(v).rotations
    BY <1>4
  <2> QED BY <1>4, <2>1, RotationsAre, Zenon
<1>5. CASE name = "opacities"
  <2>1. DecodedArray(name, v) = DecodedBytes(v, 2, 1) /\ ArrayProblem(name, v) = NoProblem
    BY <1>5 DEF DecodedArray, ArrayProblem
  <2>2. CloudOf(v)[name] = [g \in 1 .. v.header.pointCount |-> Bytewise(v, "alphas", 0, 1, g - 1)]
    BY <1>5 DEF CloudOf
  <2>3. 2 \in 2 .. 4 /\ 1 \in Nat /\ name # "positions"
    BY <1>5
  <2>4. 1 = StreamWidth(v.header)[Stream[2]] /\ Stream[2] = "alphas"
    BY WidthsOf, Zenon
  <2>5. DecodedBytes(v, 2, 1)
          = [g \in 1 .. v.header.pointCount |-> Bytewise(v, "alphas", 0, 1, g - 1)]
    BY <1>2, <2>3, <2>4, Zenon
  <2> QED BY <2>1, <2>2, <2>3, <2>5, Zenon
<1>6. CASE name = "scales"
  <2>1. DecodedArray(name, v) = DecodedBytes(v, 4, 3) /\ ArrayProblem(name, v) = NoProblem
    BY <1>6 DEF DecodedArray, ArrayProblem
  <2>2. CloudOf(v)[name] = [g \in 1 .. v.header.pointCount |-> Bytewise(v, "scales", 0, 3, g - 1)]
    BY <1>6 DEF CloudOf
  <2>3. 4 \in 2 .. 4 /\ 3 \in Nat /\ name # "positions"
    BY <1>6
  <2>4. 3 = StreamWidth(v.header)[Stream[4]] /\ Stream[4] = "scales"
    BY WidthsOf, Zenon
  <2>5. DecodedBytes(v, 4, 3)
          = [g \in 1 .. v.header.pointCount |-> Bytewise(v, "scales", 0, 3, g - 1)]
    BY <1>2, <2>3, <2>4, Zenon
  <2> QED BY <2>1, <2>2, <2>3, <2>5, Zenon
<1>7. CASE name = "dcCoefficients"
  <2>1. DecodedArray(name, v) = DecodedBytes(v, 3, 3) /\ ArrayProblem(name, v) = NoProblem
    BY <1>7 DEF DecodedArray, ArrayProblem
  <2>2. CloudOf(v)[name] = [g \in 1 .. v.header.pointCount |-> Bytewise(v, "colors", 0, 3, g - 1)]
    BY <1>7 DEF CloudOf
  <2>3. 3 \in 2 .. 4 /\ 3 \in Nat /\ name # "positions"
    BY <1>7
  <2>4. 3 = StreamWidth(v.header)[Stream[3]] /\ Stream[3] = "colors"
    BY WidthsOf, Zenon
  <2>5. DecodedBytes(v, 3, 3)
          = [g \in 1 .. v.header.pointCount |-> Bytewise(v, "colors", 0, 3, g - 1)]
    BY <1>2, <2>3, <2>4, Zenon
  <2> QED BY <2>1, <2>2, <2>3, <2>5, Zenon
<1>8. CASE name = "restCoefficients"
  <2>1. DecodedArray(name, v) = DecodedRest(v) /\ ArrayProblem(name, v) = NoProblem
    BY <1>8 DEF DecodedArray, ArrayProblem
  <2>2. CloudOf(v)[name] = RestOf(v)
    BY <1>8 DEF CloudOf
  <2>3. name # "positions"
    BY <1>8
  <2> QED BY <2>1, <2>2, <2>3, RestIs, Zenon
<1> QED BY <1>3, <1>4, <1>5, <1>6, <1>7, <1>8 DEF Name

(* ---- The shared gate --------------------------------------------------- *)

LEMMA FirstOfTwo ==
  ASSUME NEW a, NEW b
  PROVE  FirstFailure(<<a, b>>) = IF a # NoProblem THEN a ELSE b
<1> DEFINE codes == <<a, b>>
           failing == {n \in DOMAIN codes : codes[n] # NoProblem}
           first == CHOOSE n \in failing : \A m \in failing : n <= m
<1>1. DOMAIN codes = {1, 2} /\ codes[1] = a /\ codes[2] = b
  OBVIOUS
<1>2. FirstFailure(codes) = IF failing = {} THEN NoProblem ELSE codes[first]
  BY DEF FirstFailure
<1> HIDE DEF codes
<1>3. CASE a # NoProblem
  <2>1. 1 \in failing /\ \A m \in failing : 1 <= m
    BY <1>1, <1>3
  <2>2. \A n \in failing : (\A m \in failing : n <= m) => n = 1
    BY <1>1, <2>1
  <2>3. first = 1
    <3> HIDE DEF failing
    <3> QED BY <2>1, <2>2
  <2> HIDE DEF first
  <2> QED BY <1>1, <1>2, <1>3, <2>1, <2>3 DEF codes
<1>4. CASE a = NoProblem /\ b # NoProblem
  <2>1. failing = {2}
    BY <1>1, <1>4
  <2>2. first = 2
    <3> HIDE DEF failing
    <3> QED BY <2>1
  <2> HIDE DEF first, failing
  <2> QED BY <1>1, <1>2, <1>4, <2>1, <2>2 DEF codes
<1>5. CASE a = NoProblem /\ b = NoProblem
  <2>1. failing = {}
    BY <1>1, <1>5
  <2> HIDE DEF first, failing
  <2> QED BY <1>2, <1>5, <2>1 DEF codes
<1> QED BY <1>3, <1>4, <1>5

LEMMA DegreesAreInferred ==
  ASSUME NEW d \in 0 .. 3
  PROVE  /\ InferShDegree(CoefficientsPerGaussian(d)) = d
         /\ RestPerGaussian(d) \in Nat
<1>1. ASSUME NEW t \in 1 .. 4, NEW n \in Nat, n = t * t
      PROVE  InferShDegree(n) = t - 1
  <2>1. t \in 1 .. n /\ IsRoundedRoot(t, n)
    <3>1. t = 1 \/ t = 2 \/ t = 3 \/ t = 4
      OBVIOUS
    <3> QED BY <1>1, <3>1 DEF IsRoundedRoot
  <2>2. ASSUME NEW s \in 1 .. n, IsRoundedRoot(s, n) PROVE s = t
    <3>1. s \in Nat /\ s >= 1 /\ s * s - s < t * t /\ t * t <= s * s + s
      BY <1>1, <2>2 DEF IsRoundedRoot
    <3>2. ~(s < t)
      <4> SUFFICES ASSUME s < t PROVE FALSE
        OBVIOUS
      <4>1. PICK j \in Nat : t = s + 1 + j
        <5>1. t - s - 1 \in Nat /\ t = s + 1 + (t - s - 1)
          BY <3>1
        <5> QED BY <5>1
      <4>2. t * t = s * s + s + s + 1 + j * (s + 1) + j * (s + 1) + j * j
        BY <3>1, <4>1
      <4>3. j * (s + 1) \in Nat /\ j * j \in Nat /\ s * s \in Nat
        BY <3>1
      <4> QED BY <3>1, <4>2, <4>3
    <3>3. ~(s > t)
      <4> SUFFICES ASSUME s > t PROVE FALSE
        OBVIOUS
      <4>1. PICK j \in Nat : s = t + 1 + j
        <5>1. s - t - 1 \in Nat /\ s = t + 1 + (s - t - 1)
          BY <3>1
        <5> QED BY <5>1
      <4>2. s * s - s = t * t + t + j * (t + 1) + j * t + j * j
        BY <3>1, <4>1
      <4>3. j * (t + 1) \in Nat /\ j * t \in Nat /\ j * j \in Nat /\ t * t \in Nat
        BY <3>1
      <4> QED BY <3>1, <4>2, <4>3
    <3> QED BY <3>1, <3>2, <3>3
  <2>3. (CHOOSE side \in 1 .. n : IsRoundedRoot(side, n)) = t
    BY <2>1, <2>2
  <2>4. \E side \in 1 .. n : IsRoundedRoot(side, n) /\ side * side = n
    BY <1>1, <2>1, Zenon
  <2> QED BY <2>3, <2>4, Zenon DEF InferShDegree
<1>2. d + 1 \in 1 .. 4 /\ (d + 1) - 1 = d
  OBVIOUS
<1>3. (d + 1) * (d + 1) \in Nat /\ (d + 1) * (d + 1) >= 1
  <2>1. d = 0 \/ d = 1 \/ d = 2 \/ d = 3
    OBVIOUS
  <2> QED BY <2>1
<1>4. CoefficientsPerGaussian(d) = (d + 1) * (d + 1)
  BY DEF CoefficientsPerGaussian
<1>5. RestPerGaussian(d) \in Nat
  <2>1. PICK n \in Nat : n = (d + 1) * (d + 1) /\ n >= 1
    BY <1>3
  <2>2. n - 1 \in Nat
    BY <2>1
  <2> QED BY <1>4, <2>1, <2>2, Zenon DEF RestPerGaussian
<1>6. InferShDegree((d + 1) * (d + 1)) = d
  <2>1. PICK t \in 1 .. 4 : t = d + 1 /\ t - 1 = d
    BY <1>2
  <2>2. PICK n \in Nat : n = t * t
    BY <1>3, <2>1
  <2>3. InferShDegree(n) = t - 1
    BY <1>1, <2>2
  <2> QED BY <2>1, <2>2, <2>3, Zenon
<1> QED BY <1>4, <1>5, <1>6, Zenon

(* The lengths of the cloud the file stands for.                           *)
LEMMA CloudLengths ==
  ASSUME NEW v, IsHeader(v.header)
  PROVE  LET count == v.header.pointCount
             c     == CloudOf(v)
         IN  /\ Len(c.positions) = count /\ Len(c.scales) = count
             /\ Len(c.rotations) = count /\ Len(c.opacities) = count
             /\ Len(c.dcCoefficients) = count
             /\ Len(c.restCoefficients) = count * ShDimensions(v.header)
             /\ DOMAIN c.positions = 1 .. count /\ DOMAIN c.rotations = 1 .. count
<1>1. PICK count \in Nat, e \in Nat : count = v.header.pointCount /\ e = ShDimensions(v.header)
  BY HeaderWidths
<1>3. PICK rest \in Nat : rest = count * e
  OBVIOUS
<1> DEFINE c == CloudOf(v)
<1>4. c.positions = [g \in 1 .. count |-> [axis \in 1 .. 3 |->
                    Position(v, v.position[g - 1][axis - 1])]]
  BY <1>1, Zenon DEF CloudOf
<1>5. c.opacities = [g \in 1 .. count |-> Bytewise(v, "alphas", 0, 1, g - 1)]
  BY <1>1, Zenon DEF CloudOf
<1>6. c.scales = [g \in 1 .. count |-> Bytewise(v, "scales", 0, 3, g - 1)]
  BY <1>1, Zenon DEF CloudOf
<1>7. c.dcCoefficients = [g \in 1 .. count |-> Bytewise(v, "colors", 0, 3, g - 1)]
  BY <1>1, Zenon DEF CloudOf
<1>8. c.rotations = [g \in 1 .. count |-> Turn(v, v.rotation[g - 1])]
  BY <1>1, Zenon DEF CloudOf
<1>9. c.restCoefficients = RestOf(v)
  BY Zenon DEF CloudOf
<1>10. \E F : c.restCoefficients = [n \in 1 .. rest |-> F[n]]
  <2> DEFINE Rest(g, x) == Bytewise(v, "sh", 3 * (x - 1), 3, g - 1)
             Placed(n) ==
               LET place == CHOOSE p \in (1 .. v.header.pointCount)
                                           \X (1 .. ShDimensions(v.header)) :
                              n = (p[1] - 1) * ShDimensions(v.header) + p[2]
               IN  Rest(place[1], place[2])
  <2>1. RestOf(v) = [n \in 1 .. v.header.pointCount * ShDimensions(v.header) |-> Placed(n)]
    BY Zenon DEF RestOf, Interleaved
  <2> HIDE DEF Placed
  <2>2. RestOf(v) = [n \in 1 .. rest |-> Placed(n)]
    BY <1>1, <1>3, <2>1, Zenon
  <2>3. RestOf(v) = [n \in 1 .. rest |-> RestOf(v)[n]]
    BY <2>2, Zenon
  <2> QED BY <1>9, <2>3, Zenon
<1> HIDE DEF c
<1>11. Len(c.positions) = count /\ DOMAIN c.positions = 1 .. count
  BY <1>4
<1>12. Len(c.opacities) = count
  BY <1>5
<1>13. Len(c.scales) = count
  BY <1>6
<1>14. Len(c.dcCoefficients) = count
  BY <1>7
<1>15. Len(c.rotations) = count /\ DOMAIN c.rotations = 1 .. count
  BY <1>8
<1>16. Len(c.restCoefficients) = rest
  BY <1>10
<1> QED BY <1>1, <1>3, <1>11, <1>12, <1>13, <1>14, <1>15, <1>16, Zenon DEF c

LEMMA GatePasses ==
  ASSUME NEW v, Whole(v), FinitePositions(v), v.header.shDegree <= kMaxShDegree
  PROVE  Gate(CloudOf(v), v.header)
<1> DEFINE h == v.header
           c == CloudOf(v)
           length == [name \in Array |-> Len(c[name])]
           numeric == /\ \A g \in DOMAIN c.positions, axis \in 1 .. 3 :
                           c.positions[g][axis].finite
                      /\ \A g \in DOMAIN c.rotations : IsNormalized(c.rotations[g])
           shape == [count |-> h.pointCount, shDegree |-> h.shDegree,
                     length |-> length, numeric |-> numeric]
<1>1. IsHeader(h)
  BY DEF Whole, IsVersion
<1>2. PICK count \in Nat : count = h.pointCount /\ count >= 1
  BY <1>1, HeaderWidths
<1>3. PICK d \in 0 .. 3 : d = h.shDegree
  BY <1>1 DEF IsHeader, kMaxShDegree, kSpecMaxShDegree
<1>4. numeric
  <2>1. DOMAIN c.positions = 1 .. count /\ DOMAIN c.rotations = 1 .. count
    BY <1>1, <1>2, CloudLengths, Zenon
  <2>2. \A g \in 1 .. count, axis \in 1 .. 3 : c.positions[g][axis].finite
    BY <1>2, PositionsAre, Zenon
  <2>3. \A g \in 1 .. count : IsNormalized(c.rotations[g])
    BY <1>2, RotationsAre, Zenon
  <2> QED BY <2>1, <2>2, <2>3, Zenon
<1>5. \A k \in Column : length[k] = count
  <2>1. /\ Len(c["positions"]) = count /\ Len(c["scales"]) = count
        /\ Len(c["rotations"]) = count /\ Len(c["opacities"]) = count
        /\ Len(c["dcCoefficients"]) = count
    BY <1>1, <1>2, CloudLengths, Zenon
  <2> HIDE DEF c
  <2>2. \A k \in Column : length[k] = Len(c[k])
    BY DEF Array
  <2> HIDE DEF length
  <2> QED BY <2>1, <2>2 DEF Column
<1>6. length["restCoefficients"] = count * RestPerGaussian(d)
  <2>1. Len(c["restCoefficients"]) = count * ShDimensions(h)
    BY <1>1, <1>2, CloudLengths, Zenon
  <2>2. ShDimensions(h) = RestPerGaussian(d)
    BY <1>3, Zenon DEF ShDimensions, RestPerGaussian, CoefficientsPerGaussian
  <2>3. length["restCoefficients"] = Len(c["restCoefficients"])
    <3> HIDE DEF c
    <3> QED BY DEF Array
  <2> QED BY <2>1, <2>2, <2>3, Zenon
<1> HIDE DEF length, numeric
<1>7. shape.count = count /\ shape.shDegree = d /\ shape.length = length
      /\ (shape.numeric <=> numeric)
  BY <1>2, <1>3
<1> HIDE DEF shape
<1>8. ColumnLengthsMatch(shape)
  BY <1>5, <1>7, Zenon DEF ColumnLengthsMatch
<1>9. ShDegreeIsValid(shape)
  <2>1. d >= 0 /\ d <= kMaxShDegree
    BY DEF kMaxShDegree
  <2>2. InferShDegree(CoefficientsPerGaussian(d)) = d
    BY DegreesAreInferred, Zenon
  <2> QED BY <1>7, <2>1, <2>2, Zenon DEF ShDegreeIsValid
<1>10. RestLengthMatches(shape)
  BY <1>6, <1>7, Zenon DEF RestLengthMatches
<1>11. shape.count # 0
  BY <1>2, <1>7
<1>12. ValidateGaussianCloud(shape)
  BY <1>4, <1>7, <1>8, <1>9, <1>10, <1>11, Zenon DEF ValidateGaussianCloud
<1> QED BY <1>12, Zenon DEF Gate, shape, length, numeric

(* The bytes of the cloud, from its count and its degree.                  *)
LEMMA CloudByteSize ==
  ASSUME NEW v, IsHeader(v.header)
  PROVE  ComputeDecodedByteSize(CloudOf(v))
           = v.header.pointCount * (3 + 3 + 4 + 1 + 3 + 3 * RestPerGaussian(v.header.shDegree))
<1>1. PICK count \in Nat, e \in Nat : count = v.header.pointCount /\ e = ShDimensions(v.header)
  BY HeaderWidths
<1>2. e = RestPerGaussian(v.header.shDegree)
  BY <1>1, Zenon DEF ShDimensions, RestPerGaussian, CoefficientsPerGaussian
<1>3. PICK rest \in Nat : rest = count * e
  OBVIOUS
<1>4. ComputeDecodedByteSize(CloudOf(v))
        = 3 * count + 3 * count + 4 * count + count + 3 * count + 3 * rest
  BY <1>1, <1>3, CloudLengths, Zenon DEF ComputeDecodedByteSize
<1>5. count * (3 + 3 + 4 + 1 + 3 + 3 * e)
        = 3 * count + 3 * count + 4 * count + count + 3 * count + 3 * rest
  BY <1>3
<1> QED BY <1>1, <1>2, <1>4, <1>5, Zenon

(* ---- The call ---------------------------------------------------------- *)

Authoring == {"author", "join", "transfer"}
Decoded   == {"size", "warn"} \cup Authoring
Unread    == {"idle", "metadata", "read"}
IsFull(phases) == pc \in phases /\ ~request.metadataOnly

Watched ==
  /\ file \in seen /\ seen \subseteq Versions /\ request \in Requests
  /\ pc = "idle" => seen = {file}
  /\ pc \in Unread \cup {"check", "arrays", "return"} \cup Decoded
  /\ pc = "metadata" => request.metadataOnly
  /\ pc \in {"read", "check", "arrays", "size", "warn"} => ~request.metadataOnly

(* What is known of the file, once it is known.                            *)
HeaderRead ==
  pc \in Authoring /\ request.metadataOnly =>
    /\ header.shDegree <= kMaxShDegree
    /\ \E v \in seen : v.headerProblem = NoProblem /\ header = v.header
DocumentRead ==
  /\ IsFull({"check", "arrays"} \cup Decoded) =>
       document \in seen /\ document.problem = NoProblem
  /\ IsFull({"arrays"} \cup Decoded) => document.header.shDegree <= kMaxShDegree

(* The arrays that are decoded are what the format places there.           *)
Partly(v, next) ==
  [name \in Name |-> IF \E n \in 1 .. next - 1 : Arrays[n] = name
                     THEN CloudOf(v)[name] ELSE <<>>]
CloudDecoded ==
  /\ pc \in Unread \cup {"check"} => array = 1 /\ cloud = EmptyCloud
  /\ pc = "arrays" =>
       /\ array \in 1 .. 7 /\ cloud = Partly(document, array)
       /\ array > 1 => FinitePositions(document)
  /\ IsFull(Decoded) => cloud = CloudOf(document) /\ FinitePositions(document)

Authored == IF request.metadataOnly THEN Metadata(header)
            ELSE Full(cloud, document.header)
WorkerDone ==
  /\ pc \notin {"join", "transfer", "return"} => worker = "none"
  /\ pc = "return" => worker # "running"
  /\ pc = "join" => worker \in {"running", "true", "false", "threw"}
  /\ pc = "transfer" => worker = "true"
  /\ pc \in {"join", "transfer"} /\ worker = "true" => generated = Authored
  /\ worker \in {"false", "threw"} => fault

Measured(s) ==
  /\ s.gaussianCount = document.header.pointCount
  /\ s.shDegree = document.header.shDegree
  /\ s.decodedBytes = ComputeDecodedByteSize(cloud)
  /\ \E v \in seen : s.sourceBytes = v.size
StatsCollected ==
  /\ IsFull({"warn"} \cup Authoring) /\ request.stats =>
       DOMAIN stats = DOMAIN NoStats /\ Measured(stats)
  /\ IsFull(Authoring) => warned = Warnings(document)
  /\ IsFull(Authoring) /\ request.stats =>
       /\ stats.warningCount = Cardinality(Warnings(document))
       /\ stats.hasBounds = (Len(cloud.positions) # 0)

(* A call fails for the file's sake, or because something was refused.     *)
RefusalJustified ==
  pc = "return" /\ ~fault =>
    /\ error \notin {"internalError", "cloudValidationFailed"}
    /\ seen = {file} => ~Importable(file, request)

IInv == /\ Watched /\ HeaderRead /\ DocumentRead /\ CloudDecoded
        /\ WorkerDone /\ StatsCollected /\ RefusalJustified

LEMMA InitIInv == Init => IInv
<1> SUFFICES ASSUME Init PROVE IInv
  OBVIOUS
<1>1. /\ file \in Versions /\ seen = {file} /\ request \in Requests /\ pc = "idle"
      /\ array = 1 /\ cloud = EmptyCloud /\ worker = "none"
  BY DEF Init
<1>2. Watched /\ HeaderRead /\ DocumentRead
  BY <1>1 DEF Watched, HeaderRead, DocumentRead, Unread, Authoring, Decoded, IsFull
<1>3. CloudDecoded /\ WorkerDone /\ RefusalJustified
  BY <1>1 DEF CloudDecoded, WorkerDone, RefusalJustified, Authoring, Decoded, IsFull
<1>4. StatsCollected
  BY <1>1 DEF StatsCollected, Authoring, IsFull
<1> QED BY <1>2, <1>3, <1>4 DEF IInv

(* What was handed out is a whole document.                                *)
LEMMA DocumentIsWhole ==
  ASSUME Watched, DocumentRead, IsFull({"check", "arrays"} \cup Decoded)
  PROVE  Whole(document) /\ IsHeader(document.header)
<1>1. document \in Versions /\ document.problem = NoProblem
  BY DEF Watched, DocumentRead
<1>2. IsVersion(document)
  BY <1>1, VersionsAssumption
<1> QED BY <1>1, <1>2 DEF Whole, IsVersion

(* An exporter replaces the file: what was read of it stays what it was.   *)
LEMMA EditFileStep == IInv /\ EditFile => IInv'
<1> SUFFICES ASSUME IInv, EditFile PROVE IInv'
  OBVIOUS
<1>1. /\ UNCHANGED <<request, pc, header, document, array, cloud, warned, stats, worker,
                     generated, fault, error>>
      /\ file' \in Versions
      /\ seen' = IF pc = "idle" THEN {file'} ELSE seen \cup {file'}
  BY EditAssumption DEF EditFile, decodeVars, authorVars
<1>2. Watched'
  BY <1>1 DEF IInv, Watched
<1>3. HeaderRead' /\ DocumentRead'
  BY <1>1 DEF IInv, HeaderRead, DocumentRead, Authoring, Decoded, IsFull
<1>4. CloudDecoded'
  BY <1>1 DEF IInv, CloudDecoded, IsFull
<1>5. WorkerDone'
  BY <1>1 DEF IInv, WorkerDone, Authored
<1>6. StatsCollected'
  <2>1. pc # "idle" => seen \subseteq seen'
    BY <1>1
  <2>2. \A s : pc # "idle" /\ Measured(s) => Measured(s)'
    BY <1>1, <2>1 DEF Measured
  <2>3. IsFull({"warn"} \cup Authoring)' => pc # "idle"
    BY <1>1 DEF IsFull, Authoring
  <2> QED BY <1>1, <2>2, <2>3 DEF IInv, StatsCollected, IsFull
<1>7. RefusalJustified'
  <2> SUFFICES ASSUME pc = "return", ~fault
               PROVE  /\ error \notin {"internalError", "cloudValidationFailed"}
                      /\ seen' = {file'} => ~Importable(file', request)
    BY <1>1 DEF RefusalJustified
  <2>1. seen' = {file'} => file' = file /\ seen = {file}
    BY <1>1 DEF IInv, Watched
  <2> QED BY <2>1 DEF IInv, RefusalJustified
<1> QED BY <1>2, <1>3, <1>4, <1>5, <1>6, <1>7 DEF IInv

LEMMA CallStep == IInv /\ Call => IInv'
<1> SUFFICES ASSUME IInv, Call PROVE IInv'
  OBVIOUS
<1>1. /\ pc = "idle" /\ request' \in Requests
      /\ pc' = (IF request'.metadataOnly THEN "metadata" ELSE "read")
      /\ UNCHANGED <<file, seen, array, cloud, worker, generated, fault>>
  BY DEF Call, fileVars, decodeVars, authorVars
<1>2. Watched'
  BY <1>1 DEF IInv, Watched, Unread
<1>3. CloudDecoded'
  BY <1>1 DEF IInv, CloudDecoded, Unread, IsFull, Decoded, Authoring
<1>4. HeaderRead' /\ DocumentRead' /\ StatsCollected' /\ RefusalJustified'
  BY <1>1 DEF HeaderRead, DocumentRead, StatsCollected, RefusalJustified, IsFull,
     Decoded, Authoring
<1>5. WorkerDone'
  BY <1>1 DEF IInv, WorkerDone
<1> QED BY <1>2, <1>3, <1>4, <1>5 DEF IInv

LEMMA Leaving == IInv /\ LeaveRead => IInv'
<1> SUFFICES ASSUME IInv, LeaveRead PROVE IInv'
  OBVIOUS
<1>1. /\ pc' = "idle" /\ seen' = {file} /\ array' = 1 /\ cloud' = EmptyCloud
      /\ worker' = "none" /\ UNCHANGED <<file, request>>
  BY DEF LeaveRead
<1>2. Watched'
  BY <1>1 DEF IInv, Watched, Unread
<1>3. CloudDecoded' /\ HeaderRead' /\ DocumentRead' /\ StatsCollected' /\ RefusalJustified'
      /\ WorkerDone'
  BY <1>1 DEF CloudDecoded, HeaderRead, DocumentRead, StatsCollected, RefusalJustified,
     WorkerDone, IsFull, Decoded, Authoring
<1> QED BY <1>2, <1>3 DEF IInv

(* A call that fails has a reason, and leaves the rest to the host.        *)
LEMMA Returning ==
  ASSUME IInv, pc # "idle", pc' = "return", UNCHANGED <<file, seen, request>>,
         worker' # "running", worker' \in {"false", "threw"} => fault',
         RefusalJustified'
  PROVE  IInv'
<1>1. Watched'
  BY DEF IInv, Watched
<1>2. CloudDecoded' /\ HeaderRead' /\ DocumentRead' /\ StatsCollected' /\ WorkerDone'
  BY DEF CloudDecoded, HeaderRead, DocumentRead, StatsCollected, WorkerDone, IsFull,
     Unread, Decoded, Authoring
<1> QED BY <1>1, <1>2 DEF IInv

LEMMA Failing ==
  ASSUME IInv, pc \in {"metadata", "read", "check", "arrays"}, pc' = "return",
         UNCHANGED <<file, seen, request, worker>>,
         \/ fault'
         \/ /\ error' \notin {"internalError", "cloudValidationFailed"}
            /\ seen = {file} => ~Importable(file, request)
  PROVE  IInv'
<1>1. worker = "none"
  BY DEF IInv, WorkerDone
<1>2. RefusalJustified'
  BY DEF RefusalJustified
<1> QED BY <1>1, <1>2, Returning

LEMMA ReadHeaderStep == IInv /\ ReadHeader => IInv'
<1> SUFFICES ASSUME IInv, ReadHeader PROVE IInv'
  OBVIOUS
<1>1. /\ pc = "metadata" /\ file.headerProblem = NoProblem /\ header' = file.header
      /\ UNCHANGED <<file, seen, request, document, array, cloud, worker, fault>>
      /\ request.metadataOnly /\ worker = "none"
  BY DEF ReadHeader, fileVars, authorVars, IInv, Watched, WorkerDone
<1> DEFINE problem == CheckSupportedShDegree(file.header)
<1>2. problem = IF file.header.shDegree > kMaxShDegree THEN "unsupportedShDegree"
                ELSE NoProblem
  BY DEF CheckSupportedShDegree, Check
<1>3. IF problem # NoProblem THEN Fail(problem) ELSE Continue("author")
  BY DEF ReadHeader
<1>4. file.header.shDegree \in Nat
  <2>1. IsVersion(file)
    BY VersionsAssumption DEF IInv, Watched
  <2> QED BY <1>1, <2>1 DEF IsVersion, IsHeader, kSpecMaxShDegree
<1> HIDE DEF problem
<1>5. CASE problem # NoProblem
  <2>1. pc' = "return" /\ error' = "unsupportedShDegree" /\ file.header.shDegree > kMaxShDegree
    BY <1>2, <1>3, <1>5 DEF Fail
  <2>2. ~Importable(file, request)
    BY <1>4, <2>1 DEF Importable, kMaxShDegree
  <2> QED BY <1>1, <2>1, <2>2, Failing
<1>6. CASE problem = NoProblem
  <2>1. pc' = "author" /\ ~(file.header.shDegree > kMaxShDegree)
    BY <1>2, <1>3, <1>6 DEF Continue, NoProblem
  <2>2. file.header.shDegree <= kMaxShDegree
    BY <1>4, <2>1 DEF kMaxShDegree
  <2>3. Watched' /\ HeaderRead'
    BY <1>1, <2>1, <2>2 DEF IInv, Watched, HeaderRead, Decoded, Authoring
  <2>4. DocumentRead' /\ CloudDecoded' /\ StatsCollected' /\ RefusalJustified'
    BY <1>1, <2>1 DEF DocumentRead, CloudDecoded, StatsCollected, RefusalJustified,
       IsFull, Unread, Decoded, Authoring
  <2>5. WorkerDone'
    BY <1>1, <2>1 DEF WorkerDone
  <2> QED BY <2>3, <2>4, <2>5 DEF IInv
<1> QED BY <1>5, <1>6

LEMMA ReadDocumentStep == IInv /\ ReadDocument => IInv'
<1> SUFFICES ASSUME IInv, ReadDocument PROVE IInv'
  OBVIOUS
<1>1. /\ pc = "read" /\ pc' = "check" /\ file.problem = NoProblem /\ document' = file
      /\ UNCHANGED <<file, seen, request, array, cloud, worker, fault>>
      /\ ~request.metadataOnly /\ worker = "none" /\ array = 1 /\ cloud = EmptyCloud
  BY DEF ReadDocument, Continue, fileVars, authorVars, IInv, Watched, WorkerDone,
     CloudDecoded, Unread
<1>2. Watched' /\ DocumentRead'
  BY <1>1 DEF IInv, Watched, DocumentRead, IsFull, Decoded, Authoring
<1>3. CloudDecoded' /\ HeaderRead' /\ StatsCollected' /\ RefusalJustified' /\ WorkerDone'
  BY <1>1 DEF CloudDecoded, HeaderRead, StatsCollected, RefusalJustified, WorkerDone,
     IsFull, Decoded, Authoring
<1> QED BY <1>2, <1>3 DEF IInv

(* The reader's problem is one of a version, and no internal error.        *)
LEMMA ReaderFailsStep == IInv /\ ReaderFails => IInv'
<1> SUFFICES ASSUME IInv, ReaderFails PROVE IInv'
  OBVIOUS
<1> DEFINE Problem(v) == IF pc = "metadata" THEN v.headerProblem ELSE v.problem
<1>1. PICK v \in seen : pc \in {"metadata", "read"} /\ Problem(v) # NoProblem /\ Fail(Problem(v))
  BY DEF ReaderFails
<1>2. UNCHANGED <<file, seen, request, worker>>
  BY DEF ReaderFails, fileVars, authorVars
<1>3. IsVersion(v)
  BY VersionsAssumption DEF IInv, Watched
<1>4. pc' = "return" /\ error' = Problem(v)
  BY <1>1 DEF Fail
<1>5. error' \notin {"internalError", "cloudValidationFailed"}
  BY <1>3, <1>4 DEF IsVersion
<1>6. ASSUME seen = {file} PROVE ~Importable(file, request)
  <2>1. v = file
    BY <1>6
  <2>2. pc = "metadata" => request.metadataOnly
    BY DEF IInv, Watched
  <2>3. pc = "read" => ~request.metadataOnly
    BY DEF IInv, Watched
  <2> QED BY <1>1, <2>1, <2>2, <2>3 DEF Importable
<1> QED BY <1>1, <1>2, <1>4, <1>5, <1>6, Failing

LEMMA FaultStep == IInv /\ (ReaderFaults \/ Throw) => IInv'
<1> SUFFICES ASSUME IInv, ReaderFaults \/ Throw PROVE IInv'
  OBVIOUS
<1>1. /\ pc \in {"metadata", "read", "arrays"} /\ pc' = "return" /\ fault'
      /\ UNCHANGED <<file, seen, request, worker>>
  BY DEF ReaderFaults, Throw, Fail, fileVars, authorVars
<1> QED BY <1>1, Failing

(* The spans always agree; a document of too high a degree is refused.     *)
LEMMA CheckDocumentStep == IInv /\ CheckDocument => IInv'
<1> SUFFICES ASSUME IInv, CheckDocument PROVE IInv'
  OBVIOUS
<1> DEFINE h == document.header
           degree == CheckSupportedShDegree(h)
           spans  == Check(SpansDisagree(h, Slices(h), PayloadSize(h)), "internalError")
           problem == FirstFailure(<<degree, spans>>)
<1>1. /\ pc = "check"
      /\ UNCHANGED <<file, seen, request, document, array, cloud, worker, fault>>
      /\ ~request.metadataOnly /\ worker = "none" /\ array = 1 /\ cloud = EmptyCloud
  BY DEF CheckDocument, fileVars, decodeVars, authorVars, IInv, Watched, WorkerDone,
     CloudDecoded
<1>2. IF problem # NoProblem THEN Fail(problem) ELSE Continue("arrays")
  BY DEF CheckDocument
<1>3. IsHeader(h)
  BY <1>1, DocumentIsWhole DEF IInv, IsFull
<1>4. problem = degree
  <2>1. spans = NoProblem
    BY <1>3, SpansAgree DEF Check
  <2> HIDE DEF spans, degree
  <2> QED BY <2>1, FirstOfTwo
<1>5. degree = IF h.shDegree > kMaxShDegree THEN "unsupportedShDegree" ELSE NoProblem
  BY DEF CheckSupportedShDegree, Check
<1>6. h.shDegree \in Nat
  BY <1>3 DEF IsHeader, kSpecMaxShDegree
<1> HIDE DEF problem, degree
<1>7. CASE degree # NoProblem
  <2>1. pc' = "return" /\ error' = "unsupportedShDegree" /\ h.shDegree > kMaxShDegree
    BY <1>2, <1>4, <1>5, <1>7 DEF Fail
  <2>2. document \in seen
    BY <1>1 DEF IInv, DocumentRead, IsFull
  <2>3. seen = {file} => ~Importable(file, request)
    BY <1>6, <2>1, <2>2 DEF Importable, kMaxShDegree
  <2> QED BY <1>1, <2>1, <2>3, Failing
<1>8. CASE degree = NoProblem
  <2>1. pc' = "arrays" /\ ~(h.shDegree > kMaxShDegree)
    BY <1>2, <1>4, <1>5, <1>8 DEF Continue, NoProblem
  <2>2. h.shDegree <= kMaxShDegree
    BY <1>6, <2>1 DEF kMaxShDegree
  <2>3. Watched' /\ DocumentRead'
    BY <1>1, <2>1, <2>2 DEF IInv, Watched, DocumentRead, IsFull, Unread, Decoded, Authoring
  <2>4. EmptyCloud = Partly(document, 1)
    <3>1. Partly(document, 1) = [name \in Name |-> <<>>]
      <4>1. ~\E n \in 1 .. 1 - 1 : TRUE
        OBVIOUS
      <4> QED BY <4>1, Zenon DEF Partly
    <3>2. EmptyCloud = [name \in Name |-> <<>>]
      BY DEF EmptyCloud, Name
    <3> QED BY <3>1, <3>2
  <2>5. CloudDecoded'
    BY <1>1, <2>1, <2>4 DEF CloudDecoded, IsFull, Unread, Decoded, Authoring
  <2>6. HeaderRead' /\ StatsCollected' /\ RefusalJustified' /\ WorkerDone'
    BY <1>1, <2>1 DEF HeaderRead, StatsCollected, RefusalJustified, WorkerDone,
       IsFull, Decoded, Authoring
  <2> QED BY <2>3, <2>5, <2>6 DEF IInv
<1> QED BY <1>7, <1>8

LEMMA ArrayNames ==
  /\ Len(Arrays) = 6 /\ DOMAIN Arrays = 1 .. 6
  /\ \A n \in 1 .. 6 : Arrays[n] \in Name /\ (Arrays[n] = "positions" <=> n = 1)
  /\ \A name \in Name : \E n \in 1 .. 6 : Arrays[n] = name
BY DEF Arrays, Name

(* One more array of the cloud.                                            *)
LEMMA PartlyGrows ==
  ASSUME NEW v, NEW next \in 1 .. 6
  PROVE  [Partly(v, next) EXCEPT ![Arrays[next]] = CloudOf(v)[Arrays[next]]]
           = Partly(v, next + 1)
<1> DEFINE name == Arrays[next]
           Has(k, nm) == \E n \in 1 .. k - 1 : Arrays[n] = nm
           Value(k, nm) == IF Has(k, nm) THEN CloudOf(v)[nm] ELSE <<>>
<1>1. name \in Name
  BY ArrayNames
<1>2. \A nm \in Name : Has(next + 1, nm) <=> Has(next, nm) \/ nm = name
  <2>1. 1 .. (next + 1) - 1 = (1 .. next - 1) \cup {next}
    OBVIOUS
  <2> QED BY <2>1, Zenon
<1>3. Partly(v, next) = [nm \in Name |-> Value(next, nm)]
      /\ Partly(v, next + 1) = [nm \in Name |-> Value(next + 1, nm)]
  BY Zenon DEF Partly
<1> HIDE DEF name, Has
<1>4. \A nm \in Name : Value(next + 1, nm)
        = IF nm = name THEN CloudOf(v)[name] ELSE Value(next, nm)
  BY <1>2
<1> HIDE DEF Value
<1>5. [Partly(v, next) EXCEPT ![name] = CloudOf(v)[name]]
        = [nm \in Name |-> IF nm = name THEN CloudOf(v)[name] ELSE Value(next, nm)]
  BY <1>3
<1> QED BY <1>3, <1>4, <1>5, Zenon DEF name

LEMMA AllDecoded ==
  ASSUME NEW v
  PROVE  Partly(v, 7) = CloudOf(v)
<1>1. \A name \in Name : \E n \in 1 .. 7 - 1 : Arrays[n] = name
  <2>1. 7 - 1 = 6
    OBVIOUS
  <2> QED BY <2>1, ArrayNames, Zenon
<1>2. Partly(v, 7) = [name \in Name |-> CloudOf(v)[name]]
  BY <1>1, Zenon DEF Partly
<1>3. CloudOf(v) = [name \in Name |-> CloudOf(v)[name]]
  <2>1. PICK a, b, c, d, e, f :
          CloudOf(v) = [positions |-> a, opacities |-> b, scales |-> c,
                        dcCoefficients |-> d, rotations |-> e, restCoefficients |-> f]
    BY Zenon DEF CloudOf
  <2> QED BY <2>1 DEF Name
<1> QED BY <1>2, <1>3, Zenon

LEMMA DecodeArrayStep == IInv /\ DecodeArray => IInv'
<1> SUFFICES ASSUME IInv, DecodeArray PROVE IInv'
  OBVIOUS
<1> DEFINE name    == Arrays[array]
           problem == ArrayProblem(name, document)
<1>1. /\ pc = "arrays" /\ array <= Len(Arrays)
      /\ UNCHANGED <<file, seen, request, header, document, worker, stats, warned>>
      /\ ~request.metadataOnly /\ worker = "none"
      /\ array \in 1 .. 7 /\ cloud = Partly(document, array)
      /\ array > 1 => FinitePositions(document)
  BY DEF DecodeArray, fileVars, authorVars, IInv, Watched, WorkerDone, CloudDecoded
<1>2. array \in 1 .. 6 /\ name \in Name /\ (name = "positions" <=> array = 1)
  BY <1>1, ArrayNames
<1>3. Whole(document) /\ document \in seen
  BY <1>1, DocumentIsWhole DEF IInv, IsFull, DocumentRead
<1>4. /\ problem = IF name = "positions" /\ ~FinitePositions(document)
                   THEN "nonFinitePosition" ELSE NoProblem
      /\ problem = NoProblem => DecodedArray(name, document) = CloudOf(document)[name]
  BY <1>2, <1>3, ArraysAre
<1>5. \/ pc' = "return" /\ fault'
      \/ problem # NoProblem /\ Fail(problem)
      \/ /\ problem = NoProblem
         /\ cloud' = [cloud EXCEPT ![name] = DecodedArray(name, document)]
         /\ array' = array + 1 /\ Continue("arrays") /\ UNCHANGED fault
  BY DEF DecodeArray, Fail
<1> HIDE DEF problem
<1>6. CASE pc' = "return" /\ fault'
  BY <1>1, <1>6, Failing
<1>7. CASE problem # NoProblem /\ Fail(problem)
  <2>1. pc' = "return" /\ error' = "nonFinitePosition" /\ ~FinitePositions(document)
    BY <1>4, <1>7 DEF Fail
  <2>2. seen = {file} => document = file
    BY <1>3
  <2>3. seen = {file} => ~Importable(file, request)
    BY <1>1, <2>1, <2>2, Zenon DEF Importable, FinitePositions
  <2> QED BY <1>1, <2>1, <2>3, Failing
<1>8. CASE /\ problem = NoProblem
           /\ cloud' = [cloud EXCEPT ![name] = DecodedArray(name, document)]
           /\ array' = array + 1 /\ Continue("arrays") /\ UNCHANGED fault
  <2>1. cloud' = Partly(document, array + 1)
    BY <1>1, <1>2, <1>4, <1>8, PartlyGrows, Zenon
  <2>2. FinitePositions(document)
    <3>1. CASE array = 1
      <4>1. NoProblem # "nonFinitePosition"
        BY DEF NoProblem
      <4>2. name = "positions"
        BY <1>2, <3>1
      <4> QED BY <1>4, <1>8, <4>1, <4>2, Zenon
    <3>2. CASE array # 1
      BY <1>1, <1>2, <3>2
    <3> QED BY <3>1, <3>2
  <2>3. pc' = "arrays" /\ array' \in 1 .. 7
    BY <1>2, <1>8 DEF Continue
  <2>4. CloudDecoded'
    BY <1>1, <1>8, <2>1, <2>2, <2>3 DEF CloudDecoded, IsFull, Unread, Decoded, Authoring
  <2>5. Watched' /\ DocumentRead'
    BY <1>1, <2>3 DEF IInv, Watched, DocumentRead, IsFull
  <2>6. HeaderRead' /\ StatsCollected' /\ RefusalJustified' /\ WorkerDone'
    BY <1>1, <2>3 DEF HeaderRead, StatsCollected, RefusalJustified, WorkerDone,
       IsFull, Decoded, Authoring
  <2> QED BY <2>4, <2>5, <2>6 DEF IInv
<1> QED BY <1>5, <1>6, <1>7, <1>8

(* The gate never stops what was decoded.                                  *)
LEMMA FinishDecodeStep == IInv /\ FinishDecode => IInv'
<1> SUFFICES ASSUME IInv, FinishDecode PROVE IInv'
  OBVIOUS
<1>1. /\ pc = "arrays" /\ array > Len(Arrays)
      /\ UNCHANGED <<file, seen, request, header, document, array, cloud, worker,
                     fault>>
      /\ ~request.metadataOnly /\ worker = "none"
      /\ array \in 1 .. 7 /\ cloud = Partly(document, array)
      /\ array > 1 => FinitePositions(document)
  BY DEF FinishDecode, fileVars, decodeVars, authorVars, IInv, Watched, WorkerDone,
     CloudDecoded
<1>2. array = 7
  BY <1>1, ArrayNames
<1>3. cloud = CloudOf(document) /\ FinitePositions(document)
  BY <1>1, <1>2, AllDecoded
<1>4. Whole(document) /\ document.header.shDegree <= kMaxShDegree
  BY <1>1, DocumentIsWhole DEF IInv, IsFull, DocumentRead
<1>5. Gate(cloud, document.header)
  BY <1>3, <1>4, GatePasses
<1>6. pc' = IF request.stats THEN "size" ELSE "warn"
  BY <1>5 DEF FinishDecode, Continue
<1>7. Watched' /\ DocumentRead'
  BY <1>1, <1>6 DEF IInv, Watched, DocumentRead, IsFull, Decoded
<1>8. CloudDecoded'
  BY <1>1, <1>3, <1>6 DEF CloudDecoded, IsFull, Unread
<1>9. HeaderRead' /\ StatsCollected' /\ RefusalJustified' /\ WorkerDone'
  BY <1>1, <1>6 DEF HeaderRead, StatsCollected, RefusalJustified, WorkerDone,
     IsFull, Authoring
<1> QED BY <1>7, <1>8, <1>9 DEF IInv

(* From the gate to the end of the call the document and the cloud stay.   *)
LEMMA CarryingOn ==
  ASSUME IInv, pc \in Decoded, pc' \in Decoded,
         pc' \in {"size", "warn"} => pc \in {"size", "warn"},
         UNCHANGED <<file, seen, request, header, document, cloud>>
  PROVE  Watched' /\ HeaderRead' /\ DocumentRead' /\ CloudDecoded' /\ RefusalJustified'
<1>1. pc' \notin Unread \cup {"check", "arrays", "return"}
  BY DEF Decoded, Authoring, Unread
<1>2. Watched'
  BY <1>1 DEF IInv, Watched, Unread
<1>3. DocumentRead' /\ CloudDecoded' /\ RefusalJustified'
  BY <1>1 DEF IInv, DocumentRead, CloudDecoded, RefusalJustified, IsFull
<1>4. HeaderRead'
  BY DEF IInv, HeaderRead, Watched, Decoded
<1> QED BY <1>2, <1>3, <1>4

LEMMA MeasureSourceStep == IInv /\ MeasureSource => IInv'
<1> SUFFICES ASSUME IInv, MeasureSource PROVE IInv'
  OBVIOUS
<1>1. /\ pc = "size" /\ pc' = "warn" /\ worker = "none"
      /\ stats' = [NoStats EXCEPT !.gaussianCount = document.header.pointCount,
                                  !.shDegree = document.header.shDegree,
                                  !.sourceBytes = file.size,
                                  !.decodedBytes = ComputeDecodedByteSize(cloud)]
      /\ UNCHANGED <<file, seen, request, header, document, cloud, worker, fault>>
  BY DEF MeasureSource, Continue, fileVars, decodeVars, authorVars, IInv, WorkerDone
<1>2. Watched' /\ HeaderRead' /\ DocumentRead' /\ CloudDecoded' /\ RefusalJustified'
  BY <1>1, CarryingOn DEF Decoded
<1>3. WorkerDone'
  BY <1>1 DEF WorkerDone
<1>4. Measured(stats)' /\ DOMAIN stats' = DOMAIN NoStats
  <2>1. /\ stats'.gaussianCount = document.header.pointCount
        /\ stats'.shDegree = document.header.shDegree
        /\ stats'.sourceBytes = file.size
        /\ stats'.decodedBytes = ComputeDecodedByteSize(cloud)
        /\ DOMAIN stats' = DOMAIN NoStats
    BY <1>1 DEF NoStats
  <2>2. file \in seen
    BY DEF IInv, Watched
  <2> QED BY <1>1, <2>1, <2>2 DEF Measured
<1>5. StatsCollected'
  BY <1>1, <1>4 DEF StatsCollected, IsFull, Authoring
<1> QED BY <1>2, <1>3, <1>5 DEF IInv

LEMMA WarnStep == IInv /\ Warn => IInv'
<1> SUFFICES ASSUME IInv, Warn PROVE IInv'
  OBVIOUS
<1>1. /\ pc = "warn" /\ pc' = "author" /\ worker = "none" /\ ~request.metadataOnly
      /\ warned' = Warnings(document)
      /\ stats' = IF request.stats
                  THEN [stats EXCEPT !.warningCount = Cardinality(Warnings(document)),
                                     !.hasBounds = Len(cloud.positions) # 0]
                  ELSE stats
      /\ UNCHANGED <<file, seen, request, header, document, cloud, worker, fault>>
  BY DEF Warn, Continue, fileVars, decodeVars, authorVars, IInv, WorkerDone, Watched
<1>2. Watched' /\ HeaderRead' /\ DocumentRead' /\ CloudDecoded' /\ RefusalJustified'
  BY <1>1, CarryingOn DEF Decoded, Authoring
<1>3. WorkerDone'
  BY <1>1 DEF WorkerDone
<1>4. ASSUME request.stats
      PROVE  /\ Measured(stats)' /\ DOMAIN stats' = DOMAIN NoStats
             /\ stats'.warningCount = Cardinality(Warnings(document))
             /\ stats'.hasBounds = (Len(cloud.positions) # 0)
  <2>1. Measured(stats) /\ DOMAIN stats = DOMAIN NoStats
    BY <1>1, <1>4 DEF IInv, StatsCollected, IsFull
  <2>2. DOMAIN stats = {"gaussianCount", "shDegree", "warningCount", "sourceBytes",
                        "decodedBytes", "hasBounds"}
    BY <2>1 DEF NoStats
  <2>3. /\ stats'.gaussianCount = stats.gaussianCount /\ stats'.shDegree = stats.shDegree
        /\ stats'.decodedBytes = stats.decodedBytes /\ stats'.sourceBytes = stats.sourceBytes
        /\ DOMAIN stats' = DOMAIN stats
        /\ stats'.warningCount = Cardinality(Warnings(document))
        /\ stats'.hasBounds = (Len(cloud.positions) # 0)
    BY <1>1, <1>4, <2>2
  <2> QED BY <1>1, <2>1, <2>3 DEF Measured
<1>5. Warnings(document)' = Warnings(document)
  BY <1>1 DEF Warnings
<1>6. StatsCollected'
  BY <1>1, <1>4, <1>5 DEF StatsCollected, IsFull, Authoring
<1> QED BY <1>2, <1>3, <1>6 DEF IInv

(* ---- The worker -------------------------------------------------------- *)

(* The writer has nothing to complain about: the cloud has passed the gate *)
(* before, and the worker sees its own layer whoever holds a change block. *)
LEMMA WriterPasses ==
  ASSUME IInv, pc = "join"
  PROVE  WriterProblem = ""
<1>1. ~Observes(request.changeBlock)
  BY DEF Observes, AuthoringThread
<1>2. ~request.metadataOnly => Gate(cloud, document.header)
  <2> SUFFICES ASSUME ~request.metadataOnly PROVE Gate(cloud, document.header)
    OBVIOUS
  <2>1. IsFull(Decoded)
    BY DEF IsFull, Decoded, Authoring
  <2>2. cloud = CloudOf(document) /\ FinitePositions(document)
    BY <2>1 DEF IInv, CloudDecoded
  <2>3. Whole(document) /\ document.header.shDegree <= kMaxShDegree
    BY <2>1, DocumentIsWhole DEF IInv, IsFull, DocumentRead
  <2> QED BY <2>2, <2>3, GatePasses
<1> DEFINE gate  == Check(~request.metadataOnly /\ ~Gate(cloud, document.header),
                          "cloudValidationFailed")
           scaffold == Check(Observes(request.changeBlock), "scaffoldAuthoringFailed")
<1>3. gate = NoProblem /\ scaffold = NoProblem
  BY <1>1, <1>2, Zenon DEF Check
<1>4. WriterProblem = FirstFailure(<<gate, scaffold>>)
  BY DEF WriterProblem
<1> HIDE DEF gate, scaffold
<1> QED BY <1>3, <1>4, FirstOfTwo DEF NoProblem

(* While the worker runs, and after, what it authors from stays.           *)
LEMMA StatsStay ==
  ASSUME IInv, pc \in Authoring, pc' \in Authoring,
         UNCHANGED <<seen, request, document, cloud, stats, warned>>
  PROVE  StatsCollected'
<1>1. Warnings(document)' = Warnings(document) /\ Measured(stats)' = Measured(stats)
  BY DEF Warnings, Measured
<1> QED BY <1>1 DEF IInv, StatsCollected, IsFull

LEMMA StartWorkerStep == IInv /\ StartWorker => IInv'
<1> SUFFICES ASSUME IInv, StartWorker PROVE IInv'
  OBVIOUS
<1>1. /\ pc = "author" /\ pc' = "join" /\ worker' = "running"
      /\ UNCHANGED <<file, seen, request, header, document, cloud, stats, warned, fault>>
  BY DEF StartWorker, Spawn, Continue, fileVars, decodeVars
<1>2. Watched' /\ HeaderRead' /\ DocumentRead' /\ CloudDecoded' /\ RefusalJustified'
  BY <1>1, CarryingOn DEF Decoded, Authoring
<1>3. WorkerDone'
  BY <1>1 DEF WorkerDone
<1>4. StatsCollected'
  BY <1>1, StatsStay DEF Authoring
<1> QED BY <1>2, <1>3, <1>4 DEF IInv

LEMMA WorkerStep == IInv /\ Worker => IInv'
<1> SUFFICES ASSUME IInv, Worker PROVE IInv'
  OBVIOUS
<1>1. /\ worker = "running"
      /\ UNCHANGED <<file, seen, request, header, document, cloud, stats, warned, pc>>
  BY DEF Worker, WorkerAuthors, WorkerThrows, Author, EndByException, fileVars, decodeVars
<1>2. pc = "join"
  BY <1>1 DEF IInv, WorkerDone, Watched, Unread, Decoded, Authoring
<1>3. WriterProblem = ""
  BY <1>2, WriterPasses
<1>4. \/ worker' = "true" /\ generated' = Authored /\ UNCHANGED fault
      \/ worker' \in {"false", "threw"} /\ fault'
  BY <1>3 DEF Worker, WorkerAuthors, WorkerThrows, Author, EndByException, Authored
<1>5. Watched' /\ HeaderRead' /\ DocumentRead' /\ CloudDecoded' /\ RefusalJustified'
  BY <1>1, <1>2, CarryingOn DEF Decoded, Authoring
<1>6. Authored' = Authored
  BY <1>1 DEF Authored
<1>7. WorkerDone'
  BY <1>1, <1>2, <1>4, <1>6 DEF WorkerDone
<1>8. StatsCollected'
  BY <1>1, <1>2, StatsStay DEF Authoring
<1> QED BY <1>5, <1>7, <1>8 DEF IInv

LEMMA JoinStep == IInv /\ Join => IInv'
<1> SUFFICES ASSUME IInv, Join PROVE IInv'
  OBVIOUS
<1>1. /\ pc = "join" /\ worker \in {"true", "false", "threw"}
      /\ \/ pc' = "transfer" /\ worker = "true"
         \/ pc' = "return" /\ worker \in {"false", "threw"}
      /\ UNCHANGED <<file, seen, request, header, document, cloud, stats, warned,
                     worker, generated, fault>>
  BY DEF Join, Get, fileVars, decodeVars, authorVars
<1>2. CASE pc' = "return" /\ worker \in {"false", "threw"}
  <2>1. fault
    BY <1>2 DEF IInv, WorkerDone
  <2>2. RefusalJustified'
    BY <1>1, <2>1 DEF RefusalJustified
  <2> QED BY <1>1, <1>2, <2>1, <2>2, Returning
<1>3. CASE pc' = "transfer" /\ worker = "true"
  <2>1. Watched' /\ HeaderRead' /\ DocumentRead' /\ CloudDecoded' /\ RefusalJustified'
    BY <1>1, <1>3, CarryingOn DEF Decoded, Authoring
  <2>2. Authored' = Authored
    BY <1>1 DEF Authored
  <2>3. WorkerDone'
    BY <1>1, <1>3, <2>2 DEF IInv, WorkerDone
  <2>4. StatsCollected'
    BY <1>1, <1>3, StatsStay DEF Authoring
  <2> QED BY <2>1, <2>3, <2>4 DEF IInv
<1> QED BY <1>1, <1>2, <1>3

LEMMA Stuttering == IInv /\ UNCHANGED vars => IInv'
<1> SUFFICES ASSUME IInv, UNCHANGED vars PROVE IInv'
  OBVIOUS
<1>1. UNCHANGED <<file, seen, request, pc, error, header, document, array, cloud, warned,
                  stats, worker, generated, fault>>
  BY DEF vars, fileVars, decodeVars, authorVars
<1>2. Watched' /\ HeaderRead' /\ DocumentRead' /\ CloudDecoded' /\ RefusalJustified'
  BY <1>1 DEF IInv, Watched, HeaderRead, DocumentRead, CloudDecoded, RefusalJustified,
     IsFull
<1>3. Authored' = Authored /\ Measured(stats)' = Measured(stats)
      /\ Warnings(document)' = Warnings(document)
  BY <1>1 DEF Authored, Measured, Warnings
<1>4. WorkerDone' /\ StatsCollected'
  BY <1>1, <1>3 DEF IInv, WorkerDone, StatsCollected, IsFull
<1> QED BY <1>2, <1>4 DEF IInv

LEMMA NextIInv == IInv /\ [Next]_vars => IInv'
<1> SUFFICES ASSUME IInv, [Next]_vars PROVE IInv'
  OBVIOUS
<1>1. CASE EditFile \/ Call
  BY <1>1, EditFileStep, CallStep
<1>2. CASE ReadHeader \/ ReadDocument \/ ReaderFails \/ ReaderFaults \/ Throw
  BY <1>2, ReadHeaderStep, ReadDocumentStep, ReaderFailsStep, FaultStep
<1>3. CASE CheckDocument \/ DecodeArray \/ FinishDecode \/ MeasureSource \/ Warn
  BY <1>3, CheckDocumentStep, DecodeArrayStep, FinishDecodeStep, MeasureSourceStep, WarnStep
<1>4. CASE StartWorker \/ Worker \/ Join
  BY <1>4, StartWorkerStep, WorkerStep, JoinStep
<1>5. CASE TransferContent \/ Return
  BY <1>5, Leaving DEF TransferContent, Return
<1>6. CASE UNCHANGED vars
  BY <1>6, Stuttering
<1> QED BY <1>1, <1>2, <1>3, <1>4, <1>5, <1>6 DEF Next, Caller

(* At every point of every call the cloud holds what the format places     *)
(* there, the detached layer is what the writer made of it, the statistics *)
(* are of the document, and a call that has failed with nothing refused,   *)
(* of a file nobody replaced, had a file it could not import               *)
(* (GaussianSpzFileFormat.cpp with the decoder and the writer it calls).   *)
THEOREM Invariance == Spec => []IInv
<1>1. Init => IInv
  BY InitIInv
<1>2. IInv /\ [Next]_vars => IInv'
  BY NextIInv
<1> QED BY <1>1, <1>2, PTL DEF Spec

(* Whatever the file holds, no call ends in what the decoder calls an      *)
(* internal error, or at the shared gate                                   *)
(* (GaussianSpzDecoder.cpp:234-235, 357-359).                              *)
THEOREM NoFileFailsInternally == Spec => []NoInternalFailure
<1>1. IInv => NoInternalFailure
  BY DEF IInv, RefusalJustified, NoInternalFailure
<1> QED BY <1>1, Invariance, PTL

(* The statistics of every import are those of the layer that is taken.    *)
THEOREM StatisticsDescribe == Spec => []StatsDescribeLayer
<1>1. IInv => StatsDescribeLayer
  <2> SUFFICES ASSUME IInv, pc = "transfer", ~request.metadataOnly, request.stats
               PROVE  /\ stats.gaussianCount = generated.count
                      /\ stats.shDegree = generated.shDegree
                      /\ stats.decodedBytes
                           = generated.count
                               * (3 + 3 + 4 + 1 + 3 + 3 * RestPerGaussian(generated.shDegree))
                      /\ stats.warningCount = Cardinality(warned)
                      /\ stats.hasBounds
                      /\ stats.sourceBytes \in {v.size : v \in seen}
    BY DEF StatsDescribeLayer
  <2>1. IsFull({"warn"} \cup Authoring) /\ IsFull(Authoring) /\ IsFull(Decoded)
    BY DEF IsFull, Authoring, Decoded
  <2>2. generated = Full(cloud, document.header)
    BY DEF IInv, WorkerDone, Authored
  <2>3. generated.count = document.header.pointCount
        /\ generated.shDegree = document.header.shDegree
    BY <2>2 DEF Full
  <2>4. Measured(stats)
    BY <2>1 DEF IInv, StatsCollected
  <2>5. IsHeader(document.header) /\ cloud = CloudOf(document)
    BY <2>1, DocumentIsWhole DEF IInv, CloudDecoded, IsFull
  <2>6. stats.decodedBytes
          = generated.count
              * (3 + 3 + 4 + 1 + 3 + 3 * RestPerGaussian(generated.shDegree))
    BY <2>3, <2>4, <2>5, CloudByteSize, Zenon DEF Measured
  <2>7. stats.warningCount = Cardinality(warned)
    BY <2>1, Zenon DEF IInv, StatsCollected
  <2>8. stats.hasBounds
    <3>1. Len(cloud.positions) = document.header.pointCount
      BY <2>5, CloudLengths
    <3>2. document.header.pointCount # 0
      BY <2>5 DEF IsHeader
    <3>3. stats.hasBounds = (Len(cloud.positions) # 0)
      BY <2>1, Zenon DEF IInv, StatsCollected
    <3> QED BY <3>1, <3>2, <3>3, Zenon
  <2>9. stats.sourceBytes \in {v.size : v \in seen}
    BY <2>4 DEF Measured
  <2>10. stats.gaussianCount = generated.count /\ stats.shDegree = generated.shDegree
    BY <2>3, <2>4, Zenon DEF Measured
  <2> QED BY <2>6, <2>7, <2>8, <2>9, <2>10
<1> QED BY <1>1, Invariance, PTL

(* ---- The refinement ---------------------------------------------------- *)

(* The layer that is taken is the content of a version the call has seen.  *)
LEMMA TakenIsContent ==
  ASSUME IInv, pc = "transfer"
  PROVE  \E x \in Readings(seen) : Importable(x, request) /\ generated = Content(x, request)
<1>1. generated = Authored /\ pc \in Authoring
  BY DEF IInv, WorkerDone, Authoring
<1>2. CASE request.metadataOnly
  <2>1. PICK v \in seen : /\ v.headerProblem = NoProblem /\ header = v.header
                          /\ header.shDegree <= kMaxShDegree
    BY <1>1, <1>2 DEF IInv, HeaderRead
  <2>2. Importable(v, request)
    BY <1>2, <2>1 DEF Importable
  <2>3. generated = Content(v, request)
    BY <1>1, <1>2, <2>1, ContentIs, Zenon DEF Authored
  <2> QED BY <2>2, <2>3 DEF Readings
<1>3. CASE ~request.metadataOnly
  <2>1. IsFull(Decoded)
    BY <1>1, <1>3 DEF IsFull, Decoded
  <2>2. /\ cloud = CloudOf(document) /\ FinitePositions(document)
        /\ document \in seen /\ document.problem = NoProblem
        /\ document.header.shDegree <= kMaxShDegree
    BY <2>1 DEF IInv, CloudDecoded, DocumentRead, IsFull
  <2>3. Importable(document, request)
    BY <1>3, <2>2, Zenon DEF Importable, FinitePositions
  <2>4. generated = Content(document, request)
    BY <1>1, <1>3, <2>2, ContentIs, Zenon DEF Authored
  <2> QED BY <2>2, <2>3, <2>4 DEF Readings
<1> QED BY <1>2, <1>3

LEMMA InitRefines == Init => Promise!Init
BY DEF Init, Promise!Init

(* A step inside the call is no step of the promise, or a refused call.    *)
Inside == /\ pc # "idle" /\ pc' # "idle"
          /\ UNCHANGED <<file, seen, request, layer>>
          /\ UNCHANGED fault \/ fault'

LEMMA InsideRefines == Inside => [Promise!Next]_(Promise!vars)
<1> SUFFICES ASSUME Inside PROVE [Promise!Next]_(Promise!vars)
  OBVIOUS
<1>1. CASE UNCHANGED fault
  <2>1. (pc # "idle")' = (pc # "idle")
    BY DEF Inside
  <2>2. UNCHANGED Promise!vars
    BY <1>1, <2>1 DEF Inside, Promise!vars
  <2> QED BY <2>2
<1>2. CASE fault'
  <2>1. Promise!Refuse
    BY <1>2 DEF Inside, Promise!Refuse
  <2> QED BY <2>1 DEF Promise!Next
<1> QED BY <1>1, <1>2 DEF Inside

LEMMA CallerIsInside ==
  IInv /\ (Caller \/ Worker) => Inside \/ TransferContent \/ Return
<1> SUFFICES ASSUME IInv, Caller \/ Worker, ~TransferContent, ~Return
             PROVE  Inside
  OBVIOUS
<1>1. CASE ReadHeader \/ ReadDocument \/ ReaderFails \/ ReaderFaults \/ Throw
  BY <1>1 DEF ReadHeader, ReadDocument, ReaderFails, ReaderFaults, Throw, Fail,
     Continue, Inside, fileVars
<1>2. CASE CheckDocument \/ FinishDecode \/ MeasureSource \/ Warn
  BY <1>2 DEF CheckDocument, FinishDecode, MeasureSource, Warn, Fail, Continue,
     Inside, fileVars
<1>3. CASE DecodeArray
  BY <1>3 DEF DecodeArray, Fail, Continue, Inside, fileVars
<1>4. CASE StartWorker \/ Join
  BY <1>4 DEF StartWorker, Spawn, Join, Get, Continue, Inside, fileVars
<1>5. CASE Worker
  <2>1. pc = "join"
    BY <1>5 DEF IInv, WorkerDone, Watched, Unread, Decoded, Authoring, Worker,
       WorkerAuthors, WorkerThrows, Author, EndByException
  <2> QED BY <1>5, <2>1 DEF Worker, WorkerAuthors, WorkerThrows, Author,
       EndByException, Inside, fileVars
<1> QED BY <1>1, <1>2, <1>3, <1>4, <1>5 DEF Caller

LEMMA TransferRefines == IInv /\ TransferContent => Promise!Succeed
<1> SUFFICES ASSUME IInv, TransferContent PROVE Promise!Succeed
  OBVIOUS
<1>1. /\ pc = "transfer" /\ layer' = generated /\ pc' = "idle" /\ seen' = {file}
      /\ fault' = FALSE /\ UNCHANGED <<file, request>>
  BY DEF TransferContent, Transfer, LeaveRead
<1>2. \E x \in Readings(seen) : Importable(x, request) /\ layer' = Content(x, request)
  BY <1>1, TakenIsContent
<1>3. Promise!Returns
  BY <1>1 DEF Promise!Returns
<1> QED BY <1>2, <1>3 DEF Promise!Succeed

LEMMA ReturnRefines == IInv /\ Return => Promise!Fail
<1> SUFFICES ASSUME IInv, Return PROVE Promise!Fail
  OBVIOUS
<1>1. /\ pc = "return" /\ pc' = "idle" /\ seen' = {file} /\ fault' = FALSE
      /\ UNCHANGED <<file, request, layer>>
  BY DEF Return, LeaveRead
<1>2. fault \/ seen # {file} \/ \E x \in Readings(seen) : ~Importable(x, request)
  BY <1>1 DEF IInv, RefusalJustified, Readings
<1>3. Promise!Returns
  BY <1>1 DEF Promise!Returns
<1> QED BY <1>1, <1>2, <1>3 DEF Promise!Fail

LEMMA EditRefines == IInv /\ EditFile => Promise!Edit
<1> SUFFICES ASSUME IInv, EditFile PROVE Promise!Edit
  OBVIOUS
<1>1. /\ file' \in Versions /\ UNCHANGED <<request, pc, layer, fault>>
      /\ seen' = IF pc = "idle" THEN {file'} ELSE seen \cup {file'}
  BY EditAssumption DEF EditFile
<1> QED BY <1>1 DEF Promise!Edit

LEMMA CallRefines == IInv /\ Call => Promise!Call
<1> SUFFICES ASSUME IInv, Call PROVE Promise!Call
  OBVIOUS
<1>1. /\ pc = "idle" /\ pc' \in {"metadata", "read"} /\ request' \in Requests
      /\ UNCHANGED <<file, seen, fault, layer>>
  BY DEF Call, fileVars
<1> QED BY <1>1 DEF Promise!Call

LEMMA NextRefines == IInv /\ [Next]_vars => [Promise!Next]_(Promise!vars)
<1> SUFFICES ASSUME IInv, [Next]_vars PROVE [Promise!Next]_(Promise!vars)
  OBVIOUS
<1>1. CASE EditFile \/ Call
  BY <1>1, EditRefines, CallRefines DEF Promise!Next
<1>2. CASE TransferContent \/ Return
  BY <1>2, TransferRefines, ReturnRefines DEF Promise!Next
<1>3. CASE (Caller \/ Worker) /\ ~TransferContent /\ ~Return
  BY <1>3, CallerIsInside, InsideRefines
<1>4. CASE UNCHANGED vars
  <2>1. UNCHANGED <<file, seen, request, pc, layer, fault>>
    BY <1>4 DEF vars, fileVars
  <2> QED BY <2>1 DEF Promise!vars
<1> QED BY <1>1, <1>2, <1>3, <1>4 DEF Next

(* The import implements its promise: it replaces the layer by exactly     *)
(* what one version of the file stands for - every byte at its place,      *)
(* every half, fixed-point number and rotation with the value the format   *)
(* gives it - or fails for a reason and leaves the layer as it was         *)
(* (GaussianSpzFileFormat.cpp:104-107).                                    *)
THEOREM Refinement == Spec => ImplementsPromise
<1>1. Init => Promise!Init
  BY InitRefines
<1>2. IInv /\ [Next]_vars => [Promise!Next]_(Promise!vars)
  BY NextRefines
<1> QED BY <1>1, <1>2, Invariance, PTL DEF Spec, ImplementsPromise, Promise!Spec
=============================================================================
