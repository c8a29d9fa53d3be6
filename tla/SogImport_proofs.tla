-------------------------- MODULE SogImport_proofs --------------------------
(***************************************************************************)
(* The import of SOG containers: what a call authors is exactly what one   *)
(* version of the container stands for, the statistics are those of what   *)
(* is authored, a label without a centroid is always warned of, and the    *)
(* import implements its promise.  For all containers, requests and        *)
(* replacements.                                                           *)
(*                                                                         *)
(* First the values: the two bytes of a code are joined, a rotation has    *)
(* unit length, a label leads to its centroid.  Then the loops of Decode:  *)
(* each fills its arrays and leaves the rest, and the half turn into the   *)
(* frame of the stage comes last.  Then the call.                          *)
(***************************************************************************)
EXTENDS SogImport, FiniteSetTheorems, TLAPS

(* ---- Chains of checks -------------------------------------------------- *)

(* The first check that fails gives its code.                              *)
LEMMA FirstIs ==
  ASSUME NEW codes, NEW n \in DOMAIN codes, DOMAIN codes \subseteq Nat,
         codes[n] # NoProblem, \A m \in DOMAIN codes : m < n => codes[m] = NoProblem
  PROVE  FirstFailure(codes) = codes[n]
<1> DEFINE failing == {m \in DOMAIN codes : codes[m] # NoProblem}
           first == CHOOSE k \in failing : \A m \in failing : k <= m
<1>1. n \in failing /\ \A m \in failing : n <= m
  OBVIOUS
<1>2. \A k \in failing : (\A m \in failing : k <= m) => k = n
  BY <1>1
<1>3. first = n
  <2> HIDE DEF failing
  <2> QED BY <1>1, <1>2
<1>4. FirstFailure(codes) = IF failing = {} THEN NoProblem ELSE codes[first]
  BY DEF FirstFailure
<1> HIDE DEF failing, first
<1> QED BY <1>1, <1>3, <1>4

LEMMA NoneFails ==
  ASSUME NEW codes, \A m \in DOMAIN codes : codes[m] = NoProblem
  PROVE  FirstFailure(codes) = NoProblem
<1>1. {m \in DOMAIN codes : codes[m] # NoProblem} = {}
  OBVIOUS
<1> QED BY <1>1, Zenon DEF FirstFailure

LEMMA FirstOfTwo ==
  ASSUME NEW a, NEW b, b = NoProblem
  PROVE  FirstFailure(<<a, b>>) = a
<1> DEFINE codes == <<a, b>>
<1>1. DOMAIN codes = {1, 2} /\ codes[1] = a /\ codes[2] = b
  OBVIOUS
<1> HIDE DEF codes
<1>2. CASE a # NoProblem
  <2>1. \A m \in DOMAIN codes : m < 1 => codes[m] = NoProblem
    BY <1>1
  <2>2. 1 \in DOMAIN codes /\ DOMAIN codes \subseteq Nat
    BY <1>1
  <2> QED BY <1>1, <1>2, <2>1, <2>2, FirstIs DEF codes
<1>3. CASE a = NoProblem
  <2>1. \A m \in DOMAIN codes : codes[m] = NoProblem
    BY <1>1, <1>3
  <2> QED BY <1>3, <2>1, NoneFails DEF codes
<1> QED BY <1>2, <1>3

LEMMA LastOfThree ==
  ASSUME NEW c
  PROVE  FirstFailure(<<NoProblem, NoProblem, c>>) = c
<1> DEFINE codes == <<NoProblem, NoProblem, c>>
<1>1. DOMAIN codes = {1, 2, 3} /\ codes[1] = NoProblem /\ codes[2] = NoProblem /\ codes[3] = c
  OBVIOUS
<1> HIDE DEF codes
<1>2. CASE c # NoProblem
  <2>1. \A m \in DOMAIN codes : m < 3 => codes[m] = NoProblem
    BY <1>1
  <2>2. 3 \in DOMAIN codes /\ DOMAIN codes \subseteq Nat
    BY <1>1
  <2> QED BY <1>1, <1>2, <2>1, <2>2, FirstIs DEF codes
<1>3. CASE c = NoProblem
  <2>1. \A m \in DOMAIN codes : codes[m] = NoProblem
    BY <1>1, <1>3
  <2> QED BY <1>3, <2>1, NoneFails DEF codes
<1> QED BY <1>2, <1>3

(* ---- Extremes ---------------------------------------------------------- *)

LEMMA MaxOfTwo ==
  ASSUME NEW a \in Int, NEW b \in Int
  PROVE  Max({a, b}) = IF a >= b THEN a ELSE b
<1>1. CASE a >= b
  <2>1. \A x \in {a, b} : (\A y \in {a, b} : x >= y) => x = a
    BY <1>1
  <2>2. a \in {a, b} /\ \A y \in {a, b} : a >= y
    BY <1>1
  <2> QED BY <1>1, <2>1, <2>2 DEF Max
<1>2. CASE ~(a >= b)
  <2>1. \A x \in {a, b} : (\A y \in {a, b} : x >= y) => x = b
    BY <1>2
  <2>2. b \in {a, b} /\ \A y \in {a, b} : b >= y
    BY <1>2
  <2> QED BY <1>2, <2>1, <2>2 DEF Max
<1> QED BY <1>1, <1>2

LEMMA MinOfTwo ==
  ASSUME NEW a \in Int, NEW b \in Int
  PROVE  Min({a, b}) = IF a <= b THEN a ELSE b
<1>1. CASE a <= b
  <2>1. \A x \in {a, b} : (\A y \in {a, b} : x <= y) => x = a
    BY <1>1
  <2>2. a \in {a, b} /\ \A y \in {a, b} : a <= y
    BY <1>1
  <2> QED BY <1>1, <2>1, <2>2 DEF Min
<1>2. CASE ~(a <= b)
  <2>1. \A x \in {a, b} : (\A y \in {a, b} : x <= y) => x = b
    BY <1>2
  <2>2. b \in {a, b} /\ \A y \in {a, b} : b <= y
    BY <1>2
  <2> QED BY <1>2, <2>1, <2>2 DEF Min
<1> QED BY <1>1, <1>2

(* Within the range of a positive float an exponential is its logarithm's; *)
(* and its neighbours tell what has left it.                               *)
LEMMA ExponentialFacts ==
  ASSUME NEW n \in Int
  PROVE  /\ ExponentialIsFinite(Exponential(n)) <=> n <= kLogMax
         /\ ExponentialIsPositive(Exponential(n)) <=> n >= kLogMin
         /\ Exponential(n) \in Int
         /\ n \in kLogMin .. kLogMax => Exponential(n) = n
<1>1. kLogMin \in Int /\ kLogMax \in Int /\ kLogMin <= kLogMax
  BY ValuesAssumption
<1>2. PICK low \in Int : low = Min({kLogMax + 1, n})
                         /\ low = IF kLogMax + 1 <= n THEN kLogMax + 1 ELSE n
  BY <1>1, MinOfTwo
<1>3. Exponential(n) = Max({kLogMin - 1, low})
  BY <1>2, Zenon DEF Exponential
<1>4. Max({kLogMin - 1, low}) = IF kLogMin - 1 >= low THEN kLogMin - 1 ELSE low
  BY <1>1, MaxOfTwo
<1>5. PICK x \in Int : x = Exponential(n) /\ x = IF kLogMin - 1 >= low THEN kLogMin - 1 ELSE low
  BY <1>1, <1>3, <1>4
<1> QED BY <1>1, <1>2, <1>5 DEF ExponentialIsFinite, ExponentialIsPositive

(* ---- Texels ------------------------------------------------------------ *)

(* Every per-Gaussian plane has four bytes for each Gaussian.              *)
LEMMA TexelsAre ==
  ASSUME NEW d, IsDocument(d), NEW i \in 0 .. d.count - 1,
         NEW p \in 1 .. 7, p # 6, p = 7 => d.shBands # 0
  PROVE  p \in DOMAIN d.planes /\ d.planes[p].texel[i] \in [1 .. 4 -> 0 .. ByteMax]
<1>1. DOMAIN d.planes = 1 .. IF d.shBands = 0 THEN 5 ELSE 7
  BY DEF IsDocument
<1>2. p \in DOMAIN d.planes \ {6}
  <2>1. CASE d.shBands = 0
    <3>1. p \in 1 .. 5
      BY <2>1
    <3> QED BY <1>1, <2>1, <3>1
  <2>2. CASE d.shBands # 0
    BY <1>1, <2>2
  <2> QED BY <2>1, <2>2
<1>3. 0 .. d.count - 1 \subseteq DOMAIN d.planes[p].texel
  BY <1>2 DEF IsDocument
<1>4. \A t \in DOMAIN d.planes[p].texel : d.planes[p].texel[t] \in [1 .. 4 -> 0 .. ByteMax]
  BY <1>2 DEF IsDocument
<1> QED BY <1>2, <1>3, <1>4

(* ---- Positions --------------------------------------------------------- *)

LEMMA CodesAreWords ==
  ASSUME NEW low \in 0 .. ByteMax, NEW high \in 0 .. ByteMax
  PROVE  WordOf(low, high) \in Nat
<1>1. ByteMax \in Nat /\ low \in Nat /\ high \in Nat
  BY ValuesAssumption
<1>2. PICK h \in Nat : h = high * (ByteMax + 1)
  BY <1>1
<1>3. low + h \in Nat
  BY <1>1
<1> QED BY <1>2, <1>3, Zenon DEF WordOf

(* The remapped code is the fraction of the way it stands for.             *)
LEMMA PositionIs ==
  ASSUME NEW d, IsDocument(d), NEW i \in 0 .. d.count - 1, NEW axis \in 1 .. 3
  PROVE  /\ NormalizedPosition(d, i, axis) = PositionMeans(d, i, axis)
         /\ PositionMeans(d, i, axis) \in Int
<1>1. PICK low \in Int : low = d.mins[axis]
  BY DEF IsDocument
<1>2. PICK high \in Int : high = d.maxs[axis]
  BY DEF IsDocument
<1>3. PICK code \in Int : code = PositionCode(d, i, axis)
  <2>1. \A p \in {1, 2} : d.planes[p].texel[i] \in [1 .. 4 -> 0 .. ByteMax]
    BY TexelsAre
  <2>2. \A p \in {1, 2} : d.planes[p].texel[i][axis] \in 0 .. ByteMax
    BY <2>1
  <2>3. /\ Gaussian(d, "meansLow", i) = d.planes[1].texel[i]
        /\ Gaussian(d, "meansHigh", i) = d.planes[2].texel[i]
    BY DEF Gaussian, Plane
  <2>4. PositionCode(d, i, axis) = WordOf(d.planes[1].texel[i][axis], d.planes[2].texel[i][axis])
    BY <2>3, Zenon DEF PositionCode
  <2>5. PositionCode(d, i, axis) \in Nat
    BY <2>2, <2>4, CodesAreWords, Zenon
  <2> QED BY <2>5
<1>4. PositionCode(d, i, axis) = WordOf(d.planes[1].texel[i][axis], d.planes[2].texel[i][axis])
  <2>1. /\ Gaussian(d, "meansLow", i) = d.planes[1].texel[i]
        /\ Gaussian(d, "meansHigh", i) = d.planes[2].texel[i]
    BY DEF Gaussian, Plane
  <2> QED BY <2>1, Zenon DEF PositionCode
<1>5. PICK most \in Int : most = kPositionCodeMaximum
  BY ValuesAssumption DEF kPositionCodeMaximum
<1>6. NormalizedPosition(d, i, axis) = low * most + (high - low) * code
  BY <1>1, <1>2, <1>3, <1>5, Zenon DEF NormalizedPosition
<1>7. PositionMeans(d, i, axis) = low * (most - code) + high * code
  BY <1>1, <1>2, <1>3, <1>4, <1>5, Zenon DEF PositionMeans
<1>8. low * most + (high - low) * code = low * (most - code) + high * code
      /\ low * (most - code) + high * code \in Int
  OBVIOUS
<1> QED BY <1>6, <1>7, <1>8, Zenon

LEMMA PositionFits ==
  ASSUME NEW d, IsDocument(d), NEW i \in 0 .. d.count - 1, NEW axis \in 1 .. 3
  PROVE  PositionIsFinite(d, i, axis)
           <=> /\ d.maxs[axis] - d.mins[axis] \in -kFloatLimit .. kFloatLimit
               /\ AbsoluteOf(PositionMeans(d, i, axis)) <= kLogMax * kPositionCodeMaximum
BY PositionIs, Zenon DEF PositionIsFinite

(* ---- Rotations --------------------------------------------------------- *)

SignedSquare(v) == IF v < 0 THEN -(v * v) ELSE v * v
Part(stored, largest, c) == IF c = largest THEN 0 ELSE stored[c] * stored[c]

(* A normalised quaternion, scalar first.                                  *)
Turn(completed) ==
  [real |-> completed.square[0], i |-> completed.square[1],
   j |-> completed.square[2], k |-> completed.square[3],
   length |-> completed.length]
(* As it is in the frame of the model.                                     *)
InFrame(q) == [q EXCEPT !.j = -@, !.k = -@]
Turns(q, meaning) ==
  /\ Normalizable(q)
  /\ NormalizeQuaternion(q[0], q[1], q[2], q[3]) = meaning
  /\ IsNormalized(InFrame(meaning))

LEMMA SquareFacts ==
  ASSUME NEW v \in Int
  PROVE  /\ v * v \in Nat
         /\ SignedSquare(v) \in Int /\ AbsoluteOf(SignedSquare(v)) = v * v
<1>1. v * v \in Nat
  <2>1. CASE v >= 0
    <3>1. v \in Nat
      BY <2>1
    <3> QED BY <3>1
  <2>2. CASE v < 0
    <3>1. PICK n \in Nat : v = -n
      <4>1. -v \in Nat /\ v = -(-v)
        BY <2>2
      <4> QED BY <4>1
    <3>2. v * v = n * n /\ n * n \in Nat
      BY <3>1
    <3> QED BY <3>2
  <2> QED BY <2>1, <2>2
<1>2. PICK s \in Nat : s = v * v
  BY <1>1
<1>3. SignedSquare(v) = IF v < 0 THEN -s ELSE s
  BY <1>2, Zenon DEF SignedSquare
<1>4. SignedSquare(v) \in Int /\ AbsoluteOf(SignedSquare(v)) = s
  BY <1>3 DEF AbsoluteOf
<1> QED BY <1>1, <1>2, <1>4, Zenon

(* A component not stored is never negative and completes the others; the  *)
(* normalisation finds a quaternion of that length.                        *)
LEMMA CompletedIsNormalized ==
  ASSUME NEW stored \in [0 .. 3 -> Int], NEW largest \in 0 .. 3,
         NEW one \in Nat, one >= 1, NEW sum \in Nat,
         sum = Part(stored, largest, 0) + Part(stored, largest, 1)
                 + Part(stored, largest, 2) + Part(stored, largest, 3),
         NEW q, DOMAIN q = 0 .. 3,
         \A c \in 0 .. 3 : c # largest => q[c] = Component(SignedSquare(stored[c])),
         q[largest] = Component(Max({0, one - sum}))
  PROVE  Turns(q, Turn(Completed(stored, largest, one)))
<1>1. PICK root \in Nat : root = Max({0, one - sum}) /\ root + sum = Max({one, sum})
  <2>1. one - sum \in Int
    OBVIOUS
  <2>2. Max({0, one - sum}) = IF 0 >= one - sum THEN 0 ELSE one - sum
    BY <2>1, MaxOfTwo
  <2>3. Max({one, sum}) = IF one >= sum THEN one ELSE sum
    BY MaxOfTwo
  <2> QED BY <2>1, <2>2, <2>3
<1> DEFINE square(c) == IF c = largest THEN root ELSE SignedSquare(stored[c])
           part(c) == Part(stored, largest, c)
<1>2. ASSUME NEW c \in 0 .. 3
      PROVE  /\ q[c] = [finite |-> TRUE, square |-> square(c)]
             /\ square(c) \in Int /\ part(c) \in Nat
             /\ AbsoluteOf(square(c)) = IF c = largest THEN root ELSE part(c)
  <2>1. CASE c = largest
    <3>1. q[c] = [finite |-> TRUE, square |-> root]
      BY <1>1, <2>1, Zenon DEF Component
    <3>2. AbsoluteOf(root) = root
      BY DEF AbsoluteOf
    <3> QED BY <2>1, <3>1, <3>2 DEF Part
  <2>2. CASE c # largest
    <3>1. stored[c] \in Int
      OBVIOUS
    <3>2. PICK v \in Int : v = stored[c]
      BY <3>1
    <3>3. v * v \in Nat /\ SignedSquare(v) \in Int /\ AbsoluteOf(SignedSquare(v)) = v * v
      BY SquareFacts
    <3>4. part(c) = v * v
      BY <2>2, <3>2, Zenon DEF Part
    <3>5. square(c) = SignedSquare(v)
      BY <2>2, <3>2, Zenon
    <3>6. q[c] = [finite |-> TRUE, square |-> square(c)]
      BY <2>2, <3>2, <3>5, Zenon DEF Component
    <3> QED BY <2>2, <3>3, <3>4, <3>5, <3>6, Zenon
  <2> QED BY <2>1, <2>2
<1>3. part(largest) = 0
  BY Zenon DEF Part
<1>4. sum = part(0) + part(1) + part(2) + part(3)
  BY Zenon
<1>5. Completed(stored, largest, one)
        = [square |-> [c \in 0 .. 3 |-> square(c)], length |-> root + sum]
  <2>1. /\ part(0) = IF 0 = largest THEN 0 ELSE stored[0] * stored[0]
        /\ part(1) = IF 1 = largest THEN 0 ELSE stored[1] * stored[1]
        /\ part(2) = IF 2 = largest THEN 0 ELSE stored[2] * stored[2]
        /\ part(3) = IF 3 = largest THEN 0 ELSE stored[3] * stored[3]
    BY Zenon DEF Part
  <2>2. Completed(stored, largest, one)
          = [square |-> [c \in 0 .. 3 |-> IF c = largest THEN Max({0, one - sum})
                          ELSE IF stored[c] < 0 THEN -(stored[c] * stored[c])
                          ELSE stored[c] * stored[c]],
             length |-> Max({one, sum})]
    BY <1>4, <2>1, Zenon DEF Completed
  <2> QED BY <1>1, <2>2, Zenon DEF SignedSquare
<1> HIDE DEF square, part
<1>6. AbsoluteOf(square(0)) + AbsoluteOf(square(1)) + AbsoluteOf(square(2))
        + AbsoluteOf(square(3)) = root + sum
  <2>1. PICK a0, a1, a2, a3 \in Nat :
          a0 = part(0) /\ a1 = part(1) /\ a2 = part(2) /\ a3 = part(3)
    BY <1>2
  <2>2. /\ AbsoluteOf(square(0)) = IF 0 = largest THEN root ELSE a0
        /\ AbsoluteOf(square(1)) = IF 1 = largest THEN root ELSE a1
        /\ AbsoluteOf(square(2)) = IF 2 = largest THEN root ELSE a2
        /\ AbsoluteOf(square(3)) = IF 3 = largest THEN root ELSE a3
    BY <1>2, <2>1
  <2>3. /\ 0 = largest => a0 = 0
        /\ 1 = largest => a1 = 0
        /\ 2 = largest => a2 = 0
        /\ 3 = largest => a3 = 0
    BY <1>3, <2>1
  <2>4. sum = a0 + a1 + a2 + a3
    BY <1>4, <2>1
  <2>5. largest \in {0, 1, 2, 3}
    OBVIOUS
  <2> QED BY <2>2, <2>3, <2>4, <2>5
<1>7. root + sum # 0
  <2>1. Max({one, sum}) = IF one >= sum THEN one ELSE sum
    BY MaxOfTwo
  <2>2. Max({one, sum}) # 0
    <3>1. ~(one >= sum) => sum # 0
      OBVIOUS
    <3>2. one # 0
      OBVIOUS
    <3> QED BY <2>1, <3>1, <3>2
  <2> QED BY <1>1, <2>2, Zenon
<1> DEFINE meaning == Turn(Completed(stored, largest, one))
<1>8. meaning = [real |-> square(0), i |-> square(1), j |-> square(2), k |-> square(3),
                 length |-> root + sum]
  BY <1>5 DEF Turn
<1>9. NormalizeQuaternion(q[0], q[1], q[2], q[3])
        = [real |-> square(0), i |-> square(1), j |-> square(2), k |-> square(3),
           length |-> root + sum]
  <2>1. /\ q[0].square = square(0) /\ q[1].square = square(1)
        /\ q[2].square = square(2) /\ q[3].square = square(3)
    BY <1>2
  <2> QED BY <1>6, <1>7, <2>1, Zenon DEF NormalizeQuaternion
<1>10. Normalizable(q)
  BY <1>2 DEF Normalizable
<1> HIDE DEF meaning
<1>11. IsNormalized(InFrame(meaning))
  <2>1. PICK a, b, c, d, n \in Int :
          /\ a = square(0) /\ b = square(1) /\ c = square(2) /\ d = square(3)
          /\ n = root + sum
    <3>1. /\ square(0) \in Int /\ square(1) \in Int /\ square(2) \in Int /\ square(3) \in Int
          /\ root + sum \in Int
      BY <1>2
    <3> QED BY <3>1, Zenon
  <2>2. meaning = [real |-> a, i |-> b, j |-> c, k |-> d, length |-> n]
    BY <1>8, <2>1, Zenon
  <2>3. InFrame(meaning) = [real |-> a, i |-> b, j |-> -c, k |-> -d, length |-> n]
    <3>1. meaning.j = c /\ meaning.k = d
      BY <2>2
    <3>2. [meaning EXCEPT !.j = -c]
            = [real |-> a, i |-> b, j |-> -c, k |-> d, length |-> n]
      BY <2>2
    <3>3. [[real |-> a, i |-> b, j |-> -c, k |-> d, length |-> n] EXCEPT !.k = -d]
            = [real |-> a, i |-> b, j |-> -c, k |-> -d, length |-> n]
      OBVIOUS
    <3> QED BY <3>1, <3>2, <3>3, Zenon DEF InFrame
  <2>4. AbsoluteOf(a) + AbsoluteOf(b) + AbsoluteOf(c) + AbsoluteOf(d) = n
    BY <1>6, <2>1
  <2>5. AbsoluteOf(-c) = AbsoluteOf(c) /\ AbsoluteOf(-d) = AbsoluteOf(d)
    BY DEF AbsoluteOf
  <2> QED BY <2>3, <2>4, <2>5 DEF IsNormalized
<1> QED BY <1>8, <1>9, <1>10, <1>11, Zenon DEF Turns, meaning

(* ---- The slots ---------------------------------------------------------- *)

(* The slots of a tag are the components that are left, in their order.    *)
LEMMA SlotsAre ==
  ASSUME NEW largest \in 0 .. 3, NEW c \in 0 .. 3, c # largest
  PROVE  LET slot == IF c < largest THEN c + 1 ELSE c IN
         /\ slot \in 1 .. 3
         /\ Cardinality(0 .. c \ {largest}) = slot
         /\ (CHOOSE s \in 1 .. 3 : kQuaternionSlots[largest + 1][s] = c) = slot
<1> DEFINE slot == IF c < largest THEN c + 1 ELSE c
<1>1. slot \in 1 .. 3
  OBVIOUS
<1>2. Cardinality(0 .. c \ {largest}) = slot
  <2>1. IsFiniteSet(0 .. c) /\ Cardinality(0 .. c) = c + 1
    <3>1. 0 \in Int /\ c \in Int /\ ~(0 > c) /\ c - 0 + 1 = c + 1
      OBVIOUS
    <3> QED BY <3>1, FS_Interval
  <2>2. CASE c < largest
    <3>1. 0 .. c \ {largest} = 0 .. c
      BY <2>2
    <3> QED BY <2>1, <2>2, <3>1
  <2>3. CASE ~(c < largest)
    <3>1. largest \in 0 .. c
      BY <2>3
    <3>2. Cardinality(0 .. c \ {largest}) = Cardinality(0 .. c) - 1
      BY <2>1, <3>1, FS_RemoveElement
    <3> QED BY <2>1, <2>3, <3>2
  <2> QED BY <2>2, <2>3
<1>3. \A s \in 1 .. 3 : kQuaternionSlots[largest + 1][s] = c <=> s = slot
  <2>1. largest = 0 \/ largest = 1 \/ largest = 2 \/ largest = 3
    OBVIOUS
  <2>2. \A s \in 1 .. 3 : s = 1 \/ s = 2 \/ s = 3
    OBVIOUS
  <2>3. CASE largest = 0
    <3>1. kQuaternionSlots[largest + 1] = <<1, 2, 3>>
      BY <2>3 DEF kQuaternionSlots
    <3> QED BY <2>2, <2>3, <3>1
  <2>4. CASE largest = 1
    <3>1. kQuaternionSlots[largest + 1] = <<0, 2, 3>>
      BY <2>4 DEF kQuaternionSlots
    <3> QED BY <2>2, <2>4, <3>1
  <2>5. CASE largest = 2
    <3>1. kQuaternionSlots[largest + 1] = <<0, 1, 3>>
      BY <2>5 DEF kQuaternionSlots
    <3> QED BY <2>2, <2>5, <3>1
  <2>6. CASE largest = 3
    <3>1. kQuaternionSlots[largest + 1] = <<0, 1, 2>>
      BY <2>6 DEF kQuaternionSlots
    <3> QED BY <2>2, <2>6, <3>1
  <2> QED BY <2>1, <2>3, <2>4, <2>5, <2>6
<1> HIDE DEF slot
<1>4. (CHOOSE s \in 1 .. 3 : kQuaternionSlots[largest + 1][s] = c) = slot
  BY <1>1, <1>3, Zenon
<1> QED BY <1>1, <1>2, <1>4, Zenon DEF slot

Fraction(stored, s) == 2 * stored[s] - ByteMax

LEMMA SquareIs ==
  ASSUME NEW v \in Int
  PROVE  Signed(IF v < 0 THEN 1 ELSE 0, v * v) = SignedSquare(v)
<1>1. PICK s \in Int : s = v * v
  OBVIOUS
<1>2. Signed(IF v < 0 THEN 1 ELSE 0, s) = IF v < 0 THEN -s ELSE s
  BY DEF Signed
<1> QED BY <1>1, <1>2, Zenon DEF SignedSquare

(* A tagged rotation of any three bytes decodes to what it stands for.     *)
LEMMA RotationIs ==
  ASSUME NEW stored \in [1 .. 4 -> 0 .. ByteMax], stored[4] \in ByteMax - 3 .. ByteMax
  PROVE  Turns(UnpackRotation(stored), RotationMeans(stored))
<1> DEFINE largest  == stored[4] - (ByteMax - 3)
           Value(s) == Fraction(stored, s)
           Sq(s)    == SignedSquare(Value(s))
           f == [c \in 0 .. 3 |-> IF c = largest THEN 0
                                  ELSE 2 * stored[Cardinality(0 .. c \ {largest})] - ByteMax]
           one  == 2 * ByteMax * ByteMax
           norm == AbsoluteOf(Sq(1)) + AbsoluteOf(Sq(2)) + AbsoluteOf(Sq(3))
           Stage(c) == CHOOSE s \in 1 .. 3 : kQuaternionSlots[largest + 1][s] = c
           q == UnpackRotation(stored)
<1>1. largest \in 0 .. 3 /\ ByteMax \in Nat /\ ByteMax >= 3
  BY ValuesAssumption
<1>2. one \in Nat /\ one >= 1
  <2>1. PICK b \in Nat : b = ByteMax /\ b >= 3
    BY <1>1
  <2>2. PICK t \in Nat : t = 2 * b /\ t >= 1
    BY <2>1
  <2>3. PICK k \in Nat : b = k + 1
    <3>1. b - 1 \in Nat /\ b = (b - 1) + 1
      BY <2>1
    <3> QED BY <3>1
  <2>4. t * b = t * k + t /\ t * k \in Nat
    BY <2>3
  <2>5. t * b \in Nat /\ t * b >= 1
    BY <2>2, <2>4
  <2> QED BY <2>1, <2>2, <2>5, Zenon
<1>3. \A s \in 1 .. 3 : Value(s) \in Int
  <2>1. \A s \in 1 .. 3 : stored[s] \in Int
    BY <1>1
  <2> QED BY <1>1, <2>1 DEF Fraction
<1>4. RotationMeans(stored) = Turn(Completed(f, largest, one))
  BY Zenon DEF RotationMeans, Turn
<1>5. q = [c \in 0 .. 3 |-> IF c = largest THEN Component(Max({0, one - norm}))
                            ELSE Component(Sq(Stage(c)))]
  <2> DEFINE Raw(s) == Signed(IF Value(s) < 0 THEN 1 ELSE 0, Value(s) * Value(s))
             rawNorm == AbsoluteOf(Raw(1)) + AbsoluteOf(Raw(2)) + AbsoluteOf(Raw(3))
  <2>1. q = [c \in 0 .. 3 |-> IF c = largest THEN Component(Max({0, one - rawNorm}))
                              ELSE Component(Raw(Stage(c)))]
    BY Zenon DEF UnpackRotation, kQuaternionTagBase, Fraction
  <2>2. \A s \in 1 .. 3 : Raw(s) = Sq(s)
    BY <1>3, SquareIs
  <2>3. \A c \in 0 .. 3 : c # largest => Stage(c) \in 1 .. 3
    <3> TAKE c \in 0 .. 3
    <3> HAVE c # largest
    <3> DEFINE s == IF c < largest THEN c + 1 ELSE c
    <3> HIDE DEF largest
    <3>1. s \in 1 .. 3
      BY <1>1
    <3>2. Stage(c) = s
      BY <1>1, SlotsAre, Zenon
    <3> HIDE DEF s, Stage
    <3> QED BY <3>1, <3>2, Zenon
  <2> HIDE DEF Raw, Sq, Stage, largest, one, q
  <2>4. rawNorm = norm
    BY <2>2
  <2>5. \A c \in 0 .. 3 : c # largest => Raw(Stage(c)) = Sq(Stage(c))
    BY <2>2, <2>3, Zenon
  <2> HIDE DEF rawNorm, norm
  <2> QED BY <2>1, <2>4, <2>5, Zenon
<1> HIDE DEF Stage, Sq, one, q, norm
<1>6. \A c \in 0 .. 3 : c # largest =>
        LET s == IF c < largest THEN c + 1 ELSE c IN
        s \in 1 .. 3 /\ Stage(c) = s /\ f[c] = Value(s)
  <2> HIDE DEF largest
  <2> TAKE c \in 0 .. 3
  <2> HAVE c # largest
  <2> DEFINE s == IF c < largest THEN c + 1 ELSE c
  <2>1. s \in 1 .. 3 /\ Cardinality(0 .. c \ {largest}) = s /\ Stage(c) = s
    BY <1>1, SlotsAre, Zenon DEF Stage
  <2> HIDE DEF s
  <2>2. f[c] = 2 * stored[Cardinality(0 .. c \ {largest})] - ByteMax
    OBVIOUS
  <2> QED BY <2>1, <2>2, Zenon DEF Fraction, s
<1>7. f \in [0 .. 3 -> Int] /\ f = [c \in 0 .. 3 |-> f[c]]
  <2>1. \A c \in 0 .. 3 : f[c] \in Int
    <3> TAKE c \in 0 .. 3
    <3>1. CASE c = largest
      BY <3>1
    <3>2. CASE c # largest
      <4> HIDE DEF f, largest, Value
      <4> QED BY <1>3, <1>6, <3>2
    <3> QED BY <3>1, <3>2
  <2>2. f = [c \in 0 .. 3 |-> f[c]]
    BY Zenon
  <2> HIDE DEF f
  <2> QED BY <2>1, <2>2
<1> HIDE DEF f, largest
<1>8. \A c \in 0 .. 3 : c # largest => q[c] = Component(SignedSquare(f[c]))
  <2>1. \A c \in 0 .. 3 : c # largest => q[c] = Component(Sq(Stage(c)))
    BY <1>5, Zenon
  <2>2. \A c \in 0 .. 3 : c # largest => f[c] = Value(Stage(c))
    BY <1>6, Zenon
  <2> QED BY <2>1, <2>2, Zenon DEF Sq
<1>9. norm \in Nat /\ norm = Part(f, largest, 0) + Part(f, largest, 1)
                               + Part(f, largest, 2) + Part(f, largest, 3)
  <2>1. \A s \in 1 .. 3 : AbsoluteOf(Sq(s)) = Value(s) * Value(s) /\ Value(s) * Value(s) \in Nat
    BY <1>3, SquareFacts, Zenon DEF Sq
  <2>2. PICK a1, a2, a3 \in Nat : /\ a1 = Value(1) * Value(1) /\ a2 = Value(2) * Value(2)
                                  /\ a3 = Value(3) * Value(3)
    BY <2>1
  <2>3. norm = a1 + a2 + a3
    BY <2>1, <2>2 DEF norm
  <2>4. \A c \in 0 .. 3 : c # largest =>
          LET s == IF c < largest THEN c + 1 ELSE c IN Part(f, largest, c) = Value(s) * Value(s)
    BY <1>6, Zenon DEF Part
  <2>5. Part(f, largest, largest) = 0
    BY Zenon DEF Part
  <2> HIDE DEF Value
  <2>6. \A c \in 0 .. 3 : c # largest =>
          LET s == IF c < largest THEN c + 1 ELSE c IN
          Part(f, largest, c) = IF s = 1 THEN a1 ELSE IF s = 2 THEN a2 ELSE a3
    <3>1. \A s \in 1 .. 3 : Value(s) * Value(s) = IF s = 1 THEN a1 ELSE IF s = 2 THEN a2 ELSE a3
      <4>1. \A s \in 1 .. 3 : s = 1 \/ s = 2 \/ s = 3
        OBVIOUS
      <4> QED BY <2>2, <4>1, Zenon
    <3>2. \A c \in 0 .. 3 : c # largest => (IF c < largest THEN c + 1 ELSE c) \in 1 .. 3
      BY <1>1
    <3> QED BY <2>4, <3>1, <3>2, Zenon
  <2>7. PICK p : p = [c \in 0 .. 3 |-> Part(f, largest, c)]
    OBVIOUS
  <2>8. /\ p[largest] = 0
        /\ \A c \in 0 .. 3 : c # largest =>
             LET s == IF c < largest THEN c + 1 ELSE c IN
             p[c] = IF s = 1 THEN a1 ELSE IF s = 2 THEN a2 ELSE a3
    BY <1>1, <2>5, <2>6, <2>7, Zenon
  <2>9. a1 + a2 + a3 = p[0] + p[1] + p[2] + p[3]
    <3>1. CASE largest = 0
      BY <2>8, <3>1
    <3>2. CASE largest = 1
      BY <2>8, <3>2
    <3>3. CASE largest = 2
      BY <2>8, <3>3
    <3>4. CASE largest = 3
      BY <2>8, <3>4
    <3>5. largest \in {0, 1, 2, 3}
      BY <1>1
    <3> QED BY <3>1, <3>2, <3>3, <3>4, <3>5
  <2>10. /\ p[0] = Part(f, largest, 0) /\ p[1] = Part(f, largest, 1)
         /\ p[2] = Part(f, largest, 2) /\ p[3] = Part(f, largest, 3)
    BY <2>7
  <2>11. norm \in Nat
    BY <2>3
  <2> QED BY <2>3, <2>9, <2>10, <2>11, Zenon
<1>10. q[largest] = Component(Max({0, one - norm})) /\ DOMAIN q = 0 .. 3
  BY <1>1, <1>5, Zenon
<1>11. Turns(q, Turn(Completed(f, largest, one)))
  <2>1. \A g \in [0 .. 3 -> Int], n \in Nat :
          /\ n = Part(g, largest, 0) + Part(g, largest, 1)
                   + Part(g, largest, 2) + Part(g, largest, 3)
          /\ \A c \in 0 .. 3 : c # largest => q[c] = Component(SignedSquare(g[c]))
          /\ q[largest] = Component(Max({0, one - n}))
          => Turns(q, Turn(Completed(g, largest, one)))
    BY <1>1, <1>2, <1>10, CompletedIsNormalized
  <2> QED BY <1>7, <1>8, <1>9, <1>10, <2>1, Zenon
<1> QED BY <1>4, <1>11, Zenon DEF q

(* ---- Division ---------------------------------------------------------- *)

LEMMA DivisionFacts ==
  ASSUME NEW e \in Nat, NEW p \in Nat, p >= 1
  PROVE  /\ e \div p \in Nat /\ e % p \in Nat /\ e % p < p
         /\ e = (e \div p) * p + (e % p)
OBVIOUS

LEMMA Divided ==
  ASSUME NEW e \in Nat, NEW p \in Nat, p >= 1
  PROVE  \E d \in Nat, r \in Nat :
           d = e \div p /\ r = e % p /\ r < p /\ e = d * p + r
BY DivisionFacts

LEMMA DivisionIsUnique ==
  ASSUME NEW p \in Nat, NEW a \in Nat, NEW r \in Nat, r < p
  PROVE  (a * p + r) \div p = a /\ (a * p + r) % p = r
<1> DEFINE e == a * p + r
<1>1. e \in Nat /\ p >= 1
  <2>1. a * p \in Nat
    OBVIOUS
  <2> QED BY <2>1
<1>2. PICK q \in Nat, s \in Nat : q = e \div p /\ s = e % p
  BY <1>1, DivisionFacts
<1>3. s < p /\ q * p + s = a * p + r
  BY <1>1, <1>2, DivisionFacts
<1> HIDE DEF e
<1>4. ASSUME NEW x \in Nat, NEW y \in Nat, x < y
      PROVE  x * p + p <= y * p
  <2>1. PICK k \in Nat : y = x + 1 + k
    <3>1. y - x - 1 \in Nat /\ y = x + 1 + (y - x - 1)
      BY <1>4
    <3> QED BY <3>1
  <2>2. y * p = x * p + p + k * p /\ k * p \in Nat /\ x * p \in Nat
    BY <2>1
  <2> QED BY <2>2
<1>5. q * p \in Nat /\ a * p \in Nat
  OBVIOUS
<1>6. ~(q < a)
  <2> SUFFICES ASSUME q < a PROVE FALSE
    OBVIOUS
  <2>1. q * p + p <= a * p
    BY <1>4
  <2> QED BY <1>3, <1>5, <2>1
<1>7. ~(a < q)
  <2> SUFFICES ASSUME a < q PROVE FALSE
    OBVIOUS
  <2>1. a * p + p <= q * p
    BY <1>4
  <2> QED BY <1>3, <1>5, <2>1
<1>8. q = a
  BY <1>6, <1>7
<1>9. s = r
  BY <1>3, <1>5, <1>8
<1> QED BY <1>2, <1>8, <1>9 DEF e

LEMMA QuotientBelow ==
  ASSUME NEW e \in Nat, NEW p \in Nat, NEW q \in Nat, p >= 1, e < p * q
  PROVE  e \div p < q /\ q >= 1
<1>1. PICK d \in Nat, l \in Nat : d = e \div p /\ l < p /\ e = d * p + l
  BY DivisionFacts
<1>2. ~(q <= d)
  <2> SUFFICES ASSUME q <= d PROVE FALSE
    OBVIOUS
  <2>1. PICK k \in Nat : d = q + k
    <3>1. d - q \in Nat /\ d = q + (d - q)
      OBVIOUS
    <3> QED BY <3>1
  <2>2. d * p = p * q + k * p /\ k * p \in Nat /\ p * q \in Nat
    BY <2>1
  <2> QED BY <1>1, <2>2
<1> QED BY <1>1, <1>2

(* The place of an interleaved element is unique.                          *)
IsPlaceOf(count, each, n, g, x) ==
  /\ g - 1 = (n - 1) \div each /\ x - 1 = (n - 1) % each
  /\ \A p \in (1 .. count) \X (1 .. each) :
       n = (p[1] - 1) * each + p[2] <=> p = <<g, x>>

LEMMA PlaceOf ==
  ASSUME NEW count \in Nat, NEW each \in Nat, NEW n \in 1 .. count * each
  PROVE  \E g \in 1 .. count, x \in 1 .. each : IsPlaceOf(count, each, n, g, x)
<1>1. PICK total \in Nat : total = count * each
  OBVIOUS
<1>2. PICK m \in Nat : m = n - 1 /\ m < total /\ n = m + 1
  BY <1>1
<1>3. each >= 1
  <2>1. each = 0 => total = 0
    BY <1>1
  <2> QED BY <1>2, <2>1
<1>4. PICK d \in Nat, r \in Nat : d = m \div each /\ r = m % each /\ r < each /\ m = d * each + r
  BY <1>3, Divided
<1>5. d < count
  <2>1. m < each * count
    <3>1. count * each = each * count
      OBVIOUS
    <3> QED BY <1>1, <1>2, <3>1
  <2>2. m \div each < count
    BY <1>3, <2>1, QuotientBelow
  <2> QED BY <1>4, <2>2, Zenon
<1>6. PICK g \in 1 .. count : g = d + 1
  BY <1>5
<1>7. PICK x \in 1 .. each : x = r + 1
  BY <1>4
<1>8. g - 1 = d /\ x - 1 = r
  BY <1>6, <1>7
<1>9. (g - 1) * each + x = n
  <2>1. PICK k \in Nat : k = d * each
    OBVIOUS
  <2>2. k + x = n
    BY <1>2, <1>4, <1>7, <2>1
  <2> QED BY <1>8, <2>1, <2>2, Zenon
<1>10. ASSUME NEW h \in 1 .. count, NEW y \in 1 .. each, n = (h - 1) * each + y
       PROVE  h = g /\ y = x
  <2>1. PICK i \in Nat : i = h - 1 /\ h = i + 1
    OBVIOUS
  <2>2. PICK s \in Nat : s = y - 1 /\ s < each /\ y = s + 1
    OBVIOUS
  <2>3. m = i * each + s
    <3>1. PICK k \in Nat : k = i * each
      OBVIOUS
    <3>2. n = k + y
      BY <1>10, <2>1, <3>1, Zenon
    <3>3. m = k + s
      BY <1>2, <2>2, <3>2
    <3> QED BY <3>1, <3>3, Zenon
  <2>4. (i * each + s) \div each = i /\ (i * each + s) % each = s
    BY <2>2, DivisionIsUnique
  <2>5. d = i /\ r = s
    BY <1>4, <2>3, <2>4, Zenon
  <2> QED BY <1>6, <1>7, <2>1, <2>2, <2>5
<1>11. ASSUME NEW p \in (1 .. count) \X (1 .. each)
       PROVE  n = (p[1] - 1) * each + p[2] <=> p = <<g, x>>
  <2>1. PICK h \in 1 .. count, y \in 1 .. each : p = <<h, y>>
    OBVIOUS
  <2>2. p[1] = h /\ p[2] = y
    BY <2>1
  <2>3. n = (h - 1) * each + y <=> h = g /\ y = x
    BY <1>9, <1>10, Zenon
  <2>4. p = <<g, x>> <=> h = g /\ y = x
    BY <2>1
  <2> QED BY <2>2, <2>3, <2>4, Zenon
<1>12. d = (n - 1) \div each /\ r = (n - 1) % each
  BY <1>2, <1>4, Zenon
<1> QED BY <1>8, <1>11, <1>12, Zenon DEF IsPlaceOf

(* ---- The half turn of the harmonics ------------------------------------ *)

(* The sign of a coefficient, from its band and its order.                 *)
SignOf(l, m) == (IF (l + AbsoluteOf(m)) % 2 = 0 THEN 1 ELSE -1) * (IF m < 0 THEN -1 ELSE 1)

LEMMA SignIs ==
  ASSUME NEW l \in 1 .. 3, NEW m \in -l .. l, NEW c \in Int, c = l * l + l + m
  PROVE  HalfTurnSign(c) = SignOf(l, m)
<1> DEFINE Band(b) == c \in b * b .. (b + 1) * (b + 1) - 1
<1>1. \A b \in 1 .. 3 : Band(b) <=> b = l
  <2>1. l = 1 \/ l = 2 \/ l = 3
    OBVIOUS
  <2>2. \A b \in 1 .. 3 : b = 1 \/ b = 2 \/ b = 3
    OBVIOUS
  <2>3. Band(1) <=> c \in 1 .. 3
    OBVIOUS
  <2>4. Band(2) <=> c \in 4 .. 8
    OBVIOUS
  <2>5. Band(3) <=> c \in 9 .. 15
    OBVIOUS
  <2>6. /\ l = 1 => c \in 1 .. 3
        /\ l = 2 => c \in 4 .. 8
        /\ l = 3 => c \in 9 .. 15
    OBVIOUS
  <2> HIDE DEF Band
  <2>7. CASE l = 1
    BY <2>2, <2>3, <2>4, <2>5, <2>6, <2>7
  <2>8. CASE l = 2
    BY <2>2, <2>3, <2>4, <2>5, <2>6, <2>8
  <2>9. CASE l = 3
    BY <2>2, <2>3, <2>4, <2>5, <2>6, <2>9
  <2> QED BY <2>1, <2>7, <2>8, <2>9
<1>2. (CHOOSE b \in 1 .. 3 : Band(b)) = l
  <2> HIDE DEF Band
  <2> QED BY <1>1, Zenon
<1>3. c - l * l - l = m
  <2>1. PICK s \in Int : s = l * l
    OBVIOUS
  <2>2. c - s - l = m
    BY <2>1
  <2> QED BY <2>1, <2>2, Zenon
<1> QED BY <1>2, <1>3, Zenon DEF HalfTurnSign, SignOf

LEMMA SignsAre == \A c \in 1 .. 15 : kShFlipYZ[c] = HalfTurnSign(c) /\ kShFlipYZ[c] \in {1, -1}
<1>1. HalfTurnSign(1) = -1
  <2>1. HalfTurnSign(1) = SignOf(1, -1)
    BY SignIs
  <2>2. SignOf(1, -1) = -1
    BY DEF SignOf, AbsoluteOf
  <2> QED BY <2>1, <2>2
<1>2. HalfTurnSign(2) = -1
  <2>1. HalfTurnSign(2) = SignOf(1, 0)
    BY SignIs
  <2>2. SignOf(1, 0) = -1
    BY DEF SignOf, AbsoluteOf
  <2> QED BY <2>1, <2>2
<1>3. HalfTurnSign(3) = 1
  <2>1. HalfTurnSign(3) = SignOf(1, 1)
    BY SignIs
  <2>2. SignOf(1, 1) = 1
    BY DEF SignOf, AbsoluteOf
  <2> QED BY <2>1, <2>2
<1>4. HalfTurnSign(4) = -1
  <2>1. HalfTurnSign(4) = SignOf(2, -2)
    BY SignIs
  <2>2. SignOf(2, -2) = -1
    BY DEF SignOf, AbsoluteOf
  <2> QED BY <2>1, <2>2
<1>5. HalfTurnSign(5) = 1
  <2>1. HalfTurnSign(5) = SignOf(2, -1)
    BY SignIs
  <2>2. SignOf(2, -1) = 1
    BY DEF SignOf, AbsoluteOf
  <2> QED BY <2>1, <2>2
<1>6. HalfTurnSign(6) = 1
  <2>1. HalfTurnSign(6) = SignOf(2, 0)
    BY SignIs
  <2>2. SignOf(2, 0) = 1
    BY DEF SignOf, AbsoluteOf
  <2> QED BY <2>1, <2>2
<1>7. HalfTurnSign(7) = -1
  <2>1. HalfTurnSign(7) = SignOf(2, 1)
    BY SignIs
  <2>2. SignOf(2, 1) = -1
    BY DEF SignOf, AbsoluteOf
  <2> QED BY <2>1, <2>2
<1>8. HalfTurnSign(8) = 1
  <2>1. HalfTurnSign(8) = SignOf(2, 2)
    BY SignIs
  <2>2. SignOf(2, 2) = 1
    BY DEF SignOf, AbsoluteOf
  <2> QED BY <2>1, <2>2
<1>9. HalfTurnSign(9) = -1
  <2>1. HalfTurnSign(9) = SignOf(3, -3)
    BY SignIs
  <2>2. SignOf(3, -3) = -1
    BY DEF SignOf, AbsoluteOf
  <2> QED BY <2>1, <2>2
<1>10. HalfTurnSign(10) = 1
  <2>1. HalfTurnSign(10) = SignOf(3, -2)
    BY SignIs
  <2>2. SignOf(3, -2) = 1
    BY DEF SignOf, AbsoluteOf
  <2> QED BY <2>1, <2>2
<1>11. HalfTurnSign(11) = -1
  <2>1. HalfTurnSign(11) = SignOf(3, -1)
    BY SignIs
  <2>2. SignOf(3, -1) = -1
    BY DEF SignOf, AbsoluteOf
  <2> QED BY <2>1, <2>2
<1>12. HalfTurnSign(12) = -1
  <2>1. HalfTurnSign(12) = SignOf(3, 0)
    BY SignIs
  <2>2. SignOf(3, 0) = -1
    BY DEF SignOf, AbsoluteOf
  <2> QED BY <2>1, <2>2
<1>13. HalfTurnSign(13) = 1
  <2>1. HalfTurnSign(13) = SignOf(3, 1)
    BY SignIs
  <2>2. SignOf(3, 1) = 1
    BY DEF SignOf, AbsoluteOf
  <2> QED BY <2>1, <2>2
<1>14. HalfTurnSign(14) = -1
  <2>1. HalfTurnSign(14) = SignOf(3, 2)
    BY SignIs
  <2>2. SignOf(3, 2) = -1
    BY DEF SignOf, AbsoluteOf
  <2> QED BY <2>1, <2>2
<1>15. HalfTurnSign(15) = 1
  <2>1. HalfTurnSign(15) = SignOf(3, 3)
    BY SignIs
  <2>2. SignOf(3, 3) = 1
    BY DEF SignOf, AbsoluteOf
  <2> QED BY <2>1, <2>2
<1>16. \A c \in 1 .. 15 : \/ c = 1 \/ c = 2 \/ c = 3 \/ c = 4 \/ c = 5 \/ c = 6 \/ c = 7 \/ c = 8
                           \/ c = 9 \/ c = 10 \/ c = 11 \/ c = 12 \/ c = 13 \/ c = 14 \/ c = 15
  OBVIOUS
<1> QED BY <1>1, <1>2, <1>3, <1>4, <1>5, <1>6, <1>7, <1>8, <1>9, <1>10, <1>11, <1>12, <1>13,
           <1>14, <1>15, <1>16 DEF kShFlipYZ

(* ---- The palette ------------------------------------------------------- *)

(* Row and column address the centroid behind as many as its label says.   *)
LEMMA CentroidIs ==
  ASSUME NEW d, IsDocument(d), d.shBands # 0, NEW i \in 0 .. d.count - 1, NEW x \in Nat
  PROVE  /\ Label(d, i) \in Nat
         /\ Centroid(d, i, x)
              = d.planes[6].texel[Label(d, i) * Coefficients(d) + x]
<1>1. PICK k \in Nat : k = kShCentroidsPerRow /\ k >= 1
  BY ValuesAssumption
<1>2. PICK c \in Nat : c = Coefficients(d)
  <2>1. d.shBands = 0 \/ d.shBands = 1 \/ d.shBands = 2 \/ d.shBands = 3
    BY DEF IsDocument
  <2> QED BY <2>1 DEF Coefficients
<1>3. PICK label \in Nat : label = Label(d, i)
  <2>1. d.planes[7].texel[i] \in [1 .. 4 -> 0 .. ByteMax]
    BY TexelsAre
  <2>2. Gaussian(d, "shLabels", i) = d.planes[7].texel[i]
    BY DEF Gaussian, Plane
  <2>3. d.planes[7].texel[i][1] \in 0 .. ByteMax /\ d.planes[7].texel[i][2] \in 0 .. ByteMax
    BY <2>1
  <2>4. Label(d, i) = WordOf(d.planes[7].texel[i][1], d.planes[7].texel[i][2])
    BY <2>2, Zenon DEF Label
  <2> QED BY <2>3, <2>4, CodesAreWords, Zenon
<1>4. PICK row \in Nat, column \in Nat :
        row = label \div k /\ column = label % k /\ label = row * k + column
  BY <1>1, Divided
<1>5. d.planes[6].width = k * c
  BY <1>1, <1>2, Zenon DEF IsDocument
<1>6. Centroid(d, i, x) = d.planes[6].texel[row * (k * c) + (column * c + x)]
  <2>1. Plane["shCentroids"] = 6
    BY DEF Plane
  <2> QED BY <1>1, <1>2, <1>3, <1>4, <1>5, <2>1, Zenon DEF Centroid, Texel
<1>7. row * (k * c) + (column * c + x) = label * c + x
  <2>1. row * (k * c) + (column * c + x) = (row * k + column) * c + x
    OBVIOUS
  <2> QED BY <1>4, <2>1, Zenon
<1> QED BY <1>2, <1>3, <1>6, <1>7, Zenon

(* ---- The cloud a document stands for ----------------------------------- *)

PositionOf(v, i) ==
  [axis \in 1 .. 3 |-> (IF axis = 1 THEN 1 ELSE -1) * PositionMeans(v, i, axis)]
RestMeans(v, i, x) ==
  IF WordOf(v.planes[7].texel[i][1], v.planes[7].texel[i][2]) \notin 0 .. v.paletteCount - 1
  THEN <<0, 0, 0>>
  ELSE [channel \in 1 .. 3 |->
          HalfTurnSign(x)
            * CentroidMeans(v, WordOf(v.planes[7].texel[i][1], v.planes[7].texel[i][2]),
                            x - 1)[channel]]
RestOf(v) ==
  LET Rest(g, x) == RestMeans(v, g - 1, x)
  IN  Interleaved(v.count, Coefficients(v), Rest)
CloudOf(v) ==
  [positions |-> [g \in 1 .. v.count |-> PositionOf(v, g - 1)],
   opacities |-> [g \in 1 .. v.count |-> v.planes[5].texel[g - 1][4]],
   scales |-> [g \in 1 .. v.count |-> Colour(v.scalesCodebook, v.planes[3].texel[g - 1])],
   dcCoefficients |-> [g \in 1 .. v.count |-> Colour(v.sh0Codebook, v.planes[5].texel[g - 1])],
   rotations |-> [g \in 1 .. v.count |-> InFrame(RotationMeans(v.planes[4].texel[g - 1]))],
   restCoefficients |-> RestOf(v)]

LEMMA ContentIs ==
  ASSUME NEW n, NEW r
  PROVE  LET v == Files[n] IN
         Content(n, r) = IF r.metadataOnly
                         THEN Header([gaussianCount |-> v.count, shDegree |-> v.shBands])
                         ELSE Full(CloudOf(v), v)
BY DEF Content, Header, Full, CloudOf, PositionOf, RestMeans, RestOf, InFrame

(* What the stages fill.                                                   *)
RawScale(v, i) ==
  [axis \in 1 .. 3 |-> LinearScales(v)[v.planes[3].texel[i][axis]]]
RawRotation(v, i) ==
  LET q == UnpackRotation(v.planes[4].texel[i]) IN NormalizeQuaternion(q[0], q[1], q[2], q[3])
RawRest(v, n) ==
  RestCoefficient(v, (n - 1) \div Coefficients(v), (n - 1) % Coefficients(v))
Raw(v) ==
  [positions |-> [g \in 1 .. v.count |->
                    [axis \in 1 .. 3 |-> NormalizedPosition(v, g - 1, axis)]],
   opacities |-> [g \in 1 .. v.count |-> v.planes[5].texel[g - 1][4]],
   scales |-> [g \in 1 .. v.count |-> RawScale(v, g - 1)],
   dcCoefficients |-> [g \in 1 .. v.count |-> Colour(v.sh0Codebook, v.planes[5].texel[g - 1])],
   rotations |-> [g \in 1 .. v.count |-> RawRotation(v, g - 1)],
   restCoefficients |-> IF v.shBands = 0 THEN <<>>
                        ELSE [n \in 1 .. v.count * Coefficients(v) |-> RawRest(v, n)]]

LEMMA StagesFill ==
  ASSUME NEW v
  PROVE  /\ DecodedStage("positions", v) = [positions |-> Raw(v).positions]
         /\ DecodedStage("scales", v) = [scales |-> Raw(v).scales]
         /\ DecodedStage("sh0", v) = [dcCoefficients |-> Raw(v).dcCoefficients,
                                      opacities |-> Raw(v).opacities]
         /\ DecodedStage("rotations", v) = [rotations |-> Raw(v).rotations]
         /\ v.shBands # 0 => DecodedStage("restCoefficients", v)
                               = [restCoefficients |-> Raw(v).restCoefficients]
<1>1. DecodedStage("positions", v) = [positions |-> Raw(v).positions]
  BY DEF DecodedStage, Each, Raw
<1>2. DecodedStage("scales", v) = [scales |-> Raw(v).scales]
  BY DEF DecodedStage, Each, Raw, RawScale, Gaussian, Plane
<1>3. DecodedStage("sh0", v) = [dcCoefficients |-> Raw(v).dcCoefficients,
                                opacities |-> Raw(v).opacities]
  BY DEF DecodedStage, Each, Raw, Gaussian, Plane
<1>4. DecodedStage("rotations", v) = [rotations |-> Raw(v).rotations]
  BY DEF DecodedStage, Each, Raw, RawRotation, Gaussian, Plane
<1>5. v.shBands # 0 => DecodedStage("restCoefficients", v)
                         = [restCoefficients |-> Raw(v).restCoefficients]
  BY DEF DecodedStage, Each, Raw, RawRest
<1> QED BY <1>1, <1>2, <1>3, <1>4, <1>5

(* ---- What a document must be to be imported ---------------------------- *)

UsedScale(v, i, axis) == v.scalesCodebook[v.planes[3].texel[i][axis]]

PositionsFit(v) ==
  \A i \in 0 .. v.count - 1, axis \in 1 .. 3 :
    /\ v.maxs[axis] - v.mins[axis] \in -kFloatLimit .. kFloatLimit
    /\ AbsoluteOf(PositionMeans(v, i, axis)) <= kLogMax * kPositionCodeMaximum
ScalesFinite(v) ==
  \A i \in 0 .. v.count - 1, axis \in 1 .. 3 : UsedScale(v, i, axis) <= kLogMax
ScalesPositive(v) ==
  \A i \in 0 .. v.count - 1, axis \in 1 .. 3 : UsedScale(v, i, axis) >= kLogMin
ScalesWide(v) ==
  \A i \in 0 .. v.count - 1, axis \in 1 .. 3 : UsedScale(v, i, axis) <= kLogWide
Tagged(v) ==
  \A i \in 0 .. v.count - 1 : v.planes[4].texel[i][4] \in ByteMax - 3 .. ByteMax

LEMMA Counted ==
  ASSUME NEW v, IsDocument(v)
  PROVE  /\ v.count \in Nat /\ v.count >= 1
         /\ v.shBands \in 0 .. 3 /\ Coefficients(v) \in {0, 3, 8, 15}
         /\ Coefficients(v) = 0 <=> v.shBands = 0
<1>1. v.count \in Nat /\ v.count >= 1 /\ v.shBands \in 0 .. 3
  BY DEF IsDocument
<1>2. v.shBands = 0 \/ v.shBands = 1 \/ v.shBands = 2 \/ v.shBands = 3
  BY <1>1
<1> QED BY <1>1, <1>2 DEF Coefficients

LEMMA UsedScales ==
  ASSUME NEW v, IsDocument(v), NEW i \in 0 .. v.count - 1, NEW axis \in 1 .. 3
  PROVE  /\ UsedScale(v, i, axis) \in Int
         /\ LinearScales(v)[v.planes[3].texel[i][axis]] = Exponential(UsedScale(v, i, axis))
<1>1. v.planes[3].texel[i] \in [1 .. 4 -> 0 .. ByteMax]
  BY TexelsAre
<1>2. v.planes[3].texel[i][axis] \in 0 .. ByteMax
  BY <1>1
<1>3. v.scalesCodebook \in [0 .. ByteMax -> Int]
  BY DEF IsDocument
<1>4. UsedScale(v, i, axis) \in Int
  BY <1>2, <1>3 DEF UsedScale
<1> QED BY <1>2, <1>4, Zenon DEF UsedScale, LinearScales

LEMMA ImportableIs ==
  ASSUME NEW n, IsDocument(Files[n]), Files[n].problem = NoProblem,
         NEW r, ~r.metadataOnly
  PROVE  Importable(n, r) <=> /\ PositionsFit(Files[n]) /\ ScalesPositive(Files[n])
                              /\ ScalesWide(Files[n]) /\ Tagged(Files[n])
<1> DEFINE v == Files[n]
           Fits(i, axis) ==
             /\ v.maxs[axis] - v.mins[axis] \in -kFloatLimit .. kFloatLimit
             /\ AbsoluteOf(PositionMeans(v, i, axis)) <= kLogMax * kPositionCodeMaximum
           Sized(i, axis) == UsedScale(v, i, axis) \in kLogMin .. kLogWide
           Tag(i) == v.planes[4].texel[i][4] \in ByteMax - 3 .. ByteMax
<1>1. Importable(n, r) <=> \A i \in 0 .. v.count - 1, axis \in 1 .. 3 :
                             Fits(i, axis) /\ Sized(i, axis) /\ Tag(i)
  BY DEF Importable, UsedScale
<1>2. PositionsFit(v) <=> \A i \in 0 .. v.count - 1, axis \in 1 .. 3 : Fits(i, axis)
  BY DEF PositionsFit
<1>3. ScalesPositive(v) /\ ScalesWide(v)
        <=> \A i \in 0 .. v.count - 1, axis \in 1 .. 3 : Sized(i, axis)
  <2>1. \A i \in 0 .. v.count - 1, axis \in 1 .. 3 : UsedScale(v, i, axis) \in Int
    BY UsedScales
  <2>2. kLogMin \in Int /\ kLogWide \in Int
    BY ValuesAssumption
  <2>3. \A i \in 0 .. v.count - 1, axis \in 1 .. 3 :
          Sized(i, axis) <=> UsedScale(v, i, axis) >= kLogMin /\ UsedScale(v, i, axis) <= kLogWide
    BY <2>1, <2>2
  <2> HIDE DEF Sized, v
  <2> QED BY <2>3, Zenon DEF ScalesPositive, ScalesWide
<1>4. Tagged(v) <=> \A i \in 0 .. v.count - 1, axis \in 1 .. 3 : Tag(i)
  <2>1. 1 \in 1 .. 3
    OBVIOUS
  <2> HIDE DEF Tag
  <2>2. Tagged(v) <=> \A i \in 0 .. v.count - 1 : Tag(i)
    BY Zenon DEF Tagged, Tag
  <2> QED BY <2>1, <2>2, Zenon
<1> HIDE DEF v, Fits, Sized, Tag
<1>5. Importable(n, r)
        <=> PositionsFit(v) /\ (ScalesPositive(v) /\ ScalesWide(v)) /\ Tagged(v)
  BY <1>1, <1>2, <1>3, <1>4, Zenon
<1> QED BY <1>5, Zenon DEF v

(* What a stage finds.                                                     *)
LEMMA StageProblems ==
  ASSUME NEW v, IsDocument(v)
  PROVE  /\ StageProblem("positions", v)
              = Check(~PositionsFit(v), "malformedMetadata")
         /\ StageProblem("scales", v) = Check(~ScalesFinite(v), "invalidCodebook")
         /\ StageProblem("sh0", v) = NoProblem
         /\ StageProblem("rotations", v) = Check(~Tagged(v), "malformedRotation")
         /\ StageProblem("restCoefficients", v) = NoProblem
<1> DEFINE I == 0 .. v.count - 1
<1>1. StageProblem("positions", v) = Check(~PositionsFit(v), "malformedMetadata")
  <2> DEFINE Bad(i) == \E axis \in 1 .. 3 : ~PositionIsFinite(v, i, axis)
  <2>1. StageProblem("positions", v) = Check(Some(v, Bad), "malformedMetadata")
    BY DEF StageProblem
  <2>2. Some(v, Bad) <=> \E i \in I, axis \in 1 .. 3 : ~PositionIsFinite(v, i, axis)
    BY Zenon DEF Some
  <2>3. \A i \in I, axis \in 1 .. 3 :
          PositionIsFinite(v, i, axis)
            <=> /\ v.maxs[axis] - v.mins[axis] \in -kFloatLimit .. kFloatLimit
                /\ AbsoluteOf(PositionMeans(v, i, axis)) <= kLogMax * kPositionCodeMaximum
    BY PositionFits, Zenon
  <2>4. Some(v, Bad) <=> ~PositionsFit(v)
    BY <2>2, <2>3, Zenon DEF PositionsFit
  <2> QED BY <2>1, <2>4, Zenon DEF Check
<1>2. StageProblem("scales", v) = Check(~ScalesFinite(v), "invalidCodebook")
  <2> DEFINE Bad(i) == \E axis \in 1 .. 3 :
               ~ExponentialIsFinite(LinearScales(v)[v.planes[3].texel[i][axis]])
  <2>1. StageProblem("scales", v) = Check(Some(v, Bad), "invalidCodebook")
    BY DEF StageProblem, Gaussian, Plane
  <2>2. Some(v, Bad) <=> \E i \in I, axis \in 1 .. 3 :
               ~ExponentialIsFinite(LinearScales(v)[v.planes[3].texel[i][axis]])
    BY Zenon DEF Some
  <2>3. \A i \in I, axis \in 1 .. 3 :
          ExponentialIsFinite(LinearScales(v)[v.planes[3].texel[i][axis]])
            <=> UsedScale(v, i, axis) <= kLogMax
    <3> TAKE i \in I, axis \in 1 .. 3
    <3>1. PICK s \in Int : /\ s = UsedScale(v, i, axis)
                           /\ LinearScales(v)[v.planes[3].texel[i][axis]] = Exponential(s)
      BY UsedScales
    <3>2. ExponentialIsFinite(Exponential(s)) <=> s <= kLogMax
      BY ExponentialFacts
    <3> QED BY <3>1, <3>2, Zenon
  <2>4. Some(v, Bad) <=> ~ScalesFinite(v)
    BY <2>2, <2>3, Zenon DEF ScalesFinite
  <2> QED BY <2>1, <2>4, Zenon DEF Check
<1>3. StageProblem("sh0", v) = NoProblem /\ StageProblem("restCoefficients", v) = NoProblem
  BY DEF StageProblem
<1>4. StageProblem("rotations", v) = Check(~Tagged(v), "malformedRotation")
  <2> DEFINE Stored(i) == v.planes[4].texel[i]
             BadTag(i) == Stored(i)[4] < kQuaternionTagBase
             BadQuaternion(i) == ~BadTag(i) /\ ~Normalizable(UnpackRotation(Stored(i)))
  <2>1. StageProblem("rotations", v)
          = FirstFailure(<<Check(Some(v, BadTag), "malformedRotation"),
                           Check(Some(v, BadQuaternion), "internalError")>>)
    BY DEF StageProblem, Gaussian, Plane
  <2>2. \A i \in I : BadTag(i) <=> ~(Stored(i)[4] \in ByteMax - 3 .. ByteMax)
    <3> TAKE i \in I
    <3>1. Stored(i) \in [1 .. 4 -> 0 .. ByteMax]
      BY TexelsAre
    <3>2. Stored(i)[4] \in 0 .. ByteMax
      BY <3>1
    <3>3. PICK tag \in 0 .. ByteMax : tag = Stored(i)[4]
      BY <3>2
    <3>4. tag < ByteMax - 3 <=> ~(tag \in ByteMax - 3 .. ByteMax)
      BY ValuesAssumption
    <3> QED BY <3>3, <3>4, Zenon DEF kQuaternionTagBase
  <2>3. \A i \in I : ~BadQuaternion(i)
    <3> TAKE i \in I
    <3>1. Stored(i) \in [1 .. 4 -> 0 .. ByteMax]
      BY TexelsAre
    <3>2. ~BadTag(i) => Stored(i)[4] \in ByteMax - 3 .. ByteMax
      BY <2>2, Zenon
    <3>3. ~BadTag(i) => Normalizable(UnpackRotation(Stored(i)))
      BY <3>1, <3>2, RotationIs, Zenon DEF Turns
    <3> QED BY <3>3, Zenon
  <2>4. Some(v, BadTag) <=> ~Tagged(v)
    <3> HIDE DEF BadTag
    <3>1. Some(v, BadTag) <=> \E i \in I : BadTag(i)
      BY Zenon DEF Some
    <3> QED BY <2>2, <3>1, Zenon DEF Tagged
  <2>5. ~Some(v, BadQuaternion)
    <3> HIDE DEF BadQuaternion
    <3>1. Some(v, BadQuaternion) <=> \E i \in I : BadQuaternion(i)
      BY Zenon DEF Some
    <3> QED BY <2>3, <3>1, Zenon
  <2> HIDE DEF BadTag, BadQuaternion
  <2>6. Check(Some(v, BadQuaternion), "internalError") = NoProblem
    BY <2>5, Zenon DEF Check
  <2>7. Check(Some(v, BadTag), "malformedRotation") = Check(~Tagged(v), "malformedRotation")
    BY <2>4, Zenon DEF Check
  <2> QED BY <2>1, <2>6, <2>7, FirstOfTwo, Zenon
<1> QED BY <1>1, <1>2, <1>3, <1>4

(* ---- The stages -------------------------------------------------------- *)

(* What is filled before a stage.                                          *)
StageOf == [positions |-> 1, scales |-> 2, dcCoefficients |-> 3, opacities |-> 3,
            rotations |-> 4, restCoefficients |-> 5]
Partly(v, next) ==
  [name \in Array |-> IF StageOf[name] < next THEN Raw(v)[name] ELSE <<>>]

LEMMA StageNames ==
  /\ Len(Stages) = 5
  /\ Stages[1] = "positions" /\ Stages[2] = "scales" /\ Stages[3] = "sh0"
  /\ Stages[4] = "rotations" /\ Stages[5] = "restCoefficients"
BY DEF Stages

LEMMA NothingDecoded == \A v : Partly(v, 1) = EmptyCloud
<1> TAKE v
<1>1. \A name \in Array : ~(StageOf[name] < 1)
  BY DEF Array, Column, StageOf
<1>2. Partly(v, 1) = [name \in Array |-> <<>>]
  BY <1>1, Zenon DEF Partly
<1>3. EmptyCloud = [name \in Array |-> <<>>]
  BY DEF EmptyCloud, Array, Column
<1> QED BY <1>2, <1>3, Zenon

LEMMA AllDecoded == \A v : Partly(v, 6) = Raw(v)
<1> TAKE v
<1>1. \A name \in Array : StageOf[name] < 6
  BY DEF Array, Column, StageOf
<1>2. Partly(v, 6) = [name \in Array |-> Raw(v)[name]]
  BY <1>1, Zenon DEF Partly
<1>3. PICK a, b, c, d, e, f :
        Raw(v) = [positions |-> a, opacities |-> b, scales |-> c,
                  dcCoefficients |-> d, rotations |-> e, restCoefficients |-> f]
  BY Zenon DEF Raw
<1>4. Raw(v) = [name \in Array |-> Raw(v)[name]]
  BY <1>3 DEF Array, Column
<1> QED BY <1>2, <1>4, Zenon

(* One more stage; without bands the last one has nothing to fill.         *)
LEMMA PartlyGrows ==
  ASSUME NEW v, NEW next \in 1 .. 5
  PROVE  LET skipped == Stages[next] = "restCoefficients" /\ v.shBands = 0 IN
         Partly(v, next + 1) = IF skipped THEN Partly(v, next)
                               ELSE Filled(Partly(v, next), DecodedStage(Stages[next], v))
<1> DEFINE skipped == Stages[next] = "restCoefficients" /\ v.shBands = 0
           filled == {name \in Array : StageOf[name] = next}
           decoded == DecodedStage(Stages[next], v)
<1>1. \A name \in Array : StageOf[name] \in 1 .. 5
  BY DEF Array, Column, StageOf
<1>2. \A name \in Array :
        Partly(v, next + 1)[name]
          = IF name \in filled THEN Raw(v)[name] ELSE Partly(v, next)[name]
  BY <1>1 DEF Partly
<1>3. DOMAIN Partly(v, next + 1) = Array /\ DOMAIN Partly(v, next) = Array
      /\ Partly(v, next + 1) = [name \in Array |-> Partly(v, next + 1)[name]]
      /\ Partly(v, next) = [name \in Array |-> Partly(v, next)[name]]
  BY Zenon DEF Partly
<1>4. CASE skipped
  <2>1. next = 5
    BY <1>4 DEF Stages
  <2>2. filled = {"restCoefficients"}
    BY <2>1 DEF Array, Column, StageOf
  <2>3. Raw(v)["restCoefficients"] = <<>>
    BY <1>4, Zenon DEF Raw
  <2>4. Partly(v, next)["restCoefficients"] = <<>>
    BY <2>1 DEF Partly, Array, StageOf
  <2>5. \A name \in Array : Partly(v, next + 1)[name] = Partly(v, next)[name]
    <3> HIDE DEF filled
    <3> QED BY <1>2, <2>2, <2>3, <2>4, Zenon
  <2> QED BY <1>3, <1>4, <2>5, Zenon
<1>5. CASE ~skipped
  <2>1. DOMAIN decoded = filled /\ \A name \in filled : decoded[name] = Raw(v)[name]
    <3>1. CASE next = 1
      <4>1. filled = {"positions"}
        BY <3>1 DEF Array, Column, StageOf
      <4>2. decoded = [positions |-> Raw(v).positions]
        BY <3>1, StageNames, StagesFill, Zenon
      <4> HIDE DEF filled, decoded
      <4> QED BY <4>1, <4>2
    <3>2. CASE next = 2
      <4>1. filled = {"scales"}
        BY <3>2 DEF Array, Column, StageOf
      <4>2. decoded = [scales |-> Raw(v).scales]
        BY <3>2, StageNames, StagesFill, Zenon
      <4> HIDE DEF filled, decoded
      <4> QED BY <4>1, <4>2
    <3>3. CASE next = 3
      <4>1. filled = {"dcCoefficients", "opacities"}
        BY <3>3 DEF Array, Column, StageOf
      <4>2. decoded = [dcCoefficients |-> Raw(v).dcCoefficients, opacities |-> Raw(v).opacities]
        BY <3>3, StageNames, StagesFill, Zenon
      <4> HIDE DEF filled, decoded
      <4> QED BY <4>1, <4>2
    <3>4. CASE next = 4
      <4>1. filled = {"rotations"}
        BY <3>4 DEF Array, Column, StageOf
      <4>2. decoded = [rotations |-> Raw(v).rotations]
        BY <3>4, StageNames, StagesFill, Zenon
      <4> HIDE DEF filled, decoded
      <4> QED BY <4>1, <4>2
    <3>5. CASE next = 5
      <4>1. filled = {"restCoefficients"}
        BY <3>5 DEF Array, Column, StageOf
      <4>2. decoded = [restCoefficients |-> Raw(v).restCoefficients]
        BY <1>5, <3>5, StageNames, StagesFill, Zenon
      <4> HIDE DEF filled, decoded
      <4> QED BY <4>1, <4>2
    <3> QED BY <3>1, <3>2, <3>3, <3>4, <3>5
  <2> HIDE DEF filled, decoded
  <2>2. Filled(Partly(v, next), decoded)
          = [name \in Array |-> IF name \in filled THEN decoded[name] ELSE Partly(v, next)[name]]
    BY <1>3, <2>1, Zenon DEF Filled
  <2>3. \A name \in Array :
          (IF name \in filled THEN decoded[name] ELSE Partly(v, next)[name])
            = Partly(v, next + 1)[name]
    BY <1>2, <2>1
  <2>4. Filled(Partly(v, next), decoded) = Partly(v, next + 1)
    BY <1>3, <2>2, <2>3, Zenon
  <2> QED BY <1>5, <2>4, Zenon DEF decoded
<1> QED BY <1>4, <1>5

(* ---- The change of frame ----------------------------------------------- *)

Flipped(v, sign) == [channel \in DOMAIN v |-> sign * v[channel]]
RestTurned(rest, each) ==
  IF each \notin DOMAIN kShFlipYZ THEN rest
  ELSE [n \in DOMAIN rest |-> Flipped(rest[n], kShFlipYZ[((n - 1) % each) + 1])]

LEMMA FlipIs ==
  ASSUME NEW p, NEW o, NEW s, NEW d, NEW q, NEW rest, NEW each,
         each = IF Len(p) = 0 THEN 0 ELSE Len(rest) \div Len(p)
  PROVE  FlipYZAxes([positions |-> p, opacities |-> o, scales |-> s,
                     dcCoefficients |-> d, rotations |-> q, restCoefficients |-> rest])
           = [positions |-> [g \in DOMAIN p |-> <<p[g][1], -p[g][2], -p[g][3]>>],
              opacities |-> o, scales |-> s, dcCoefficients |-> d,
              rotations |-> [g \in DOMAIN q |-> InFrame(q[g])],
              restCoefficients |-> RestTurned(rest, each)]
<1> DEFINE whole == [positions |-> p, opacities |-> o, scales |-> s,
                     dcCoefficients |-> d, rotations |-> q, restCoefficients |-> rest]
           a == [g \in DOMAIN p |-> <<p[g][1], -p[g][2], -p[g][3]>>]
           b == [g \in DOMAIN q |-> InFrame(q[g])]
           c == RestTurned(rest, each)
<1>1. whole.positions = p /\ whole.rotations = q /\ whole.restCoefficients = rest
  OBVIOUS
<1>2. FlipYZAxes(whole)
        = [[[whole EXCEPT !.positions = a] EXCEPT !.rotations = b]
             EXCEPT !.restCoefficients = c]
  <2> HIDE DEF whole
  <2>1. \A x : FlipRotation(x) = InFrame(x)
    BY Zenon DEF FlipRotation, InFrame
  <2> QED BY <1>1, <2>1, Zenon DEF FlipYZAxes, RestTurned, Flipped
<1> HIDE DEF a, b, c
<1>3. [whole EXCEPT !.positions = a]
        = [positions |-> a, opacities |-> o, scales |-> s,
           dcCoefficients |-> d, rotations |-> q, restCoefficients |-> rest]
  OBVIOUS
<1>4. [[positions |-> a, opacities |-> o, scales |-> s,
        dcCoefficients |-> d, rotations |-> q, restCoefficients |-> rest]
         EXCEPT !.rotations = b]
        = [positions |-> a, opacities |-> o, scales |-> s,
           dcCoefficients |-> d, rotations |-> b, restCoefficients |-> rest]
  OBVIOUS
<1>5. [[positions |-> a, opacities |-> o, scales |-> s,
        dcCoefficients |-> d, rotations |-> b, restCoefficients |-> rest]
         EXCEPT !.restCoefficients = c]
        = [positions |-> a, opacities |-> o, scales |-> s,
           dcCoefficients |-> d, rotations |-> b, restCoefficients |-> c]
  OBVIOUS
<1> HIDE DEF whole
<1>6. FlipYZAxes(whole) = [positions |-> a, opacities |-> o, scales |-> s,
           dcCoefficients |-> d, rotations |-> b, restCoefficients |-> c]
  BY <1>2, <1>3, <1>4, <1>5, Zenon
<1> QED BY <1>6, Zenon DEF whole, a, b, c

(* So many values for each of so many Gaussians.                           *)
LEMMA EachHas ==
  ASSUME NEW count \in Nat, count >= 1, NEW each \in Nat
  PROVE  (count * each) \div count = each
<1>1. PICK e \in Nat : e = each * count
  OBVIOUS
<1>2. (each * count + 0) \div count = each
  BY DivisionIsUnique
<1>3. each * count + 0 = count * each
  OBVIOUS
<1> QED BY <1>2, <1>3, Zenon

LEMMA RestCounts ==
  ASSUME NEW v, IsDocument(v)
  PROVE  /\ DOMAIN Raw(v).restCoefficients = 1 .. v.count * Coefficients(v)
         /\ Len(Raw(v).restCoefficients) = v.count * Coefficients(v)
         /\ v.count * Coefficients(v) \in Nat
<1>1. PICK count \in Nat, each \in Nat : count = v.count /\ each = Coefficients(v)
  BY Counted
<1>2. PICK total \in Nat : total = count * each
  OBVIOUS
<1>3. Raw(v).restCoefficients
        = IF v.shBands = 0 THEN <<>> ELSE [n \in 1 .. v.count * Coefficients(v) |-> RawRest(v, n)]
  BY Zenon DEF Raw
<1>4. CASE v.shBands = 0
  <2>1. each = 0
    BY <1>1, <1>4, Counted
  <2>2. total = 0
    BY <1>2, <2>1
  <2>3. Raw(v).restCoefficients = <<>>
    BY <1>3, <1>4, Zenon
  <2>4. DOMAIN Raw(v).restCoefficients = 1 .. total /\ Len(Raw(v).restCoefficients) = total
    BY <2>2, <2>3
  <2> QED BY <1>1, <1>2, <2>4, Zenon
<1>5. CASE v.shBands # 0
  <2>1. Raw(v).restCoefficients = [n \in 1 .. total |-> RawRest(v, n)]
    BY <1>1, <1>2, <1>3, <1>5, Zenon
  <2>2. DOMAIN Raw(v).restCoefficients = 1 .. total /\ Len(Raw(v).restCoefficients) = total
    BY <2>1
  <2> QED BY <1>1, <1>2, <2>2, Zenon
<1> QED BY <1>4, <1>5

LEMMA TurnedIs ==
  ASSUME NEW v, IsDocument(v)
  PROVE  FlipYZAxes(Raw(v))
           = [positions |-> [g \in 1 .. v.count |->
                LET p == [axis \in 1 .. 3 |-> NormalizedPosition(v, g - 1, axis)]
                IN  <<p[1], -p[2], -p[3]>>],
              opacities |-> Raw(v).opacities, scales |-> Raw(v).scales,
              dcCoefficients |-> Raw(v).dcCoefficients,
              rotations |-> [g \in 1 .. v.count |-> InFrame(RawRotation(v, g - 1))],
              restCoefficients |-> RestTurned(Raw(v).restCoefficients, Coefficients(v))]
<1>1. PICK p, o, s, d, q, rest :
        /\ Raw(v) = [positions |-> p, opacities |-> o, scales |-> s,
                     dcCoefficients |-> d, rotations |-> q, restCoefficients |-> rest]
        /\ p = [g \in 1 .. v.count |-> [axis \in 1 .. 3 |-> NormalizedPosition(v, g - 1, axis)]]
        /\ q = [g \in 1 .. v.count |-> RawRotation(v, g - 1)]
  BY Zenon DEF Raw
<1>2. /\ o = Raw(v).opacities /\ s = Raw(v).scales /\ d = Raw(v).dcCoefficients
      /\ rest = Raw(v).restCoefficients
  BY <1>1
<1>3. PICK count \in Nat, each \in Nat : count = v.count /\ each = Coefficients(v) /\ count >= 1
  BY Counted
<1>4. Len(p) = count
  BY <1>1, <1>3
<1>5. Len(rest) = count * each
  BY <1>2, <1>3, RestCounts, Zenon
<1>6. each = IF Len(p) = 0 THEN 0 ELSE Len(rest) \div Len(p)
  <2>1. (count * each) \div count = each
    BY <1>3, EachHas
  <2>2. count # 0
    BY <1>3
  <2> QED BY <1>4, <1>5, <2>1, <2>2, Zenon
<1>7. DOMAIN p = 1 .. v.count /\ DOMAIN q = 1 .. v.count
      /\ \A g \in 1 .. v.count :
           p[g] = [axis \in 1 .. 3 |-> NormalizedPosition(v, g - 1, axis)]
           /\ q[g] = RawRotation(v, g - 1)
  BY <1>1, Zenon
<1>8. FlipYZAxes(Raw(v))
        = [positions |-> [g \in DOMAIN p |-> <<p[g][1], -p[g][2], -p[g][3]>>],
           opacities |-> o, scales |-> s, dcCoefficients |-> d,
           rotations |-> [g \in DOMAIN q |-> InFrame(q[g])],
           restCoefficients |-> RestTurned(rest, each)]
  <2>1. FlipYZAxes([positions |-> p, opacities |-> o, scales |-> s,
                    dcCoefficients |-> d, rotations |-> q, restCoefficients |-> rest])
          = [positions |-> [g \in DOMAIN p |-> <<p[g][1], -p[g][2], -p[g][3]>>],
             opacities |-> o, scales |-> s, dcCoefficients |-> d,
             rotations |-> [g \in DOMAIN q |-> InFrame(q[g])],
             restCoefficients |-> RestTurned(rest, each)]
    BY <1>6, FlipIs
  <2> QED BY <1>1, <2>1, Zenon
<1>9. [g \in DOMAIN p |-> <<p[g][1], -p[g][2], -p[g][3]>>]
        = [g \in 1 .. v.count |->
                LET x == [axis \in 1 .. 3 |-> NormalizedPosition(v, g - 1, axis)]
                IN  <<x[1], -x[2], -x[3]>>]
  BY <1>7, Zenon
<1>10. [g \in DOMAIN q |-> InFrame(q[g])]
         = [g \in 1 .. v.count |-> InFrame(RawRotation(v, g - 1))]
  BY <1>7, Zenon
<1> QED BY <1>2, <1>3, <1>8, <1>9, <1>10, Zenon

(* Every position is where its codes say.                                  *)
LEMMA PositionsTurned ==
  ASSUME NEW v, IsDocument(v)
  PROVE  FlipYZAxes(Raw(v)).positions = CloudOf(v).positions
<1> DEFINE Turned(g) == LET p == [axis \in 1 .. 3 |-> NormalizedPosition(v, g - 1, axis)]
                        IN  <<p[1], -p[2], -p[3]>>
<1>1. ASSUME NEW g \in 1 .. v.count PROVE Turned(g) = PositionOf(v, g - 1)
  <2>1. PICK i \in 0 .. v.count - 1 : i = g - 1
    BY Counted
  <2>2. PICK a, b, c \in Int :
          /\ a = PositionMeans(v, i, 1) /\ b = PositionMeans(v, i, 2) /\ c = PositionMeans(v, i, 3)
    <3>1. 1 \in 1 .. 3 /\ 2 \in 1 .. 3 /\ 3 \in 1 .. 3
      OBVIOUS
    <3> QED BY <3>1, PositionIs, Zenon
  <2>3. /\ NormalizedPosition(v, i, 1) = a /\ NormalizedPosition(v, i, 2) = b
        /\ NormalizedPosition(v, i, 3) = c
    <3>1. 1 \in 1 .. 3 /\ 2 \in 1 .. 3 /\ 3 \in 1 .. 3
      OBVIOUS
    <3> QED BY <2>2, <3>1, PositionIs, Zenon
  <2>4. PICK p : p = [axis \in 1 .. 3 |-> NormalizedPosition(v, i, axis)]
    OBVIOUS
  <2>5. p[1] = a /\ p[2] = b /\ p[3] = c
    BY <2>3, <2>4
  <2>6. Turned(g) = <<a, -b, -c>>
    BY <2>1, <2>4, <2>5, Zenon
  <2>7. PICK m : m = PositionOf(v, i)
    OBVIOUS
  <2>8. m = [axis \in 1 .. 3 |-> (IF axis = 1 THEN 1 ELSE -1) * PositionMeans(v, i, axis)]
    BY <2>7, Zenon DEF PositionOf
  <2>9. /\ DOMAIN m = 1 .. 3 /\ m[1] = 1 * a /\ m[2] = (-1) * b /\ m[3] = (-1) * c
        /\ m = [axis \in 1 .. 3 |-> m[axis]]
    <3>1. 1 \in 1 .. 3 /\ 2 \in 1 .. 3 /\ 3 \in 1 .. 3 /\ 2 # 1 /\ 3 # 1
      OBVIOUS
    <3>2. \A axis \in 1 .. 3 :
            m[axis] = (IF axis = 1 THEN 1 ELSE -1) * PositionMeans(v, i, axis)
      BY <2>8, Zenon
    <3>3. DOMAIN m = 1 .. 3 /\ m = [axis \in 1 .. 3 |-> m[axis]]
      BY <2>8, Zenon
    <3>4. m[1] = 1 * a
      BY <2>2, <3>1, <3>2, Zenon
    <3>5. m[2] = (-1) * b
      BY <2>2, <3>1, <3>2, Zenon
    <3>6. m[3] = (-1) * c
      BY <2>2, <3>1, <3>2, Zenon
    <3> QED BY <3>3, <3>4, <3>5, <3>6
  <2>10. m = <<a, -b, -c>>
    <3>1. m[1] = a /\ m[2] = -b /\ m[3] = -c
      BY <2>9
    <3>2. PICK t : t = <<a, -b, -c>>
      OBVIOUS
    <3>3. DOMAIN t = 1 .. 3 /\ t[1] = a /\ t[2] = -b /\ t[3] = -c
          /\ t = [axis \in 1 .. 3 |-> t[axis]]
      BY <3>2
    <3>4. \A axis \in 1 .. 3 : axis = 1 \/ axis = 2 \/ axis = 3
      OBVIOUS
    <3>5. \A axis \in 1 .. 3 : m[axis] = t[axis]
      BY <3>1, <3>3, <3>4, Zenon
    <3> QED BY <2>9, <3>2, <3>3, <3>5, Zenon
  <2> QED BY <2>1, <2>6, <2>7, <2>10, Zenon
<1>2. FlipYZAxes(Raw(v)).positions = [g \in 1 .. v.count |-> Turned(g)]
  <2>1. PICK o, s, d, q, r :
          FlipYZAxes(Raw(v)) = [positions |-> [g \in 1 .. v.count |-> Turned(g)],
             opacities |-> o, scales |-> s, dcCoefficients |-> d, rotations |-> q,
             restCoefficients |-> r]
    BY TurnedIs, Zenon
  <2> HIDE DEF Turned
  <2> QED BY <2>1
<1>3. CloudOf(v).positions = [g \in 1 .. v.count |-> PositionOf(v, g - 1)]
  BY Zenon DEF CloudOf
<1> HIDE DEF Turned
<1> QED BY <1>1, <1>2, <1>3, Zenon

(* Every scale a codebook names exponentiates to what it says.             *)
LEMMA ScalesAre ==
  ASSUME NEW v, IsDocument(v), ScalesFinite(v), ScalesPositive(v)
  PROVE  Raw(v).scales = CloudOf(v).scales
<1>1. ASSUME NEW g \in 1 .. v.count
      PROVE  RawScale(v, g - 1) = Colour(v.scalesCodebook, v.planes[3].texel[g - 1])
  <2>1. PICK i \in 0 .. v.count - 1 : i = g - 1
    BY Counted
  <2>2. ASSUME NEW axis \in 1 .. 3
        PROVE  LinearScales(v)[v.planes[3].texel[i][axis]]
                 = v.scalesCodebook[v.planes[3].texel[i][axis]]
    <3>1. PICK s \in Int : /\ s = UsedScale(v, i, axis)
                           /\ LinearScales(v)[v.planes[3].texel[i][axis]] = Exponential(s)
      BY UsedScales
    <3>2. s <= kLogMax /\ s >= kLogMin
      BY <3>1, Zenon DEF ScalesFinite, ScalesPositive
    <3>3. s \in kLogMin .. kLogMax
      BY <3>2, ValuesAssumption
    <3>4. Exponential(s) = s
      BY <3>3, ExponentialFacts
    <3> QED BY <3>1, <3>4, Zenon DEF UsedScale
  <2> QED BY <2>1, <2>2, Zenon DEF RawScale, Colour
<1>2. PICK a, b, c, d, e, f :
        /\ Raw(v) = [positions |-> a, opacities |-> b, scales |-> c,
                     dcCoefficients |-> d, rotations |-> e, restCoefficients |-> f]
        /\ c = [g \in 1 .. v.count |-> RawScale(v, g - 1)]
  BY Zenon DEF Raw
<1>3. PICK a1, b1, c1, d1, e1, f1 :
        /\ CloudOf(v) = [positions |-> a1, opacities |-> b1, scales |-> c1,
                         dcCoefficients |-> d1, rotations |-> e1, restCoefficients |-> f1]
        /\ c1 = [g \in 1 .. v.count |-> Colour(v.scalesCodebook, v.planes[3].texel[g - 1])]
  BY Zenon DEF CloudOf
<1>4. Raw(v).scales = c /\ CloudOf(v).scales = c1
  BY <1>2, <1>3
<1> QED BY <1>1, <1>2, <1>3, <1>4, Zenon

(* Every tagged rotation is completed to the one that was stored.          *)
LEMMA RotationsTurned ==
  ASSUME NEW v, IsDocument(v), Tagged(v), NEW g \in 1 .. v.count
  PROVE  /\ InFrame(RawRotation(v, g - 1)) = InFrame(RotationMeans(v.planes[4].texel[g - 1]))
         /\ IsNormalized(InFrame(RawRotation(v, g - 1)))
<1>1. PICK i \in 0 .. v.count - 1 : i = g - 1
  BY Counted
<1>2. v.planes[4].texel[i] \in [1 .. 4 -> 0 .. ByteMax]
  BY TexelsAre
<1>3. v.planes[4].texel[i][4] \in ByteMax - 3 .. ByteMax
  BY Zenon DEF Tagged
<1>4. Turns(UnpackRotation(v.planes[4].texel[i]), RotationMeans(v.planes[4].texel[i]))
  BY <1>2, <1>3, RotationIs
<1>5. /\ RawRotation(v, i) = RotationMeans(v.planes[4].texel[i])
      /\ IsNormalized(InFrame(RotationMeans(v.planes[4].texel[i])))
  BY <1>4, Zenon DEF Turns, RawRotation
<1> QED BY <1>1, <1>5, Zenon

(* Every coefficient is the one of its label, with the sign of its band    *)
(* and order; a label without a centroid has none.                         *)
LEMMA RestOfOne ==
  ASSUME NEW v, IsDocument(v), v.shBands # 0,
         NEW i \in 0 .. v.count - 1, NEW x \in 1 .. Coefficients(v)
  PROVE  Flipped(RestCoefficient(v, i, x - 1), kShFlipYZ[x]) = RestMeans(v, i, x)
<1>1. x \in 1 .. 15
  BY Counted
<1>2. PICK sign \in Int : sign = kShFlipYZ[x] /\ sign = HalfTurnSign(x)
  BY <1>1, SignsAre
<1>3. PICK y \in Nat : y = x - 1
  BY <1>1
<1>4. PICK label \in Nat : label = Label(v, i)
  BY <1>3, CentroidIs
<1>5. label = WordOf(v.planes[7].texel[i][1], v.planes[7].texel[i][2])
  BY <1>4 DEF Label, Gaussian, Plane
<1>6. label >= v.paletteCount <=> label \notin 0 .. v.paletteCount - 1
  BY DEF IsDocument
<1>7. CASE label >= v.paletteCount
  <2>1. RestCoefficient(v, i, y) = <<0, 0, 0>>
    BY <1>4, <1>7, Zenon DEF RestCoefficient, IsOutOfRange
  <2>2. RestMeans(v, i, x) = <<0, 0, 0>>
    BY <1>5, <1>6, <1>7, Zenon DEF RestMeans
  <2>3. Flipped(<<0, 0, 0>>, sign) = <<0, 0, 0>>
    <3>1. PICK z : z = <<0, 0, 0>>
      OBVIOUS
    <3>2. DOMAIN z = 1 .. 3 /\ z[1] = 0 /\ z[2] = 0 /\ z[3] = 0 /\ z = [c \in 1 .. 3 |-> z[c]]
      BY <3>1
    <3>3. sign * 0 = 0
      OBVIOUS
    <3>4. \A c \in 1 .. 3 : c = 1 \/ c = 2 \/ c = 3
      OBVIOUS
    <3>5. \A c \in 1 .. 3 : sign * z[c] = z[c]
      BY <3>2, <3>3, <3>4, Zenon
    <3>6. Flipped(z, sign) = z
      BY <3>2, <3>5, Zenon DEF Flipped
    <3> QED BY <3>1, <3>6, Zenon
  <2> QED BY <1>2, <1>3, <2>1, <2>2, <2>3, Zenon
<1>8. CASE ~(label >= v.paletteCount)
  <2>1. RestCoefficient(v, i, y) = Colour(v.shCodebook, Centroid(v, i, y))
    BY <1>4, <1>8, Zenon DEF RestCoefficient, IsOutOfRange
  <2>2. Colour(v.shCodebook, Centroid(v, i, y)) = CentroidMeans(v, label, y)
    BY <1>4, CentroidIs, Zenon DEF CentroidMeans
  <2>3. PICK colour : colour = CentroidMeans(v, label, y)
    OBVIOUS
  <2>4. DOMAIN colour = 1 .. 3
    BY <2>3, Zenon DEF CentroidMeans, Colour
  <2>5. RestMeans(v, i, x) = [c \in 1 .. 3 |-> HalfTurnSign(x) * colour[c]]
    BY <1>3, <1>5, <1>6, <1>8, <2>3, Zenon DEF RestMeans
  <2>6. Flipped(colour, sign) = [c \in 1 .. 3 |-> HalfTurnSign(x) * colour[c]]
    BY <1>2, <2>4, Zenon DEF Flipped
  <2> QED BY <1>2, <1>3, <2>1, <2>2, <2>3, <2>5, <2>6, Zenon
<1> QED BY <1>7, <1>8

LEMMA RestTurnedIs ==
  ASSUME NEW v, IsDocument(v)
  PROVE  RestTurned(Raw(v).restCoefficients, Coefficients(v)) = RestOf(v)
<1>1. PICK count \in Nat, each \in Nat : count = v.count /\ each = Coefficients(v)
  BY Counted
<1> DEFINE rest == Raw(v).restCoefficients
           Rest(g, x) == RestMeans(v, g - 1, x)
           Placed(n) ==
             LET place == CHOOSE p \in (1 .. v.count) \X (1 .. Coefficients(v)) :
                            n = (p[1] - 1) * Coefficients(v) + p[2]
             IN  Rest(place[1], place[2])
<1>2. RestOf(v) = [n \in 1 .. v.count * Coefficients(v) |-> Placed(n)]
  BY Zenon DEF RestOf, Interleaved
<1>3. DOMAIN rest = 1 .. v.count * Coefficients(v)
  BY RestCounts, Zenon
<1>4. rest = IF v.shBands = 0 THEN <<>>
             ELSE [n \in 1 .. v.count * Coefficients(v) |-> RawRest(v, n)]
  BY Zenon DEF Raw
<1> HIDE DEF rest
<1>5. CASE v.shBands = 0
  <2>1. each = 0
    BY <1>1, <1>5, Counted
  <2>2. each \notin DOMAIN kShFlipYZ
    BY <2>1 DEF kShFlipYZ
  <2>3. RestTurned(rest, each) = rest
    BY <2>2, Zenon DEF RestTurned
  <2>4. count * each = 0
    BY <2>1
  <2>5. RestOf(v) = [n \in 1 .. 0 |-> Placed(n)]
    BY <1>1, <1>2, <2>4, Zenon
  <2> HIDE DEF Placed
  <2>6. [n \in 1 .. 0 |-> Placed(n)] = <<>>
    OBVIOUS
  <2>7. rest = <<>>
    BY <1>4, <1>5, Zenon
  <2> QED BY <1>1, <2>3, <2>5, <2>6, <2>7, Zenon DEF rest
<1>6. CASE v.shBands # 0
  <2>1. each \in 1 .. 15 /\ each \in DOMAIN kShFlipYZ
    <3>1. each \in {3, 8, 15}
      BY <1>1, <1>6, Counted
    <3> QED BY <3>1 DEF kShFlipYZ
  <2>2. \A n \in 1 .. v.count * Coefficients(v) : rest[n] = RawRest(v, n)
    BY <1>4, <1>6, Zenon
  <2>3. RestTurned(rest, each)
          = [n \in 1 .. v.count * Coefficients(v) |->
               Flipped(rest[n], kShFlipYZ[((n - 1) % each) + 1])]
    BY <1>3, <2>1, Zenon DEF RestTurned
  <2>4. ASSUME NEW n \in 1 .. v.count * Coefficients(v)
        PROVE  Flipped(rest[n], kShFlipYZ[((n - 1) % each) + 1]) = Placed(n)
    <3>1. n \in 1 .. count * each
      BY <1>1, Zenon
    <3>2. PICK g \in 1 .. count, x \in 1 .. each : IsPlaceOf(count, each, n, g, x)
      BY <3>1, PlaceOf
    <3>3. g - 1 = (n - 1) \div each /\ x - 1 = (n - 1) % each
      BY <3>2, Zenon DEF IsPlaceOf
    <3>4. \A p \in (1 .. count) \X (1 .. each) :
            n = (p[1] - 1) * each + p[2] <=> p = <<g, x>>
      BY <3>2, Zenon DEF IsPlaceOf
    <3>5. <<g, x>> \in (1 .. count) \X (1 .. each)
      OBVIOUS
    <3>6. (CHOOSE p \in (1 .. count) \X (1 .. each) : n = (p[1] - 1) * each + p[2]) = <<g, x>>
      BY <3>4, <3>5, Zenon
    <3>7. <<g, x>>[1] = g /\ <<g, x>>[2] = x
      OBVIOUS
    <3>8. Placed(n) = RestMeans(v, g - 1, x)
      BY <1>1, <3>6, <3>7, Zenon
    <3>9. PICK i \in 0 .. v.count - 1 : i = g - 1
      BY <1>1
    <3>10. (x - 1) + 1 = x
      OBVIOUS
    <3>11. rest[n] = RestCoefficient(v, i, x - 1)
      BY <1>1, <2>2, <3>3, <3>9, Zenon DEF RawRest
    <3>12. Flipped(RestCoefficient(v, i, x - 1), kShFlipYZ[x]) = RestMeans(v, i, x)
      BY <1>1, <1>6, RestOfOne
    <3> QED BY <3>3, <3>8, <3>9, <3>10, <3>11, <3>12, Zenon
  <2> HIDE DEF Placed
  <2> QED BY <1>1, <1>2, <2>3, <2>4, Zenon DEF rest
<1> QED BY <1>5, <1>6

(* What is decoded and turned is what the document stands for.             *)
LEMMA TurnedIsCloud ==
  ASSUME NEW v, IsDocument(v), ScalesFinite(v), ScalesPositive(v), Tagged(v)
  PROVE  FlipYZAxes(Raw(v)) = CloudOf(v)
<1> DEFINE turned == FlipYZAxes(Raw(v))
<1>1. PICK p, o, s, d, q, r :
        /\ turned = [positions |-> p, opacities |-> o, scales |-> s,
                     dcCoefficients |-> d, rotations |-> q, restCoefficients |-> r]
        /\ o = Raw(v).opacities /\ s = Raw(v).scales /\ d = Raw(v).dcCoefficients
        /\ q = [g \in 1 .. v.count |-> InFrame(RawRotation(v, g - 1))]
        /\ r = RestTurned(Raw(v).restCoefficients, Coefficients(v))
  BY TurnedIs, Zenon
<1>2. PICK p1, o1, s1, d1, q1, r1 :
        /\ CloudOf(v) = [positions |-> p1, opacities |-> o1, scales |-> s1,
                         dcCoefficients |-> d1, rotations |-> q1, restCoefficients |-> r1]
        /\ o1 = [g \in 1 .. v.count |-> v.planes[5].texel[g - 1][4]]
        /\ d1 = [g \in 1 .. v.count |-> Colour(v.sh0Codebook, v.planes[5].texel[g - 1])]
        /\ q1 = [g \in 1 .. v.count |-> InFrame(RotationMeans(v.planes[4].texel[g - 1]))]
        /\ r1 = RestOf(v)
  BY Zenon DEF CloudOf
<1>3. PICK a, b, c, e, f, h :
        /\ Raw(v) = [positions |-> a, opacities |-> b, scales |-> c,
                     dcCoefficients |-> e, rotations |-> f, restCoefficients |-> h]
        /\ b = [g \in 1 .. v.count |-> v.planes[5].texel[g - 1][4]]
        /\ e = [g \in 1 .. v.count |-> Colour(v.sh0Codebook, v.planes[5].texel[g - 1])]
  BY Zenon DEF Raw
<1>4. o = b /\ d = e
  BY <1>1, <1>3
<1>5. p = p1
  <2>1. turned.positions = p /\ CloudOf(v).positions = p1
    <3> HIDE DEF turned
    <3> QED BY <1>1, <1>2
  <2> QED BY <2>1, PositionsTurned, Zenon
<1>6. s = s1
  <2>1. CloudOf(v).scales = s1
    BY <1>2
  <2> QED BY <1>1, <2>1, ScalesAre, Zenon
<1>7. q = q1
  <2>1. \A g \in 1 .. v.count :
          InFrame(RawRotation(v, g - 1)) = InFrame(RotationMeans(v.planes[4].texel[g - 1]))
    BY RotationsTurned, Zenon
  <2> QED BY <1>1, <1>2, <2>1, Zenon
<1>8. r = r1
  BY <1>1, <1>2, RestTurnedIs, Zenon
<1> HIDE DEF turned
<1>9. turned = CloudOf(v)
  BY <1>1, <1>2, <1>3, <1>4, <1>5, <1>6, <1>7, <1>8, Zenon
<1> QED BY <1>9 DEF turned

(* ---- The shared gate --------------------------------------------------- *)

LEMMA DegreesAreInferred ==
  ASSUME NEW d \in 0 .. 3
  PROVE  /\ InferShDegree(CoefficientsPerGaussian(d)) = d
         /\ RestPerGaussian(d) \in Nat
<1>1. ASSUME NEW t \in 1 .. 4, NEW n \in Nat, n = t * t
      PROVE  InferShDegree(n) = t - 1
  <2>1. t \in 1 .. n /\ IsRoundedRoot(t, n)
    <3>1. t = 1 \/ t = 2 \/ t = 3 \/ t = 4
      OBVIOUS
    <3> QED BY <1>1, <3>1 DEF IsRoundedRoot
  <2>2. ASSUME NEW s \in 1 .. n, IsRoundedRoot(s, n) PROVE s = t
    <3>1. s \in Nat /\ s >= 1 /\ s * s - s < t * t /\ t * t <= s * s + s
      BY <1>1, <2>2 DEF IsRoundedRoot
    <3>2. ~(s < t)
      <4> SUFFICES ASSUME s < t PROVE FALSE
        OBVIOUS
      <4>1. PICK j \in Nat : t = s + 1 + j
        <5>1. t - s - 1 \in Nat /\ t = s + 1 + (t - s - 1)
          BY <3>1
        <5> QED BY <5>1
      <4>2. t * t = s * s + s + s + 1 + j * (s + 1) + j * (s + 1) + j * j
        BY <3>1, <4>1
      <4>3. j * (s + 1) \in Nat /\ j * j \in Nat /\ s * s \in Nat
        BY <3>1
      <4> QED BY <3>1, <4>2, <4>3
    <3>3. ~(s > t)
      <4> SUFFICES ASSUME s > t PROVE FALSE
        OBVIOUS
      <4>1. PICK j \in Nat : s = t + 1 + j
        <5>1. s - t - 1 \in Nat /\ s = t + 1 + (s - t - 1)
          BY <3>1
        <5> QED BY <5>1
      <4>2. s * s - s = t * t + t + j * (t + 1) + j * t + j * j
        BY <3>1, <4>1
      <4>3. j * (t + 1) \in Nat /\ j * t \in Nat /\ j * j \in Nat /\ t * t \in Nat
        BY <3>1
      <4> QED BY <3>1, <4>2, <4>3
    <3> QED BY <3>1, <3>2, <3>3
  <2>3. (CHOOSE side \in 1 .. n : IsRoundedRoot(side, n)) = t
    BY <2>1, <2>2
  <2>4. \E side \in 1 .. n : IsRoundedRoot(side, n) /\ side * side = n
    BY <1>1, <2>1, Zenon
  <2> QED BY <2>3, <2>4, Zenon DEF InferShDegree
<1>2. d + 1 \in 1 .. 4 /\ (d + 1) - 1 = d
  OBVIOUS
<1>3. (d + 1) * (d + 1) \in Nat /\ (d + 1) * (d + 1) >= 1
  <2>1. d = 0 \/ d = 1 \/ d = 2 \/ d = 3
    OBVIOUS
  <2> QED BY <2>1
<1>4. CoefficientsPerGaussian(d) = (d + 1) * (d + 1)
  BY DEF CoefficientsPerGaussian
<1>5. RestPerGaussian(d) \in Nat
  <2>1. PICK n \in Nat : n = (d + 1) * (d + 1) /\ n >= 1
    BY <1>3
  <2>2. n - 1 \in Nat
    BY <2>1
  <2> QED BY <1>4, <2>1, <2>2, Zenon DEF RestPerGaussian
<1>6. InferShDegree((d + 1) * (d + 1)) = d
  <2>1. PICK t \in 1 .. 4 : t = d + 1 /\ t - 1 = d
    BY <1>2
  <2>2. PICK n \in Nat : n = t * t
    BY <1>3, <2>1
  <2>3. InferShDegree(n) = t - 1
    BY <1>1, <2>2
  <2> QED BY <2>1, <2>2, <2>3, Zenon
<1> QED BY <1>4, <1>5, <1>6, Zenon

(* An array of so many elements.                                           *)
IsFilled(s, count) == s = [g \in 1 .. count |-> s[g]]

LEMMA FilledIs ==
  ASSUME NEW s, NEW count \in Nat, IsFilled(s, count)
  PROVE  Len(s) = count /\ DOMAIN s = 1 .. count
BY DEF IsFilled

(* The lengths of what was decoded, before and after the change of frame.  *)
LEMMA TurnedLengths ==
  ASSUME NEW v, IsDocument(v)
  PROVE  LET c == FlipYZAxes(Raw(v)) IN
         /\ Len(c.positions) = v.count /\ Len(c.scales) = v.count
         /\ Len(c.rotations) = v.count /\ Len(c.opacities) = v.count
         /\ Len(c.dcCoefficients) = v.count
         /\ Len(c.restCoefficients) = v.count * Coefficients(v)
         /\ DOMAIN c.rotations = 1 .. v.count /\ DOMAIN c.opacities = 1 .. v.count
         /\ DOMAIN c.scales = 1 .. v.count
<1>1. PICK count \in Nat, each \in Nat : count = v.count /\ each = Coefficients(v)
  BY Counted
<1>2. PICK total \in Nat : total = count * each
  OBVIOUS
<1> DEFINE c == FlipYZAxes(Raw(v))
<1>3. /\ IsFilled(c.positions, count) /\ IsFilled(c.scales, count)
      /\ IsFilled(c.rotations, count) /\ IsFilled(c.opacities, count)
      /\ IsFilled(c.dcCoefficients, count)
      /\ c.restCoefficients = RestTurned(Raw(v).restCoefficients, each)
  <2>1. PICK p, o, s, d, q, r :
          /\ c = [positions |-> p, opacities |-> o, scales |-> s,
                  dcCoefficients |-> d, rotations |-> q, restCoefficients |-> r]
          /\ o = Raw(v).opacities /\ s = Raw(v).scales /\ d = Raw(v).dcCoefficients
          /\ p = [g \in 1 .. v.count |->
                   LET x == [axis \in 1 .. 3 |-> NormalizedPosition(v, g - 1, axis)]
                   IN  <<x[1], -x[2], -x[3]>>]
          /\ q = [g \in 1 .. v.count |-> InFrame(RawRotation(v, g - 1))]
          /\ r = RestTurned(Raw(v).restCoefficients, Coefficients(v))
    BY TurnedIs, Zenon
  <2>2. PICK a, b, e, f, h, k :
          /\ Raw(v) = [positions |-> a, opacities |-> b, scales |-> e,
                       dcCoefficients |-> f, rotations |-> h, restCoefficients |-> k]
          /\ b = [g \in 1 .. v.count |-> v.planes[5].texel[g - 1][4]]
          /\ e = [g \in 1 .. v.count |-> RawScale(v, g - 1)]
          /\ f = [g \in 1 .. v.count |-> Colour(v.sh0Codebook, v.planes[5].texel[g - 1])]
    BY Zenon DEF Raw
  <2>3. Raw(v).opacities = b /\ Raw(v).scales = e /\ Raw(v).dcCoefficients = f
    BY <2>2
  <2> HIDE DEF c
  <2>4. /\ c.positions = p /\ c.scales = s /\ c.rotations = q /\ c.opacities = o
        /\ c.dcCoefficients = d /\ c.restCoefficients = r
    BY <2>1
  <2>5. IsFilled(p, v.count)
    <3> DEFINE T(g) == LET x == [axis \in 1 .. 3 |-> NormalizedPosition(v, g - 1, axis)]
                       IN  <<x[1], -x[2], -x[3]>>
    <3>1. p = [g \in 1 .. v.count |-> T(g)]
      BY <2>1, Zenon
    <3> HIDE DEF T
    <3> QED BY <3>1, Zenon DEF IsFilled
  <2>6. IsFilled(q, v.count)
    BY <2>1, Zenon DEF IsFilled
  <2>7. IsFilled(b, v.count)
    BY <2>2, Zenon DEF IsFilled
  <2>8. IsFilled(e, v.count)
    BY <2>2, Zenon DEF IsFilled
  <2>9. IsFilled(f, v.count)
    BY <2>2, Zenon DEF IsFilled
  <2> QED BY <1>1, <2>1, <2>3, <2>4, <2>5, <2>6, <2>7, <2>8, <2>9, Zenon
<1>4. c.restCoefficients = [n \in 1 .. total |-> c.restCoefficients[n]]
  <2> DEFINE rest == Raw(v).restCoefficients
  <2>1. DOMAIN rest = 1 .. total
    BY <1>1, <1>2, RestCounts, Zenon
  <2>2. rest = [n \in 1 .. total |-> rest[n]]
    <3>1. \/ rest = <<>>
          \/ rest = [n \in 1 .. v.count * Coefficients(v) |-> RawRest(v, n)]
      BY Zenon DEF Raw
    <3>2. <<>> = [n \in DOMAIN <<>> |-> <<>>[n]]
      OBVIOUS
    <3> HIDE DEF rest
    <3>3. CASE rest = <<>>
      BY <2>1, <3>2, <3>3, Zenon
    <3>4. CASE rest = [n \in 1 .. v.count * Coefficients(v) |-> RawRest(v, n)]
      BY <1>1, <1>2, <3>4, Zenon
    <3> QED BY <3>1, <3>3, <3>4
  <2> DEFINE turned == [n \in DOMAIN rest |-> Flipped(rest[n], kShFlipYZ[((n - 1) % each) + 1])]
  <2>3. turned = [n \in 1 .. total |-> turned[n]]
    BY <2>1, Zenon
  <2>4. RestTurned(rest, each) = IF each \notin DOMAIN kShFlipYZ THEN rest ELSE turned
    BY Zenon DEF RestTurned
  <2> HIDE DEF rest, turned
  <2>5. RestTurned(rest, each) = [n \in 1 .. total |-> RestTurned(rest, each)[n]]
    BY <2>2, <2>3, <2>4, Zenon
  <2> QED BY <1>3, <2>5, Zenon DEF rest
<1> HIDE DEF c
<1>5. Len(c.positions) = count
  BY <1>3, FilledIs
<1>6. Len(c.scales) = count /\ DOMAIN c.scales = 1 .. count
  BY <1>3, FilledIs
<1>7. Len(c.rotations) = count /\ DOMAIN c.rotations = 1 .. count
  BY <1>3, FilledIs
<1>8. Len(c.opacities) = count /\ DOMAIN c.opacities = 1 .. count
  BY <1>3, FilledIs
<1>9. Len(c.dcCoefficients) = count
  BY <1>3, FilledIs
<1>10. Len(c.restCoefficients) = total
  BY <1>4
<1> QED BY <1>1, <1>2, <1>5, <1>6, <1>7, <1>8, <1>9, <1>10, Zenon DEF c

(* The gate stops a decoded cloud for a scale that vanishes, and for       *)
(* nothing else.                                                           *)
LEMMA GateStops ==
  ASSUME NEW v, IsDocument(v), ScalesFinite(v), Tagged(v)
  PROVE  IsValidCloud(FlipYZAxes(Raw(v)), v) <=> ScalesPositive(v)
<1>1. PICK count \in Nat, each \in Nat : count = v.count /\ each = Coefficients(v) /\ count >= 1
  BY Counted
<1>2. PICK d \in 0 .. 3 : d = v.shBands
  BY Counted
<1> DEFINE c == FlipYZAxes(Raw(v))
           length == [name \in Array |-> Len(c[name])]
           numeric == /\ \A g \in DOMAIN c.scales, axis \in 1 .. 3 :
                           /\ ExponentialIsFinite(c.scales[g][axis])
                           /\ ExponentialIsPositive(c.scales[g][axis])
                      /\ \A g \in DOMAIN c.rotations : IsNormalized(c.rotations[g])
                      /\ \A g \in DOMAIN c.opacities : c.opacities[g] \in 0 .. ByteMax
           shape == [count |-> v.count, shDegree |-> v.shBands, length |-> length,
                     numeric |-> numeric]
<1>3. PICK p, o, s, k, q, r :
        /\ c = [positions |-> p, opacities |-> o, scales |-> s,
                dcCoefficients |-> k, rotations |-> q, restCoefficients |-> r]
        /\ o = Raw(v).opacities /\ s = Raw(v).scales
        /\ q = [g \in 1 .. v.count |-> InFrame(RawRotation(v, g - 1))]
  BY TurnedIs, Zenon
<1>4. PICK a, b, e, f, h, l :
        /\ Raw(v) = [positions |-> a, opacities |-> b, scales |-> e,
                     dcCoefficients |-> f, rotations |-> h, restCoefficients |-> l]
        /\ b = [g \in 1 .. v.count |-> v.planes[5].texel[g - 1][4]]
        /\ e = [g \in 1 .. v.count |-> RawScale(v, g - 1)]
  BY Zenon DEF Raw
<1>5. o = b /\ s = e
  BY <1>3, <1>4
<1>6. /\ Len(c.positions) = count /\ Len(c.scales) = count
      /\ Len(c.rotations) = count /\ Len(c.opacities) = count
      /\ Len(c.dcCoefficients) = count
      /\ Len(c.restCoefficients) = count * each
      /\ DOMAIN c.rotations = 1 .. count /\ DOMAIN c.opacities = 1 .. count
      /\ DOMAIN c.scales = 1 .. count
  BY <1>1, TurnedLengths, Zenon
<1>7. IsValidCloud(c, v) <=> ValidateGaussianCloud(shape)
  BY Zenon DEF IsValidCloud
<1> HIDE DEF c
<1>8. c.scales = s /\ c.rotations = q /\ c.opacities = o
  BY <1>3
<1>9. (\A g \in DOMAIN c.scales, axis \in 1 .. 3 :
         /\ ExponentialIsFinite(c.scales[g][axis])
         /\ ExponentialIsPositive(c.scales[g][axis])) <=> ScalesPositive(v)
  <2>1. ASSUME NEW g \in 1 .. count, NEW axis \in 1 .. 3
        PROVE  /\ ExponentialIsFinite(c.scales[g][axis])
               /\ ExponentialIsPositive(c.scales[g][axis])
                    <=> UsedScale(v, g - 1, axis) >= kLogMin
    <3>1. PICK i \in 0 .. v.count - 1 : i = g - 1
      BY <1>1
    <3>2. c.scales[g] = RawScale(v, i)
      BY <1>1, <1>4, <1>5, <1>8, <3>1, Zenon
    <3>3. PICK n \in Int : /\ n = UsedScale(v, i, axis)
                           /\ LinearScales(v)[v.planes[3].texel[i][axis]] = Exponential(n)
      BY UsedScales
    <3>4. c.scales[g][axis] = Exponential(n)
      BY <3>2, <3>3, Zenon DEF RawScale
    <3>5. n <= kLogMax
      BY <3>3, Zenon DEF ScalesFinite
    <3>6. /\ ExponentialIsFinite(Exponential(n)) <=> n <= kLogMax
          /\ ExponentialIsPositive(Exponential(n)) <=> n >= kLogMin
      BY ExponentialFacts
    <3> QED BY <3>1, <3>3, <3>4, <3>5, <3>6, Zenon
  <2>2. ASSUME NEW i \in 0 .. v.count - 1
        PROVE  \E g \in 1 .. count : i = g - 1
    <3>1. i + 1 \in 1 .. count /\ i = (i + 1) - 1
      BY <1>1
    <3> QED BY <3>1
  <2>3. ASSUME NEW g \in 1 .. count
        PROVE  g - 1 \in 0 .. v.count - 1
    BY <1>1
  <2>4. (\A g \in 1 .. count, axis \in 1 .. 3 : UsedScale(v, g - 1, axis) >= kLogMin)
          <=> ScalesPositive(v)
    BY <2>2, <2>3, Zenon DEF ScalesPositive
  <2> QED BY <1>6, <2>1, <2>4, Zenon
<1>10. \A g \in DOMAIN c.rotations : IsNormalized(c.rotations[g])
  <2>1. \A g \in 1 .. v.count : IsNormalized(InFrame(RawRotation(v, g - 1)))
    BY RotationsTurned, Zenon
  <2> QED BY <1>1, <1>3, <1>6, <1>8, <2>1, Zenon
<1>11. \A g \in DOMAIN c.opacities : c.opacities[g] \in 0 .. ByteMax
  <2>1. ASSUME NEW g \in 1 .. count PROVE v.planes[5].texel[g - 1][4] \in 0 .. ByteMax
    <3>1. PICK i \in 0 .. v.count - 1 : i = g - 1
      BY <1>1
    <3>2. v.planes[5].texel[i] \in [1 .. 4 -> 0 .. ByteMax]
      BY TexelsAre
    <3>3. v.planes[5].texel[i][4] \in 0 .. ByteMax
      BY <3>2
    <3> QED BY <3>1, <3>3, Zenon
  <2>2. \A g \in 1 .. count : b[g] = v.planes[5].texel[g - 1][4]
    BY <1>1, <1>4, Zenon
  <2>3. \A g \in 1 .. count : b[g] \in 0 .. ByteMax
    BY <2>1, <2>2, Zenon
  <2> QED BY <1>5, <1>6, <1>8, <2>3, Zenon
<1>12. numeric <=> ScalesPositive(v)
  BY <1>9, <1>10, <1>11, Zenon
<1>13. \A name \in Array : length[name] = Len(c[name])
  BY Zenon
<1>14. \A name \in Column : length[name] = count
  <2> HIDE DEF length
  <2>1. /\ Len(c["positions"]) = count /\ Len(c["scales"]) = count
        /\ Len(c["rotations"]) = count /\ Len(c["opacities"]) = count
        /\ Len(c["dcCoefficients"]) = count
    BY <1>6, Zenon
  <2> QED BY <1>13, <2>1 DEF Column, Array
<1>15. length["restCoefficients"] = count * RestPerGaussian(d)
  <2>1. each = RestPerGaussian(d)
    <3>1. d = 0 \/ d = 1 \/ d = 2 \/ d = 3
      OBVIOUS
    <3> QED BY <1>1, <1>2, <3>1 DEF Coefficients, RestPerGaussian, CoefficientsPerGaussian
  <2>2. "restCoefficients" \in Array
    BY DEF Array
  <2>3. length["restCoefficients"] = Len(c["restCoefficients"])
    BY <1>13, <2>2, Zenon
  <2> QED BY <1>6, <2>1, <2>3, Zenon
<1> HIDE DEF length, numeric
<1>16. shape.count = count /\ shape.shDegree = d /\ shape.length = length
       /\ (shape.numeric <=> numeric)
  BY <1>1, <1>2
<1> HIDE DEF shape
<1>17. ColumnLengthsMatch(shape)
  BY <1>14, <1>16, Zenon DEF ColumnLengthsMatch
<1>18. ShDegreeIsValid(shape)
  <2>1. d >= 0 /\ d <= kMaxShDegree
    BY DEF kMaxShDegree
  <2>2. InferShDegree(CoefficientsPerGaussian(d)) = d
    BY DegreesAreInferred, Zenon
  <2> QED BY <1>16, <2>1, <2>2, Zenon DEF ShDegreeIsValid
<1>19. RestLengthMatches(shape)
  BY <1>15, <1>16, Zenon DEF RestLengthMatches
<1>20. shape.count # 0
  BY <1>1, <1>16
<1>21. ValidateGaussianCloud(shape) <=> numeric
  BY <1>16, <1>17, <1>18, <1>19, <1>20, Zenon DEF ValidateGaussianCloud
<1> QED BY <1>7, <1>12, <1>21, Zenon DEF c

(* Three times the largest scale is a float, or there is no extent.        *)
LEMMA ExtentIs ==
  ASSUME NEW v, IsDocument(v)
  PROVE  ExtentOverflows(CloudOf(v)) <=> ~ScalesWide(v)
<1>1. PICK count \in Nat : count = v.count
  BY Counted
<1>2. PICK a, b, c, d, e, f :
        /\ CloudOf(v) = [positions |-> a, opacities |-> b, scales |-> c,
                         dcCoefficients |-> d, rotations |-> e, restCoefficients |-> f]
        /\ c = [g \in 1 .. v.count |-> Colour(v.scalesCodebook, v.planes[3].texel[g - 1])]
  BY Zenon DEF CloudOf
<1>3. CloudOf(v).scales = c
  BY <1>2
<1>4. \A g \in 1 .. count, axis \in 1 .. 3 : c[g][axis] = UsedScale(v, g - 1, axis)
  BY <1>1, <1>2, Zenon DEF Colour, UsedScale
<1>5. ASSUME NEW g \in 1 .. count, NEW axis \in 1 .. 3
      PROVE  c[g][axis] > kLogWide <=> ~(UsedScale(v, g - 1, axis) <= kLogWide)
  <2>1. PICK i \in 0 .. v.count - 1 : i = g - 1
    BY <1>1
  <2>2. PICK s \in Int : s = UsedScale(v, i, axis)
    BY UsedScales
  <2>3. s > kLogWide <=> ~(s <= kLogWide)
    BY ValuesAssumption
  <2> QED BY <1>4, <2>1, <2>2, <2>3, Zenon
<1>6. ASSUME NEW i \in 0 .. v.count - 1
      PROVE  \E g \in 1 .. count : i = g - 1
  <2>1. i + 1 \in 1 .. count /\ i = (i + 1) - 1
    BY <1>1
  <2> QED BY <2>1
<1>7. ASSUME NEW g \in 1 .. count
      PROVE  g - 1 \in 0 .. v.count - 1
  BY <1>1
<1>8. (\E g \in 1 .. count, axis \in 1 .. 3 : ~(UsedScale(v, g - 1, axis) <= kLogWide))
        <=> ~ScalesWide(v)
  BY <1>6, <1>7, Zenon DEF ScalesWide
<1>9. DOMAIN c = 1 .. count
  BY <1>1, <1>2, Zenon
<1>10. ExtentOverflows(CloudOf(v))
         <=> \E g \in 1 .. count, axis \in 1 .. 3 : c[g][axis] > kLogWide
  BY <1>3, <1>9, Zenon DEF ExtentOverflows
<1> QED BY <1>5, <1>8, <1>10, Zenon

(* The bytes of the cloud, from its count and its degree.                  *)
LEMMA CloudByteSize ==
  ASSUME NEW v, IsDocument(v), FlipYZAxes(Raw(v)) = CloudOf(v)
  PROVE  ComputeDecodedByteSize(CloudOf(v))
           = v.count * (3 + 3 + 4 + 1 + 3 + 3 * RestPerGaussian(v.shBands))
<1>1. PICK count \in Nat, e \in Nat, d \in 0 .. 3 :
        count = v.count /\ e = Coefficients(v) /\ d = v.shBands
  BY Counted
<1>2. e = RestPerGaussian(d)
  <2>1. d = 0 \/ d = 1 \/ d = 2 \/ d = 3
    OBVIOUS
  <2> QED BY <1>1, <2>1 DEF Coefficients, RestPerGaussian, CoefficientsPerGaussian
<1>3. PICK rest \in Nat : rest = count * e
  OBVIOUS
<1>4. ComputeDecodedByteSize(CloudOf(v))
        = 3 * count + 3 * count + 4 * count + count + 3 * count + 3 * rest
  BY <1>1, <1>3, TurnedLengths, Zenon DEF ComputeDecodedByteSize
<1>5. count * (3 + 3 + 4 + 1 + 3 + 3 * e)
        = 3 * count + 3 * count + 4 * count + count + 3 * count + 3 * rest
  BY <1>3
<1> QED BY <1>1, <1>2, <1>4, <1>5, Zenon

(* A document as the reader checks it is never one the decoder refuses.    *)
LEMMA DocumentAgrees ==
  ASSUME NEW v, IsDocument(v)
  PROVE  ~DocumentDisagrees(v)
<1>1. v.count # 0
  BY DEF IsDocument
<1>2. PICK count \in Nat, bands \in 0 .. 3 : count = v.count /\ count >= 1 /\ bands = v.shBands
  BY Counted
<1>3. DOMAIN v.planes = 1 .. IF v.shBands = 0 THEN 5 ELSE 7
  BY DEF IsDocument
<1>4. ASSUME NEW p \in DOMAIN v.planes PROVE Present(v.planes[p])
  <2>1. CASE p = 6
    <3>1. v.shBands # 0
      BY <1>3, <2>1
    <3> QED BY <2>1, <3>1, Zenon DEF IsDocument, Present
  <2>2. CASE p # 6
    <3>1. 0 .. v.count - 1 \subseteq DOMAIN v.planes[p].texel
      BY <2>2, Zenon DEF IsDocument
    <3>2. 0 \in 0 .. v.count - 1
      BY <1>2
    <3> QED BY <3>1, <3>2, Zenon DEF Present
  <2> QED BY <2>1, <2>2
<1>5. /\ DOMAIN v.scalesCodebook = 0 .. ByteMax /\ DOMAIN v.sh0Codebook = 0 .. ByteMax
      /\ v.shBands # 0 => DOMAIN v.shCodebook = 0 .. ByteMax
  BY DEF IsDocument
<1> QED BY <1>1, <1>3, <1>4, <1>5, Zenon DEF DocumentDisagrees

(* ---- The call ---------------------------------------------------------- *)

Authoring == {"author", "join", "transfer"}
Finished  == {"finish"} \cup Authoring
Unread    == {"idle", "metadata", "read"}
IsFull(phases) == pc \in phases /\ ~request.metadataOnly

Watched ==
  /\ file \in seen /\ seen \subseteq Versions /\ request \in Requests
  /\ pc = "idle" => seen = {file}
  /\ pc \in Unread \cup {"check", "allocate", "stages", "return"} \cup Finished
  /\ pc = "metadata" => request.metadataOnly
  /\ pc \in {"read", "check", "allocate", "stages", "finish"} => ~request.metadataOnly

(* What is known of the file, once it is known.                            *)
MetadataRead ==
  pc \in Authoring /\ request.metadataOnly =>
    \E n \in seen : /\ Files[n].headerProblem = NoProblem
                    /\ metadata = [gaussianCount |-> Files[n].count,
                                   shDegree |-> Files[n].shBands]
DocumentRead ==
  IsFull({"check", "allocate", "stages"} \cup Finished) =>
    document \in seen /\ Document.problem = NoProblem

(* What the stages before have not complained of.                          *)
Passed(v, next) ==
  /\ next > 1 => PositionsFit(v)
  /\ next > 2 => ScalesFinite(v)
  /\ next > 4 => Tagged(v)
LabelsOf(v) == IF v.shBands = 0 THEN 0 ELSE OutOfRange(v)

CloudDecoded ==
  /\ pc \in Unread \cup {"check", "allocate"} =>
       stage = 1 /\ cloud = EmptyCloud /\ labelsOutOfRange = 0
  /\ pc = "stages" =>
       /\ stage \in 1 .. 6 /\ cloud = Partly(Document, stage)
       /\ Passed(Document, stage)
       /\ labelsOutOfRange = IF stage = 6 THEN LabelsOf(Document) ELSE 0
  /\ IsFull(Finished) =>
       /\ cloud = CloudOf(Document) /\ labelsOutOfRange = LabelsOf(Document)
       /\ Passed(Document, 6) /\ ScalesPositive(Document)

Authored == IF request.metadataOnly THEN Header(metadata) ELSE Full(cloud, Document)
WorkerDone ==
  /\ pc \notin {"join", "transfer", "return"} => worker = "none"
  /\ pc = "return" => worker # "running"
  /\ pc = "join" => worker \in {"running", "true", "false", "threw"}
  /\ pc = "transfer" => worker = "true"
  /\ pc \in {"join", "transfer"} /\ worker = "true" =>
       generated = Authored /\ (~request.metadataOnly => ScalesWide(Document))
  /\ pc = "join" /\ worker = "false" =>
       fault \/ (~request.metadataOnly /\ ~ScalesWide(Document))
  /\ pc = "join" /\ worker = "threw" => fault

Measured(s) ==
  /\ s.gaussianCount = Document.count /\ s.shDegree = Document.shBands
  /\ s.warningCount = Cardinality(Warnings) /\ s.sourceBytes = Document.size
  /\ s.decodedBytes = ComputeDecodedByteSize(cloud)
  /\ s.hasBounds = ~ExtentOverflows(cloud)
StatsCollected ==
  IsFull(Authoring) =>
    /\ warned = Warnings
    /\ request.stats => Measured(stats)

(* A call fails for the file's sake, or because something was refused.     *)
RefusalJustified ==
  pc = "return" /\ ~fault /\ seen = {file} => ~Importable(file, request)

IInv == /\ Watched /\ MetadataRead /\ DocumentRead /\ CloudDecoded
        /\ WorkerDone /\ StatsCollected /\ RefusalJustified

LEMMA InitIInv == Init => IInv
<1> SUFFICES ASSUME Init PROVE IInv
  OBVIOUS
<1>1. /\ file \in Versions /\ seen = {file} /\ request \in Requests /\ pc = "idle"
      /\ stage = 1 /\ cloud = EmptyCloud /\ labelsOutOfRange = 0 /\ worker = "none"
  BY DEF Init
<1>2. Watched /\ MetadataRead /\ DocumentRead
  BY <1>1 DEF Watched, MetadataRead, DocumentRead, Unread, Authoring, Finished, IsFull
<1>3. CloudDecoded /\ WorkerDone /\ RefusalJustified /\ StatsCollected
  BY <1>1 DEF CloudDecoded, WorkerDone, RefusalJustified, StatsCollected, Authoring,
     Finished, IsFull
<1> QED BY <1>2, <1>3 DEF IInv

(* What was handed out is a document.                                      *)
LEMMA DocumentIsOne ==
  ASSUME Watched, DocumentRead, IsFull({"check", "allocate", "stages"} \cup Finished)
  PROVE  /\ document \in seen /\ document \in Versions
         /\ Document.problem = NoProblem /\ IsDocument(Document)
<1>1. document \in seen /\ document \in Versions /\ Document.problem = NoProblem
  BY DEF Watched, DocumentRead
<1> QED BY <1>1, DocumentAssumption DEF Document

(* Only the versions that were seen grow, the file is another one.         *)
LEMMA EditFileStep == IInv /\ EditFile => IInv'
<1> SUFFICES ASSUME IInv, EditFile PROVE IInv'
  OBVIOUS
<1>1. /\ UNCHANGED <<request, pc, metadata, document, stage, cloud, labelsOutOfRange,
                     warned, stats, worker, generated, fault, error>>
      /\ file' \in Versions
      /\ seen' = IF pc = "idle" THEN {file'} ELSE seen \cup {file'}
  BY EditAssumption DEF EditFile, decodeVars, authorVars
<1>2. Watched'
  BY <1>1 DEF IInv, Watched
<1>3. MetadataRead' /\ DocumentRead'
  BY <1>1 DEF IInv, MetadataRead, DocumentRead, Authoring, Finished, IsFull, Document
<1>4. CloudDecoded'
  BY <1>1 DEF IInv, CloudDecoded, IsFull, Document
<1>5. WorkerDone'
  BY <1>1 DEF IInv, WorkerDone, Authored, Document
<1>6. StatsCollected'
  BY <1>1 DEF IInv, StatsCollected, IsFull, Measured, Warnings, Document
<1>7. RefusalJustified'
  <2> SUFFICES ASSUME pc = "return", ~fault, seen' = {file'}
               PROVE  ~Importable(file', request)
    BY <1>1 DEF RefusalJustified
  <2>1. file' = file /\ seen = {file}
    BY <1>1 DEF IInv, Watched
  <2> QED BY <2>1 DEF IInv, RefusalJustified
<1> QED BY <1>2, <1>3, <1>4, <1>5, <1>6, <1>7 DEF IInv

LEMMA CallStep == IInv /\ Call => IInv'
<1> SUFFICES ASSUME IInv, Call PROVE IInv'
  OBVIOUS
<1>1. /\ pc = "idle" /\ request' \in Requests
      /\ pc' = (IF request'.metadataOnly THEN "metadata" ELSE "read")
      /\ UNCHANGED <<file, seen, stage, cloud, labelsOutOfRange, worker, generated, fault>>
  BY DEF Call, fileVars, decodeVars, authorVars
<1>2. Watched'
  BY <1>1 DEF IInv, Watched, Unread
<1>3. CloudDecoded'
  BY <1>1 DEF IInv, CloudDecoded, Unread, IsFull, Finished, Authoring
<1>4. MetadataRead' /\ DocumentRead' /\ StatsCollected' /\ RefusalJustified'
  BY <1>1 DEF MetadataRead, DocumentRead, StatsCollected, RefusalJustified, IsFull,
     Finished, Authoring
<1>5. WorkerDone'
  BY <1>1 DEF IInv, WorkerDone
<1> QED BY <1>2, <1>3, <1>4, <1>5 DEF IInv

LEMMA Leaving == IInv /\ LeaveRead => IInv'
<1> SUFFICES ASSUME IInv, LeaveRead PROVE IInv'
  OBVIOUS
<1>1. /\ pc' = "idle" /\ seen' = {file} /\ stage' = 1 /\ cloud' = EmptyCloud
      /\ labelsOutOfRange' = 0 /\ worker' = "none" /\ UNCHANGED <<file, request>>
  BY DEF LeaveRead
<1>2. Watched'
  BY <1>1 DEF IInv, Watched, Unread
<1>3. CloudDecoded' /\ MetadataRead' /\ DocumentRead' /\ StatsCollected' /\ RefusalJustified'
      /\ WorkerDone'
  BY <1>1 DEF CloudDecoded, MetadataRead, DocumentRead, StatsCollected, RefusalJustified,
     WorkerDone, IsFull, Finished, Authoring
<1> QED BY <1>2, <1>3 DEF IInv

(* A call that fails has a reason, and leaves the rest to the host.        *)
LEMMA Failing ==
  ASSUME IInv, pc # "idle", pc' = "return", UNCHANGED <<file, seen, request>>,
         worker' # "running",
         fault' \/ (seen = {file} => ~Importable(file, request))
  PROVE  IInv'
<1>1. Watched'
  BY DEF IInv, Watched
<1>2. CloudDecoded' /\ MetadataRead' /\ DocumentRead' /\ StatsCollected' /\ WorkerDone'
  BY DEF CloudDecoded, MetadataRead, DocumentRead, StatsCollected, WorkerDone, IsFull,
     Unread, Finished, Authoring
<1>3. RefusalJustified'
  BY DEF RefusalJustified
<1> QED BY <1>1, <1>2, <1>3 DEF IInv

LEMMA ReadMetadataStep == IInv /\ ReadMetadata => IInv'
<1> SUFFICES ASSUME IInv, ReadMetadata PROVE IInv'
  OBVIOUS
<1>1. /\ pc = "metadata" /\ pc' = "author" /\ Files[file].headerProblem = NoProblem
      /\ metadata' = [gaussianCount |-> Files[file].count, shDegree |-> Files[file].shBands]
      /\ UNCHANGED <<file, seen, request, document, worker>>
      /\ request.metadataOnly /\ worker = "none" /\ file \in seen
  BY DEF ReadMetadata, Continue, fileVars, authorVars, IInv, Watched, WorkerDone
<1>2. Watched' /\ MetadataRead'
  BY <1>1 DEF IInv, Watched, MetadataRead, Finished, Authoring
<1>3. DocumentRead' /\ CloudDecoded' /\ StatsCollected' /\ RefusalJustified'
  BY <1>1 DEF DocumentRead, CloudDecoded, StatsCollected, RefusalJustified,
     IsFull, Unread, Finished, Authoring
<1>4. WorkerDone'
  BY <1>1 DEF WorkerDone
<1> QED BY <1>2, <1>3, <1>4 DEF IInv

LEMMA ReadDocumentStep == IInv /\ ReadDocument => IInv'
<1> SUFFICES ASSUME IInv, ReadDocument PROVE IInv'
  OBVIOUS
<1>1. /\ pc = "read" /\ pc' = "check" /\ Files[file].problem = NoProblem /\ document' = file
      /\ UNCHANGED <<file, seen, request, stage, cloud, labelsOutOfRange, worker, fault>>
      /\ ~request.metadataOnly /\ worker = "none" /\ stage = 1 /\ cloud = EmptyCloud
      /\ labelsOutOfRange = 0 /\ file \in seen
  BY DEF ReadDocument, Continue, fileVars, authorVars, IInv, Watched, WorkerDone,
     CloudDecoded, Unread
<1>2. Watched' /\ DocumentRead'
  BY <1>1 DEF IInv, Watched, DocumentRead, IsFull, Finished, Authoring, Document
<1>3. CloudDecoded' /\ MetadataRead' /\ StatsCollected' /\ RefusalJustified' /\ WorkerDone'
  BY <1>1 DEF CloudDecoded, MetadataRead, StatsCollected, RefusalJustified, WorkerDone,
     IsFull, Finished, Authoring
<1> QED BY <1>2, <1>3 DEF IInv

(* The reader's problem is one of a version.                               *)
LEMMA ReaderFailsStep == IInv /\ ReaderFails => IInv'
<1> SUFFICES ASSUME IInv, ReaderFails PROVE IInv'
  OBVIOUS
<1> DEFINE Problem(n) == IF pc = "metadata" THEN Files[n].headerProblem ELSE Files[n].problem
<1>1. PICK n \in seen : pc \in {"metadata", "read"} /\ Problem(n) # NoProblem /\ Fail(Problem(n))
  BY DEF ReaderFails
<1>2. UNCHANGED <<file, seen, request, worker>>
  BY DEF ReaderFails, fileVars, authorVars
<1>3. pc' = "return" /\ worker = "none" /\ pc # "idle"
  BY <1>1 DEF Fail, IInv, WorkerDone
<1>4. ASSUME seen = {file} PROVE ~Importable(file, request)
  <2>1. n = file
    BY <1>4
  <2>2. pc = "metadata" => request.metadataOnly
    BY DEF IInv, Watched
  <2>3. pc = "read" => ~request.metadataOnly
    BY DEF IInv, Watched
  <2> QED BY <1>1, <2>1, <2>2, <2>3 DEF Importable
<1> QED BY <1>2, <1>3, <1>4, Failing

LEMMA FaultStep == IInv /\ (ReaderFaults \/ Throw) => IInv'
<1> SUFFICES ASSUME IInv, ReaderFaults \/ Throw PROVE IInv'
  OBVIOUS
<1>1. /\ pc \in {"metadata", "read", "finish"} /\ pc' = "return" /\ fault'
      /\ UNCHANGED <<file, seen, request, worker>>
  BY DEF ReaderFaults, Throw, Fail, fileVars, authorVars
<1>2. worker = "none"
  BY <1>1 DEF IInv, WorkerDone
<1> QED BY <1>1, <1>2, Failing

(* The decoder's own check never fails.                                    *)
LEMMA CheckDocumentStep == IInv /\ CheckDocument => IInv'
<1> SUFFICES ASSUME IInv, CheckDocument PROVE IInv'
  OBVIOUS
<1>1. /\ pc = "check" /\ worker = "none" /\ ~request.metadataOnly
      /\ UNCHANGED <<file, seen, request, document, stage, cloud, labelsOutOfRange,
                     worker, fault>>
      /\ stage = 1 /\ cloud = EmptyCloud /\ labelsOutOfRange = 0
  BY DEF CheckDocument, fileVars, decodeVars, authorVars, IInv, Watched, WorkerDone,
     CloudDecoded
<1>2. IsDocument(Document)
  BY <1>1, DocumentIsOne DEF IInv, IsFull
<1>3. pc' = "allocate"
  BY <1>2, DocumentAgrees DEF CheckDocument, Continue
<1>4. Watched' /\ DocumentRead'
  BY <1>1, <1>3 DEF IInv, Watched, DocumentRead, IsFull, Finished, Authoring, Document
<1>5. CloudDecoded' /\ MetadataRead' /\ StatsCollected' /\ RefusalJustified' /\ WorkerDone'
  BY <1>1, <1>3 DEF CloudDecoded, MetadataRead, StatsCollected, RefusalJustified, WorkerDone,
     IsFull, Finished, Authoring
<1> QED BY <1>4, <1>5 DEF IInv

LEMMA AllocateStep == IInv /\ Allocate => IInv'
<1> SUFFICES ASSUME IInv, Allocate PROVE IInv'
  OBVIOUS
<1>1. /\ pc = "allocate" /\ worker = "none" /\ ~request.metadataOnly
      /\ UNCHANGED <<file, seen, request, document, stage, cloud, labelsOutOfRange, worker>>
      /\ stage = 1 /\ cloud = EmptyCloud /\ labelsOutOfRange = 0
      /\ \/ pc' = "stages" /\ UNCHANGED fault
         \/ pc' = "return" /\ fault'
  BY DEF Allocate, Fail, Continue, fileVars, decodeVars, authorVars, IInv, Watched,
     WorkerDone, CloudDecoded
<1>2. CASE pc' = "return" /\ fault'
  BY <1>1, <1>2, Failing
<1>3. CASE pc' = "stages" /\ UNCHANGED fault
  <2>1. Watched' /\ DocumentRead'
    BY <1>1, <1>3 DEF IInv, Watched, DocumentRead, IsFull, Finished, Authoring, Document
  <2>2. cloud = Partly(Document, 1)
    BY <1>1, NothingDecoded, Zenon
  <2>3. CloudDecoded'
    BY <1>1, <1>3, <2>2 DEF CloudDecoded, IsFull, Unread, Finished, Authoring, Passed, Document
  <2>4. MetadataRead' /\ StatsCollected' /\ RefusalJustified' /\ WorkerDone'
    BY <1>1, <1>3 DEF MetadataRead, StatsCollected, RefusalJustified, WorkerDone,
       IsFull, Finished, Authoring
  <2> QED BY <2>1, <2>3, <2>4 DEF IInv
<1> QED BY <1>1, <1>2, <1>3

(* A stage that complains has a document that cannot be imported.          *)
LEMMA StagePasses ==
  ASSUME NEW v, IsDocument(v), NEW next \in 1 .. 5, Passed(v, next)
  PROVE  /\ StageProblem(Stages[next], v) = NoProblem => Passed(v, next + 1)
         /\ StageProblem(Stages[next], v) # NoProblem =>
              ~(PositionsFit(v) /\ ScalesPositive(v) /\ ScalesWide(v) /\ Tagged(v))
<1>1. ASSUME ScalesWide(v) PROVE ScalesFinite(v)
  <2> SUFFICES ASSUME NEW i \in 0 .. v.count - 1, NEW axis \in 1 .. 3
               PROVE  UsedScale(v, i, axis) <= kLogMax
    BY Zenon DEF ScalesFinite
  <2>1. PICK s \in Int : s = UsedScale(v, i, axis)
    BY UsedScales
  <2>2. s <= kLogWide
    BY <1>1, <2>1, Zenon DEF ScalesWide
  <2>3. s <= kLogMax
    BY <2>2, ValuesAssumption
  <2> QED BY <2>1, <2>3, Zenon
<1> DEFINE problem == StageProblem(Stages[next], v)
<1>2. /\ next = 1 => problem = Check(~PositionsFit(v), "malformedMetadata")
      /\ next = 2 => problem = Check(~ScalesFinite(v), "invalidCodebook")
      /\ next = 3 => problem = NoProblem
      /\ next = 4 => problem = Check(~Tagged(v), "malformedRotation")
      /\ next = 5 => problem = NoProblem
  BY StageNames, StageProblems, Zenon
<1> HIDE DEF problem
<1>3. /\ next = 1 => (problem = NoProblem <=> PositionsFit(v))
      /\ next = 2 => (problem = NoProblem <=> ScalesFinite(v))
      /\ next = 4 => (problem = NoProblem <=> Tagged(v))
      /\ next \in {3, 5} => problem = NoProblem
  <2>1. \A fails \in BOOLEAN :
          /\ Check(fails, "malformedMetadata") = NoProblem <=> ~fails
          /\ Check(fails, "invalidCodebook") = NoProblem <=> ~fails
          /\ Check(fails, "malformedRotation") = NoProblem <=> ~fails
    BY DEF Check, NoProblem
  <2>2. PositionsFit(v) \in BOOLEAN /\ ScalesFinite(v) \in BOOLEAN /\ Tagged(v) \in BOOLEAN
    BY Zenon DEF PositionsFit, ScalesFinite, Tagged
  <2> QED BY <1>2, <2>1, <2>2
<1>4. problem = NoProblem => Passed(v, next + 1)
  BY <1>3 DEF Passed
<1>5. problem # NoProblem =>
        ~(PositionsFit(v) /\ ScalesPositive(v) /\ ScalesWide(v) /\ Tagged(v))
  BY <1>1, <1>3
<1> QED BY <1>4, <1>5 DEF problem

LEMMA DecodeStageStep == IInv /\ DecodeStage => IInv'
<1> SUFFICES ASSUME IInv, DecodeStage PROVE IInv'
  OBVIOUS
<1> DEFINE v       == Document
           name    == Stages[stage]
           skipped == name = "restCoefficients" /\ v.shBands = 0
           problem == StageProblem(name, v)
<1>1. /\ pc = "stages" /\ stage <= Len(Stages)
      /\ UNCHANGED <<file, seen, request, metadata, document, worker, stats, warned>>
      /\ ~request.metadataOnly /\ worker = "none"
      /\ stage \in 1 .. 6 /\ cloud = Partly(v, stage) /\ Passed(v, stage)
      /\ labelsOutOfRange = IF stage = 6 THEN LabelsOf(v) ELSE 0
  BY DEF DecodeStage, fileVars, authorVars, IInv, Watched, WorkerDone, CloudDecoded
<1>2. stage \in 1 .. 5
  BY <1>1, StageNames
<1>3. document \in seen /\ v.problem = NoProblem /\ IsDocument(v)
  BY <1>1, DocumentIsOne DEF IInv, IsFull
<1>4. \/ pc' = "return" /\ fault'
      \/ problem # NoProblem /\ pc' = "return"
      \/ /\ problem = NoProblem
         /\ stage' = stage + 1 /\ pc' = "stages" /\ UNCHANGED fault
         /\ cloud' = IF skipped THEN cloud ELSE Filled(cloud, DecodedStage(name, v))
         /\ labelsOutOfRange' = IF name = "restCoefficients" /\ ~skipped
                                THEN OutOfRange(v) ELSE labelsOutOfRange
  BY DEF DecodeStage, Fail, Continue
<1>5. /\ problem = NoProblem => Passed(v, stage + 1)
      /\ problem # NoProblem =>
           ~(PositionsFit(v) /\ ScalesPositive(v) /\ ScalesWide(v) /\ Tagged(v))
  BY <1>1, <1>2, <1>3, StagePasses
<1> HIDE DEF problem
<1>6. CASE pc' = "return" /\ fault'
  BY <1>1, <1>6, Failing
<1>7. CASE problem # NoProblem /\ pc' = "return"
  <2>1. seen = {file} => document = file
    BY <1>3
  <2>2. seen = {file} => ~Importable(file, request)
    BY <1>1, <1>3, <1>5, <1>7, <2>1, ImportableIs, Zenon DEF Document
  <2> QED BY <1>1, <1>7, <2>2, Failing
<1>8. CASE /\ problem = NoProblem
           /\ stage' = stage + 1 /\ pc' = "stages" /\ UNCHANGED fault
           /\ cloud' = IF skipped THEN cloud ELSE Filled(cloud, DecodedStage(name, v))
           /\ labelsOutOfRange' = IF name = "restCoefficients" /\ ~skipped
                                  THEN OutOfRange(v) ELSE labelsOutOfRange
  <2>1. cloud' = Partly(v, stage + 1)
    BY <1>1, <1>2, <1>8, PartlyGrows, Zenon
  <2>2. stage' \in 1 .. 6 /\ Document' = v
    BY <1>1, <1>2, <1>8 DEF Document
  <2>3. labelsOutOfRange' = IF stage' = 6 THEN LabelsOf(v) ELSE 0
    <3>1. name = "restCoefficients" <=> stage = 5
      BY <1>2 DEF Stages
    <3>2. labelsOutOfRange = 0
      BY <1>1, <1>2
    <3> HIDE DEF v, name
    <3>3. CASE stage = 5
      <4>1. stage' = 6
        BY <1>8, <3>3
      <4> QED BY <1>8, <3>1, <3>2, <3>3, <4>1, Zenon DEF LabelsOf
    <3>4. CASE stage # 5
      <4>1. stage' # 6
        BY <1>2, <1>8, <3>4
      <4> QED BY <1>8, <3>1, <3>2, <3>4, <4>1, Zenon
    <3> QED BY <3>3, <3>4
  <2>4. Passed(v, stage')
    BY <1>5, <1>8
  <2> HIDE DEF v
  <2>5. CloudDecoded'
    BY <1>1, <1>8, <2>1, <2>2, <2>3, <2>4 DEF CloudDecoded, IsFull, Unread, Finished, Authoring
  <2>6. Watched' /\ DocumentRead'
    BY <1>1, <1>8, <2>2 DEF IInv, Watched, DocumentRead, IsFull, v
  <2>7. MetadataRead' /\ StatsCollected' /\ RefusalJustified' /\ WorkerDone'
    BY <1>1, <1>8 DEF MetadataRead, StatsCollected, RefusalJustified, WorkerDone,
       IsFull, Finished, Authoring
  <2> QED BY <2>5, <2>6, <2>7 DEF IInv
<1> QED BY <1>4, <1>6, <1>7, <1>8

(* The gate stops what was decoded only for a scale that vanishes.         *)
LEMMA ConvertFrameStep == IInv /\ ConvertFrame => IInv'
<1> SUFFICES ASSUME IInv, ConvertFrame PROVE IInv'
  OBVIOUS
<1> DEFINE v == Document
<1>1. /\ pc = "stages" /\ stage > Len(Stages)
      /\ UNCHANGED <<file, seen, request, metadata, document, stage, labelsOutOfRange,
                     worker, fault>>
      /\ ~request.metadataOnly /\ worker = "none"
      /\ stage \in 1 .. 6 /\ cloud = Partly(v, stage) /\ Passed(v, stage)
      /\ labelsOutOfRange = IF stage = 6 THEN LabelsOf(v) ELSE 0
  BY DEF ConvertFrame, fileVars, authorVars, IInv, Watched, WorkerDone, CloudDecoded
<1>2. stage = 6
  BY <1>1, StageNames
<1>3. document \in seen /\ v.problem = NoProblem /\ IsDocument(v)
  BY <1>1, DocumentIsOne DEF IInv, IsFull
<1>4. PositionsFit(v) /\ ScalesFinite(v) /\ Tagged(v) /\ Passed(v, 6)
      /\ labelsOutOfRange = LabelsOf(v)
  BY <1>1, <1>2 DEF Passed
<1>5. cloud' = FlipYZAxes(Raw(v))
  <2>1. cloud' = FlipYZAxes(cloud)
    BY DEF ConvertFrame
  <2> QED BY <1>1, <1>2, <2>1, AllDecoded, Zenon
<1>6. IF IsValidCloud(cloud', v) THEN pc' = "finish" ELSE pc' = "return"
  BY DEF ConvertFrame, Continue, Fail
<1>7. IsValidCloud(cloud', v) <=> ScalesPositive(v)
  BY <1>3, <1>4, <1>5, GateStops, Zenon
<1>8. Document' = v
  BY <1>1 DEF Document
<1>9. CASE ~ScalesPositive(v)
  <2>1. pc' = "return"
    BY <1>6, <1>7, <1>9, Zenon
  <2>2. seen = {file} => document = file
    BY <1>3
  <2>3. seen = {file} => ~Importable(file, request)
    BY <1>1, <1>3, <1>9, <2>2, ImportableIs, Zenon DEF Document
  <2> QED BY <1>1, <2>1, <2>3, Failing
<1>10. CASE ScalesPositive(v)
  <2>1. pc' = "finish"
    BY <1>6, <1>7, <1>10, Zenon
  <2>2. cloud' = CloudOf(v)
    BY <1>3, <1>4, <1>5, <1>10, TurnedIsCloud, Zenon
  <2> HIDE DEF v
  <2>3. CloudDecoded'
    BY <1>1, <1>4, <1>8, <1>10, <2>1, <2>2 DEF CloudDecoded, IsFull, Unread
  <2>4. Watched' /\ DocumentRead'
    BY <1>1, <1>3, <1>8, <2>1 DEF IInv, Watched, DocumentRead, IsFull, Finished, Authoring
  <2>5. MetadataRead' /\ StatsCollected' /\ RefusalJustified' /\ WorkerDone'
    BY <1>1, <2>1 DEF MetadataRead, StatsCollected, RefusalJustified, WorkerDone,
       IsFull, Authoring
  <2> QED BY <2>3, <2>4, <2>5 DEF IInv
<1> QED BY <1>9, <1>10

(* From the gate to the end of the call the document and the cloud stay.   *)
LEMMA CarryingOn ==
  ASSUME IInv, pc \in Finished, pc' \in Finished, pc' = "finish" => pc = "finish",
         UNCHANGED <<file, seen, request, metadata, document, cloud, labelsOutOfRange>>
  PROVE  Watched' /\ MetadataRead' /\ DocumentRead' /\ CloudDecoded' /\ RefusalJustified'
<1>1. pc' \notin Unread \cup {"check", "allocate", "stages", "return"}
  BY DEF Finished, Authoring, Unread
<1>2. Document' = Document
  BY DEF Document
<1>3. Watched'
  BY <1>1 DEF IInv, Watched, Unread
<1>4. DocumentRead' /\ RefusalJustified'
  BY <1>1, <1>2 DEF IInv, DocumentRead, RefusalJustified, IsFull
<1>5. CloudDecoded'
  BY <1>1, <1>2 DEF IInv, CloudDecoded, IsFull
<1>6. MetadataRead'
  BY DEF IInv, MetadataRead, Watched, Finished
<1> QED BY <1>3, <1>4, <1>5, <1>6

LEMMA FinishDecodeStep == IInv /\ FinishDecode => IInv'
<1> SUFFICES ASSUME IInv, FinishDecode PROVE IInv'
  OBVIOUS
<1>1. /\ pc = "finish" /\ pc' = "author" /\ worker = "none" /\ ~request.metadataOnly
      /\ warned' = Warnings
      /\ request.stats => stats' =
           [gaussianCount |-> Document.count, shDegree |-> Document.shBands,
            warningCount |-> Cardinality(Warnings), sourceBytes |-> Document.size,
            decodedBytes |-> ComputeDecodedByteSize(cloud),
            hasBounds |-> ~ExtentOverflows(cloud)]
      /\ UNCHANGED <<file, seen, request, metadata, document, cloud, labelsOutOfRange,
                     worker, fault>>
  BY DEF FinishDecode, Continue, fileVars, decodeVars, authorVars, IInv, WorkerDone, Watched
<1>2. Watched' /\ MetadataRead' /\ DocumentRead' /\ CloudDecoded' /\ RefusalJustified'
  BY <1>1, CarryingOn DEF Finished, Authoring
<1>3. WorkerDone'
  BY <1>1 DEF WorkerDone
<1>4. Warnings' = Warnings /\ Document' = Document
  BY <1>1 DEF Warnings, Document
<1>5. request.stats => Measured(stats)'
  <2> SUFFICES ASSUME request.stats PROVE Measured(stats)'
    OBVIOUS
  <2>1. /\ stats'.gaussianCount = Document.count /\ stats'.shDegree = Document.shBands
        /\ stats'.warningCount = Cardinality(Warnings) /\ stats'.sourceBytes = Document.size
        /\ stats'.decodedBytes = ComputeDecodedByteSize(cloud)
        /\ stats'.hasBounds = ~ExtentOverflows(cloud)
    BY <1>1
  <2> QED BY <1>1, <1>4, <2>1 DEF Measured
<1>6. StatsCollected'
  BY <1>1, <1>4, <1>5 DEF StatsCollected, IsFull, Authoring
<1> QED BY <1>2, <1>3, <1>6 DEF IInv

(* ---- The worker -------------------------------------------------------- *)

(* What is known of a decoded document.                                    *)
LEMMA DecodedIs ==
  ASSUME IInv, IsFull(Finished)
  PROVE  /\ document \in seen /\ Document.problem = NoProblem /\ IsDocument(Document)
         /\ PositionsFit(Document) /\ ScalesFinite(Document) /\ ScalesPositive(Document)
         /\ Tagged(Document)
         /\ cloud = CloudOf(Document) /\ cloud = FlipYZAxes(Raw(Document))
         /\ labelsOutOfRange = LabelsOf(Document)
<1>1. document \in seen /\ Document.problem = NoProblem /\ IsDocument(Document)
  BY DocumentIsOne DEF IInv, IsFull
<1>2. /\ cloud = CloudOf(Document) /\ labelsOutOfRange = LabelsOf(Document)
      /\ Passed(Document, 6) /\ ScalesPositive(Document)
  BY DEF IInv, CloudDecoded
<1>3. PositionsFit(Document) /\ ScalesFinite(Document) /\ Tagged(Document)
  BY <1>2 DEF Passed
<1>4. FlipYZAxes(Raw(Document)) = CloudOf(Document)
  BY <1>1, <1>2, <1>3, TurnedIsCloud
<1> QED BY <1>1, <1>2, <1>3, <1>4

(* The writer has one thing to complain about: an extent that is no float. *)
(* The cloud has passed the gate before, and the worker sees its own layer *)
(* whoever holds a change block.                                           *)
LEMMA WriterComplains ==
  ASSUME IInv, pc = "join"
  PROVE  WriterProblem = "" <=> request.metadataOnly \/ ScalesWide(Document)
<1>1. ~Observes(request.changeBlock)
  BY DEF Observes, AuthoringThread
<1> DEFINE gate     == Check(~IsValidCloud(cloud, Document), "cloudValidationFailed")
           scaffold == Check(Observes(request.changeBlock), "scaffoldAuthoringFailed")
           extent   == Check(ExtentOverflows(cloud), "extentOverflow")
<1>2. scaffold = NoProblem
  BY <1>1, Zenon DEF Check
<1>3. WriterProblem = IF request.metadataOnly THEN scaffold
                      ELSE FirstFailure(<<gate, scaffold, extent>>)
  BY DEF WriterProblem
<1>4. CASE request.metadataOnly
  <2> HIDE DEF gate, scaffold, extent
  <2> QED BY <1>2, <1>3, <1>4 DEF NoProblem
<1>5. CASE ~request.metadataOnly
  <2>1. IsFull(Finished)
    BY <1>5 DEF IsFull, Finished, Authoring
  <2>2. gate = NoProblem
    <3>1. IsValidCloud(cloud, Document)
      BY <2>1, DecodedIs, GateStops, Zenon
    <3> QED BY <3>1, Zenon DEF Check
  <2>3. ExtentOverflows(cloud) <=> ~ScalesWide(Document)
    BY <2>1, DecodedIs, ExtentIs, Zenon
  <2>4. extent = IF ~ScalesWide(Document) THEN "extentOverflow" ELSE NoProblem
    BY <2>3, Zenon DEF Check
  <2> HIDE DEF gate, scaffold, extent
  <2>5. WriterProblem = extent
    BY <1>2, <1>3, <1>5, <2>2, LastOfThree, Zenon
  <2>6. extent = "" <=> ScalesWide(Document)
    BY <2>4 DEF NoProblem
  <2> QED BY <1>5, <2>5, <2>6, Zenon
<1> QED BY <1>4, <1>5

(* While the worker runs, and after, what it authors from stays.           *)
LEMMA StatsStay ==
  ASSUME IInv, pc \in Authoring, pc' \in Authoring,
         UNCHANGED <<request, document, cloud, labelsOutOfRange, stats, warned>>
  PROVE  StatsCollected'
<1>1. Warnings' = Warnings /\ Document' = Document
  BY DEF Warnings, Document
<1>2. Measured(stats)' = Measured(stats)
  BY <1>1 DEF Measured
<1> QED BY <1>1, <1>2 DEF IInv, StatsCollected, IsFull

LEMMA StartWorkerStep == IInv /\ StartWorker => IInv'
<1> SUFFICES ASSUME IInv, StartWorker PROVE IInv'
  OBVIOUS
<1>1. /\ pc = "author" /\ pc' = "join" /\ worker' = "running"
      /\ UNCHANGED <<file, seen, request, metadata, document, cloud, labelsOutOfRange,
                     stats, warned, fault>>
  BY DEF StartWorker, Spawn, Continue, fileVars, decodeVars
<1>2. Watched' /\ MetadataRead' /\ DocumentRead' /\ CloudDecoded' /\ RefusalJustified'
  BY <1>1, CarryingOn DEF Finished, Authoring
<1>3. WorkerDone'
  BY <1>1 DEF WorkerDone
<1>4. StatsCollected'
  BY <1>1, StatsStay DEF Authoring
<1> QED BY <1>2, <1>3, <1>4 DEF IInv

LEMMA WorkerStep == IInv /\ Worker => IInv'
<1> SUFFICES ASSUME IInv, Worker PROVE IInv'
  OBVIOUS
<1>1. /\ worker = "running"
      /\ UNCHANGED <<file, seen, request, metadata, document, cloud, labelsOutOfRange,
                     stats, warned, pc>>
  BY DEF Worker, WorkerAuthors, WorkerThrows, Author, EndByException, fileVars, decodeVars
<1>2. pc = "join"
  BY <1>1 DEF IInv, WorkerDone, Watched, Unread, Finished, Authoring
<1>3. WriterProblem = "" <=> request.metadataOnly \/ ScalesWide(Document)
  BY <1>2, WriterComplains
<1>4. \/ WriterProblem = "" /\ worker' = "true" /\ generated' = Authored /\ UNCHANGED fault
      \/ WriterProblem # "" /\ worker' = "false" /\ UNCHANGED fault
      \/ worker' \in {"false", "threw"} /\ fault'
  BY DEF Worker, WorkerAuthors, WorkerThrows, Author, EndByException, Authored
<1>5. Watched' /\ MetadataRead' /\ DocumentRead' /\ CloudDecoded' /\ RefusalJustified'
  BY <1>1, <1>2, CarryingOn DEF Finished, Authoring
<1>6. Authored' = Authored /\ Document' = Document
  BY <1>1 DEF Authored, Document
<1>7. WorkerDone'
  BY <1>1, <1>2, <1>3, <1>4, <1>6 DEF WorkerDone
<1>8. StatsCollected'
  BY <1>1, <1>2, StatsStay DEF Authoring
<1> QED BY <1>5, <1>7, <1>8 DEF IInv

LEMMA JoinStep == IInv /\ Join => IInv'
<1> SUFFICES ASSUME IInv, Join PROVE IInv'
  OBVIOUS
<1>1. /\ pc = "join" /\ worker \in {"true", "false", "threw"}
      /\ \/ pc' = "transfer" /\ worker = "true"
         \/ pc' = "return" /\ worker \in {"false", "threw"}
      /\ UNCHANGED <<file, seen, request, metadata, document, cloud, labelsOutOfRange,
                     stats, warned, worker, generated, fault>>
  BY DEF Join, Get, fileVars, decodeVars, authorVars
<1>2. CASE pc' = "return" /\ worker \in {"false", "threw"}
  <2>1. fault \/ (~request.metadataOnly /\ ~ScalesWide(Document))
    BY <1>1, <1>2 DEF IInv, WorkerDone
  <2>2. CASE ~request.metadataOnly /\ ~ScalesWide(Document)
    <3>1. IsFull(Finished)
      BY <1>1, <2>2 DEF IsFull, Finished, Authoring
    <3>2. document \in seen /\ Document.problem = NoProblem /\ IsDocument(Document)
      BY <3>1, DecodedIs
    <3>3. seen = {file} => document = file
      BY <3>2
    <3>4. seen = {file} => ~Importable(file, request)
      BY <2>2, <3>2, <3>3, ImportableIs, Zenon DEF Document
    <3> QED BY <1>1, <1>2, <3>4, Failing
  <2>3. CASE fault
    BY <1>1, <1>2, <2>3, Failing
  <2> QED BY <2>1, <2>2, <2>3
<1>3. CASE pc' = "transfer" /\ worker = "true"
  <2>1. Watched' /\ MetadataRead' /\ DocumentRead' /\ CloudDecoded' /\ RefusalJustified'
    BY <1>1, <1>3, CarryingOn DEF Finished, Authoring
  <2>2. Authored' = Authored /\ Document' = Document
    BY <1>1 DEF Authored, Document
  <2>3. WorkerDone'
    BY <1>1, <1>3, <2>2 DEF IInv, WorkerDone
  <2>4. StatsCollected'
    BY <1>1, <1>3, StatsStay DEF Authoring
  <2> QED BY <2>1, <2>3, <2>4 DEF IInv
<1> QED BY <1>1, <1>2, <1>3

LEMMA Stuttering == IInv /\ UNCHANGED vars => IInv'
<1> SUFFICES ASSUME IInv, UNCHANGED vars PROVE IInv'
  OBVIOUS
<1>1. UNCHANGED <<file, seen, request, pc, metadata, document, stage, cloud,
                  labelsOutOfRange, warned, stats, worker, generated, fault>>
  BY DEF vars, fileVars, decodeVars, authorVars
<1>2. Document' = Document /\ Authored' = Authored /\ Warnings' = Warnings
  BY <1>1 DEF Document, Authored, Warnings
<1>3. Measured(stats)' = Measured(stats)
  BY <1>1, <1>2 DEF Measured
<1>4. Watched' /\ MetadataRead' /\ DocumentRead' /\ RefusalJustified'
  BY <1>1, <1>2 DEF IInv, Watched, MetadataRead, DocumentRead, RefusalJustified, IsFull
<1>5. CloudDecoded'
  BY <1>1, <1>2 DEF IInv, CloudDecoded, IsFull
<1>6. WorkerDone' /\ StatsCollected'
  BY <1>1, <1>2, <1>3 DEF IInv, WorkerDone, StatsCollected, IsFull
<1> QED BY <1>4, <1>5, <1>6 DEF IInv

LEMMA NextIInv == IInv /\ [Next]_vars => IInv'
<1> SUFFICES ASSUME IInv, [Next]_vars PROVE IInv'
  OBVIOUS
<1>1. CASE EditFile \/ Call
  BY <1>1, EditFileStep, CallStep
<1>2. CASE ReadMetadata \/ ReadDocument \/ ReaderFails \/ ReaderFaults \/ Throw
  BY <1>2, ReadMetadataStep, ReadDocumentStep, ReaderFailsStep, FaultStep
<1>3. CASE CheckDocument \/ Allocate \/ DecodeStage \/ ConvertFrame \/ FinishDecode
  BY <1>3, CheckDocumentStep, AllocateStep, DecodeStageStep, ConvertFrameStep, FinishDecodeStep
<1>4. CASE StartWorker \/ Worker \/ Join
  BY <1>4, StartWorkerStep, WorkerStep, JoinStep
<1>5. CASE TransferContent \/ Return
  BY <1>5, Leaving DEF TransferContent, Return
<1>6. CASE UNCHANGED vars
  BY <1>6, Stuttering
<1> QED BY <1>1, <1>2, <1>3, <1>4, <1>5, <1>6 DEF Next, Caller

(* At every point of every call the cloud holds what the loops before have *)
(* decoded, with nothing they should have complained of; after the change  *)
(* of frame it is the cloud the document stands for; the detached layer is *)
(* what the writer made of it, the statistics are of the document, and a   *)
(* call that has failed with nothing refused, of a file nobody edited, had *)
(* a file it could not import (GaussianSogFileFormat.cpp with the decoder  *)
(* and the writer it calls).                                               *)
THEOREM Invariance == Spec => []IInv
<1>1. Init => IInv
  BY InitIInv
<1>2. IInv /\ [Next]_vars => IInv'
  BY NextIInv
<1> QED BY <1>1, <1>2, PTL DEF Spec

(* A Gaussian without its higher bands is warned of in every import, and   *)
(* there is no warning without one.                                        *)
THEOREM DegradationIsWarned == Spec => []DegradedIffWarned
<1>1. IInv => DegradedIffWarned
  <2> DEFINE d == Document
             Beyond(i) == LET label == d.planes[7].texel[i] IN
                          label[1] + label[2] * (ByteMax + 1) \notin 0 .. d.paletteCount - 1
             lost == {i \in 0 .. d.count - 1 : IsOutOfRange(d, i)}
  <2> SUFFICES ASSUME IInv, pc = "transfer", ~request.metadataOnly
               PROVE  warned # {} <=> d.shBands # 0 /\ \E i \in 0 .. d.count - 1 : Beyond(i)
    BY DEF DegradedIffWarned
  <2>1. IsFull(Authoring) /\ IsFull(Finished)
    BY DEF IsFull, Authoring, Finished
  <2>2. warned = Warnings
    BY <2>1 DEF IInv, StatsCollected
  <2>3. warned # {} <=> labelsOutOfRange # 0
    BY <2>2 DEF Warnings
  <2>4. labelsOutOfRange = IF d.shBands = 0 THEN 0 ELSE Cardinality(lost)
    BY <2>1, DecodedIs, Zenon DEF LabelsOf, OutOfRange
  <2>5. IsDocument(d)
    BY <2>1, DecodedIs
  <2> HIDE DEF d
  <2>6. Cardinality(lost) = 0 <=> lost = {}
    <3>1. d.count \in Nat
      BY <2>5, Counted
    <3>2. IsFiniteSet(0 .. d.count - 1)
      BY <3>1, FS_Interval
    <3>3. IsFiniteSet(lost)
      BY <3>2, FS_Subset
    <3> QED BY <3>3, FS_EmptySet
  <2>7. ASSUME NEW i \in 0 .. d.count - 1, d.shBands # 0
        PROVE  IsOutOfRange(d, i) <=> Beyond(i)
    <3>1. PICK label \in Nat : label = Label(d, i)
      <4>1. 0 \in Nat
        OBVIOUS
      <4> QED BY <2>5, <2>7, <4>1, CentroidIs
    <3>2. label = d.planes[7].texel[i][1] + d.planes[7].texel[i][2] * (ByteMax + 1)
      BY <3>1 DEF Label, WordOf, Gaussian, Plane
    <3>3. label >= d.paletteCount <=> label \notin 0 .. d.paletteCount - 1
      BY <2>5 DEF IsDocument
    <3> QED BY <3>1, <3>2, <3>3, Zenon DEF IsOutOfRange
  <2> HIDE DEF Beyond
  <2>8. d.shBands # 0 => (lost # {} <=> \E i \in 0 .. d.count - 1 : Beyond(i))
    BY <2>7
  <2> HIDE DEF lost
  <2> QED BY <2>3, <2>4, <2>6, <2>8
<1> QED BY <1>1, Invariance, PTL

(* The statistics of every import are those of the layer that is taken,    *)
(* and of the version it was decoded from.                                 *)
THEOREM StatisticsDescribe == Spec => []StatsDescribeLayer
<1>1. IInv => StatsDescribeLayer
  <2> SUFFICES ASSUME IInv, pc = "transfer", ~request.metadataOnly, request.stats
               PROVE  /\ stats.gaussianCount = generated.count
                      /\ stats.shDegree = generated.shDegree
                      /\ stats.decodedBytes
                           = generated.count
                               * (3 + 3 + 4 + 1 + 3 + 3 * RestPerGaussian(generated.shDegree))
                      /\ stats.warningCount = Cardinality(warned)
                      /\ stats.hasBounds
                      /\ \E v \in seen : /\ stats.sourceBytes = Files[v].size
                                         /\ generated = Content(v, request)
    BY DEF StatsDescribeLayer
  <2>1. IsFull(Authoring) /\ IsFull(Finished)
    BY DEF IsFull, Authoring, Finished
  <2>2. generated = Full(cloud, Document) /\ ScalesWide(Document)
    BY DEF IInv, WorkerDone, Authored
  <2>3. generated.count = Document.count /\ generated.shDegree = Document.shBands
    BY <2>2 DEF Full
  <2>4. warned = Warnings /\ Measured(stats)
    BY <2>1 DEF IInv, StatsCollected
  <2>5. /\ document \in seen /\ IsDocument(Document)
        /\ cloud = CloudOf(Document) /\ cloud = FlipYZAxes(Raw(Document))
    BY <2>1, DecodedIs
  <2>6. stats.decodedBytes
          = generated.count
              * (3 + 3 + 4 + 1 + 3 + 3 * RestPerGaussian(generated.shDegree))
    BY <2>3, <2>4, <2>5, CloudByteSize, Zenon DEF Measured
  <2>7. stats.warningCount = Cardinality(warned)
    BY <2>4, Zenon DEF Measured
  <2>8. stats.hasBounds
    BY <2>2, <2>4, <2>5, ExtentIs, Zenon DEF Measured
  <2>9. stats.sourceBytes = Files[document].size
    BY <2>4, Zenon DEF Measured, Document
  <2>10. generated = Content(document, request)
    BY <2>2, <2>5, ContentIs, Zenon DEF Document
  <2>11. stats.gaussianCount = generated.count /\ stats.shDegree = generated.shDegree
    BY <2>3, <2>4, Zenon DEF Measured
  <2> QED BY <2>5, <2>6, <2>7, <2>8, <2>9, <2>10, <2>11
<1> QED BY <1>1, Invariance, PTL

(* ---- The refinement ---------------------------------------------------- *)

(* The layer that is taken is the content of a version the call has seen.  *)
LEMMA TakenIsContent ==
  ASSUME IInv, pc = "transfer"
  PROVE  \E x \in Readings(seen) : Importable(x, request) /\ generated = Content(x, request)
<1>1. generated = Authored /\ pc \in Authoring
  BY DEF IInv, WorkerDone, Authoring
<1>2. CASE request.metadataOnly
  <2>1. PICK n \in seen : /\ Files[n].headerProblem = NoProblem
                          /\ metadata = [gaussianCount |-> Files[n].count,
                                         shDegree |-> Files[n].shBands]
    BY <1>1, <1>2 DEF IInv, MetadataRead
  <2>2. Importable(n, request)
    BY <1>2, <2>1 DEF Importable
  <2>3. generated = Content(n, request)
    BY <1>1, <1>2, <2>1, ContentIs, Zenon DEF Authored
  <2> QED BY <2>2, <2>3 DEF Readings
<1>3. CASE ~request.metadataOnly
  <2>1. IsFull(Finished)
    BY <1>1, <1>3 DEF IsFull, Finished
  <2>2. /\ document \in seen /\ Document.problem = NoProblem /\ IsDocument(Document)
        /\ PositionsFit(Document) /\ ScalesPositive(Document) /\ Tagged(Document)
        /\ cloud = CloudOf(Document)
    BY <2>1, DecodedIs
  <2>3. ScalesWide(Document)
    BY <1>3 DEF IInv, WorkerDone
  <2>4. Importable(document, request)
    BY <1>3, <2>2, <2>3, ImportableIs, Zenon DEF Document
  <2>5. generated = Content(document, request)
    BY <1>1, <1>3, <2>2, ContentIs, Zenon DEF Authored, Document
  <2> QED BY <2>2, <2>4, <2>5 DEF Readings
<1> QED BY <1>2, <1>3

LEMMA InitRefines == Init => Promise!Init
BY DEF Init, Promise!Init

(* A step inside the call is no step of the promise, or a refused call.    *)
Inside == /\ pc # "idle" /\ pc' # "idle"
          /\ UNCHANGED <<file, seen, request, layer>>
          /\ UNCHANGED fault \/ fault'

LEMMA InsideRefines == Inside => [Promise!Next]_(Promise!vars)
<1> SUFFICES ASSUME Inside PROVE [Promise!Next]_(Promise!vars)
  OBVIOUS
<1>1. CASE UNCHANGED fault
  <2>1. (pc # "idle")' = (pc # "idle")
    BY DEF Inside
  <2>2. UNCHANGED Promise!vars
    BY <1>1, <2>1 DEF Inside, Promise!vars
  <2> QED BY <2>2
<1>2. CASE fault'
  <2>1. Promise!Refuse
    BY <1>2 DEF Inside, Promise!Refuse
  <2> QED BY <2>1 DEF Promise!Next
<1> QED BY <1>1, <1>2 DEF Inside

LEMMA CallerIsInside ==
  IInv /\ (Caller \/ Worker) => Inside \/ TransferContent \/ Return
<1> SUFFICES ASSUME IInv, Caller \/ Worker, ~TransferContent, ~Return
             PROVE  Inside
  OBVIOUS
<1>1. CASE ReadMetadata \/ ReadDocument \/ ReaderFails \/ ReaderFaults \/ Throw
  BY <1>1 DEF ReadMetadata, ReadDocument, ReaderFails, ReaderFaults, Throw, Fail,
     Continue, Inside, fileVars
<1>2. CASE CheckDocument \/ Allocate \/ ConvertFrame \/ FinishDecode
  BY <1>2 DEF CheckDocument, Allocate, ConvertFrame, FinishDecode, Fail, Continue,
     Inside, fileVars
<1>3. CASE DecodeStage
  BY <1>3 DEF DecodeStage, Fail, Continue, Inside, fileVars
<1>4. CASE StartWorker \/ Join
  BY <1>4 DEF StartWorker, Spawn, Join, Get, Continue, Inside, fileVars
<1>5. CASE Worker
  <2>1. pc = "join"
    BY <1>5 DEF IInv, WorkerDone, Watched, Unread, Finished, Authoring, Worker,
       WorkerAuthors, WorkerThrows, Author, EndByException
  <2> QED BY <1>5, <2>1 DEF Worker, WorkerAuthors, WorkerThrows, Author,
       EndByException, Inside, fileVars
<1> QED BY <1>1, <1>2, <1>3, <1>4, <1>5 DEF Caller

LEMMA TransferRefines == IInv /\ TransferContent => Promise!Succeed
<1> SUFFICES ASSUME IInv, TransferContent PROVE Promise!Succeed
  OBVIOUS
<1>1. /\ pc = "transfer" /\ layer' = generated /\ pc' = "idle" /\ seen' = {file}
      /\ fault' = FALSE /\ UNCHANGED <<file, request>>
  BY DEF TransferContent, Transfer, LeaveRead
<1>2. \E x \in Readings(seen) : Importable(x, request) /\ layer' = Content(x, request)
  BY <1>1, TakenIsContent
<1>3. Promise!Returns
  BY <1>1 DEF Promise!Returns
<1> QED BY <1>2, <1>3 DEF Promise!Succeed

LEMMA ReturnRefines == IInv /\ Return => Promise!Fail
<1> SUFFICES ASSUME IInv, Return PROVE Promise!Fail
  OBVIOUS
<1>1. /\ pc = "return" /\ pc' = "idle" /\ seen' = {file} /\ fault' = FALSE
      /\ UNCHANGED <<file, request, layer>>
  BY DEF Return, LeaveRead
<1>2. fault \/ seen # {file} \/ \E x \in Readings(seen) : ~Importable(x, request)
  BY <1>1 DEF IInv, RefusalJustified, Readings
<1>3. Promise!Returns
  BY <1>1 DEF Promise!Returns
<1> QED BY <1>1, <1>2, <1>3 DEF Promise!Fail

LEMMA EditRefines == IInv /\ EditFile => Promise!Edit
<1> SUFFICES ASSUME IInv, EditFile PROVE Promise!Edit
  OBVIOUS
<1>1. /\ file' \in Versions /\ UNCHANGED <<request, pc, layer, fault>>
      /\ seen' = IF pc = "idle" THEN {file'} ELSE seen \cup {file'}
  BY EditAssumption DEF EditFile
<1> QED BY <1>1 DEF Promise!Edit

LEMMA CallRefines == IInv /\ Call => Promise!Call
<1> SUFFICES ASSUME IInv, Call PROVE Promise!Call
  OBVIOUS
<1>1. /\ pc = "idle" /\ pc' \in {"metadata", "read"} /\ request' \in Requests
      /\ UNCHANGED <<file, seen, fault, layer>>
  BY DEF Call, fileVars
<1> QED BY <1>1 DEF Promise!Call

LEMMA NextRefines == IInv /\ [Next]_vars => [Promise!Next]_(Promise!vars)
<1> SUFFICES ASSUME IInv, [Next]_vars PROVE [Promise!Next]_(Promise!vars)
  OBVIOUS
<1>1. CASE EditFile \/ Call
  BY <1>1, EditRefines, CallRefines DEF Promise!Next
<1>2. CASE TransferContent \/ Return
  BY <1>2, TransferRefines, ReturnRefines DEF Promise!Next
<1>3. CASE (Caller \/ Worker) /\ ~TransferContent /\ ~Return
  BY <1>3, CallerIsInside, InsideRefines
<1>4. CASE UNCHANGED vars
  <2>1. UNCHANGED <<file, seen, request, pc, layer, fault>>
    BY <1>4 DEF vars, fileVars
  <2> QED BY <2>1 DEF Promise!vars
<1> QED BY <1>1, <1>2, <1>3, <1>4 DEF Next

(* The import implements its promise: it replaces the layer by exactly     *)
(* what one version of the container stands for - every code joined, every *)
(* palette label looked up, every axis turned - or fails for a reason and  *)
(* leaves the layer as it was (GaussianSogFileFormat.cpp:273-276,          *)
(* GaussianSogDecoder.cpp:178-338).                                        *)
THEOREM Refinement == Spec => ImplementsPromise
<1>1. Init => Promise!Init
  BY InitRefines
<1>2. IInv /\ [Next]_vars => [Promise!Next]_(Promise!vars)
  BY NextRefines
<1> QED BY <1>1, <1>2, Invariance, PTL DEF Spec, ImplementsPromise, Promise!Spec
=============================================================================
