----------------------- MODULE PlyImportOptions_proofs -----------------------
(***************************************************************************)
(* ApplyImportOptions edits its arrays in place and still returns exactly  *)
(* the filtered, truncated cloud, for every number of Gaussians and every  *)
(* set of opacities.                                                       *)
(***************************************************************************)
EXTENDS PlyImportOptions, FiniteSetTheorems, TLAPS

(* ---- The arithmetic of strided indices -------------------------------- *)

(* An array gives every Gaussian `per' consecutive elements.              *)

(* The elements of a lower Gaussian all lie below those of a higher one.  *)
LEMMA StrideOrder ==
  ASSUME NEW a \in Nat, NEW b \in Nat, NEW per \in Nat, NEW x \in Nat,
         a < b, x < per
  PROVE  a * per + x < b * per
<1>1. PICK k \in Nat : b = a + 1 + k
  <2>1. b - a - 1 \in Nat /\ b = a + 1 + (b - a - 1)
    OBVIOUS
  <2>. QED  BY <2>1
<1>2. b * per = a * per + per + k * per
  BY <1>1
<1>3. k * per \in Nat /\ a * per \in Nat
  BY <1>1
<1>. QED  BY <1>2, <1>3

(* An element of a Gaussian of the cloud lies within the array.           *)
LEMMA StrideBound ==
  ASSUME NEW a \in Nat, NEW n \in Nat, NEW per \in Nat, NEW x \in Nat,
         a < n, x < per
  PROVE  a * per + x \in 0 .. n * per - 1
<1>1. a * per + x < n * per
  BY StrideOrder
<1>2. a * per \in Nat /\ n * per \in Nat
  OBVIOUS
<1>. QED  BY <1>1, <1>2

(* Distinct (Gaussian, coefficient) pairs have distinct elements.         *)
LEMMA StrideInjective ==
  ASSUME NEW a \in Nat, NEW b \in Nat, NEW per \in Nat,
         NEW x \in Nat, NEW y \in Nat, x < per, y < per,
         a * per + x = b * per + y
  PROVE  a = b /\ x = y
<1>0. a * per \in Nat /\ b * per \in Nat
  OBVIOUS
<1>1. ~(a < b)
  <2>. SUFFICES ASSUME a < b PROVE FALSE
    OBVIOUS
  <2>1. a * per + x < b * per
    BY StrideOrder
  <2>. QED  BY <2>1, <1>0
<1>2. ~(b < a)
  <2>. SUFFICES ASSUME b < a PROVE FALSE
    OBVIOUS
  <2>1. b * per + y < a * per
    BY StrideOrder
  <2>. QED  BY <2>1, <1>0
<1>3. a = b
  BY <1>1, <1>2
<1>. QED  BY <1>0, <1>3

(* Division and remainder recover the pair.                               *)
LEMMA StrideDivision ==
  ASSUME NEW a \in Nat, NEW per \in Nat, NEW x \in Nat, x < per
  PROVE  (a * per + x) \div per = a /\ (a * per + x) % per = x
<1>. DEFINE e == a * per + x
<1>1. e \in Nat /\ per > 0
  OBVIOUS
<1>2. /\ e \div per \in Nat /\ e % per \in 0 .. per - 1
      /\ e = (e \div per) * per + (e % per)
  BY <1>1
<1>. HIDE DEF e
<1>3. (e \div per) * per + (e % per) = a * per + x
  BY <1>2 DEF e
<1>4. PICK q \in Nat, r \in Nat : q = e \div per /\ r = e % per /\ r < per
  BY <1>1, <1>2
<1>5. q * per + r = a * per + x
  BY <1>3, <1>4
<1>6. r < per
  BY <1>4
<1>7. q = a /\ r = x
  BY <1>5, <1>6, StrideInjective
<1>. QED  BY <1>4, <1>7 DEF e

(* Re-packing at a smaller stride writes below every element still to be  *)
(* read: an element of the same Gaussian further on, or of a later one.    *)
LEMMA RepackBehind ==
  ASSUME NEW w \in Nat, NEW o \in Nat, w < o,
         NEW a \in Nat, NEW x \in Nat, x < w,
         NEW b \in Nat, NEW y \in Nat,
         a < b \/ (a = b /\ x < y)
  PROVE  a * w + x < b * o + y
<1>1. PICK k \in Nat : o = w + 1 + k
  <2>1. o - w - 1 \in Nat /\ o = w + 1 + (o - w - 1)
    OBVIOUS
  <2>. QED  BY <2>1
<1>2. b * o = b * w + b + b * k
  BY <1>1
<1>3. b * w \in Nat /\ b * k \in Nat /\ a * w \in Nat
  BY <1>1
<1>4. CASE a < b
  <2>1. a * w + x < b * w
    BY <1>4, StrideOrder
  <2>. QED  BY <2>1, <1>2, <1>3
<1>5. CASE a = b /\ x < y
  <2>1. a * w = b * w
    BY <1>5
  <2>. QED  BY <2>1, <1>5, <1>2, <1>3
<1>. QED  BY <1>4, <1>5

(* Elements are laid out in the order of their pairs.                     *)
LEMMA PackedBelow ==
  ASSUME NEW per \in Nat, NEW a \in Nat, NEW x \in Nat, x < per,
         NEW b \in Nat, NEW y \in Nat,
         a < b \/ (a = b /\ x < y)
  PROVE  a * per + x < b * per + y
<1>1. a * per \in Nat /\ b * per \in Nat
  OBVIOUS
<1>2. CASE a < b
  <2>1. a * per + x < b * per
    BY <1>2, StrideOrder
  <2>. QED  BY <1>1, <2>1
<1>3. CASE a = b /\ x < y
  BY <1>1, <1>3
<1>. QED  BY <1>2, <1>3

(* ---- Survivors and their ranks ---------------------------------------- *)

LEMMA SourceFacts ==
  ASSUME source \in Sources
  PROVE  /\ source.count \in Nat /\ source.count >= 1
         /\ source.shDegree \in 0 .. 3
         /\ source.opacity \in [0 .. source.count - 1 -> Opacity]
<1>1. PICK n \in 1 .. MaxCount :
        source \in [count : {n}, shDegree : 0 .. kMaxShDegree,
                    opacity : [0 .. n - 1 -> Opacity]]
  BY DEF Sources
<1>. QED  BY <1>1, MaxCountAssumption DEF kMaxShDegree

LEMMA RestFacts ==
  ASSUME NEW d \in 0 .. 3
  PROVE  /\ RestPerGaussian(d) \in Nat
         /\ \A e \in 0 .. 3 : e < d => RestPerGaussian(e) < RestPerGaussian(d)
         /\ \A e \in 0 .. 3 : e <= d => RestPerGaussian(e) <= RestPerGaussian(d)
<1>1. d = 0 \/ d = 1 \/ d = 2 \/ d = 3
  OBVIOUS
<1>2. /\ RestPerGaussian(0) = 0 /\ RestPerGaussian(1) = 3
      /\ RestPerGaussian(2) = 8 /\ RestPerGaussian(3) = 15
  BY DEF RestPerGaussian, CoefficientsPerGaussian
<1>3. \A e \in 0 .. 3 : e = 0 \/ e = 1 \/ e = 2 \/ e = 3
  OBVIOUS
<1>. QED  BY <1>1, <1>2, <1>3

LEMMA SurvivorsFinite ==
  ASSUME source \in Sources
  PROVE  /\ Survivors \subseteq 0 .. source.count - 1
         /\ IsFiniteSet(Survivors) /\ Cardinality(Survivors) \in Nat
         /\ \A g : IsFiniteSet(SurvivorsBelow(g)) /\ Rank(g) \in Nat
<1>1. Survivors \subseteq 0 .. source.count - 1
  BY DEF Survivors
<1>2. IsFiniteSet(0 .. source.count - 1)
  BY SourceFacts, FS_Interval
<1>3. IsFiniteSet(Survivors)
  BY <1>1, <1>2, FS_Subset
<1>4. ASSUME NEW g PROVE IsFiniteSet(SurvivorsBelow(g)) /\ Rank(g) \in Nat
  <2>1. SurvivorsBelow(g) \subseteq Survivors
    BY DEF SurvivorsBelow
  <2>2. IsFiniteSet(SurvivorsBelow(g))
    BY <2>1, <1>3, FS_Subset
  <2>. QED  BY <2>2, FS_CardinalityType DEF Rank
<1>. QED  BY <1>1, <1>3, <1>4, FS_CardinalityType

(* Ranks start at zero and count the survivors the loop has passed.        *)
LEMMA RankZero ==
  ASSUME source \in Sources
  PROVE  SurvivorsBelow(0) = {} /\ Rank(0) = 0
<1>1. SurvivorsBelow(0) = {}
  BY SurvivorsFinite, SourceFacts DEF SurvivorsBelow
<1>. QED  BY <1>1, FS_EmptySet DEF Rank

LEMMA RankStep ==
  ASSUME source \in Sources, NEW g \in Nat
  PROVE  /\ g \in Survivors =>
              /\ SurvivorsBelow(g + 1) = SurvivorsBelow(g) \cup {g}
              /\ Rank(g + 1) = Rank(g) + 1
         /\ g \notin Survivors =>
              /\ SurvivorsBelow(g + 1) = SurvivorsBelow(g)
              /\ Rank(g + 1) = Rank(g)
<1>0. \A h \in Survivors : h < g + 1 <=> (h < g \/ h = g)
  BY SurvivorsFinite, SourceFacts
<1>1. ASSUME g \in Survivors
      PROVE  /\ SurvivorsBelow(g + 1) = SurvivorsBelow(g) \cup {g}
             /\ Rank(g + 1) = Rank(g) + 1
  <2>1. SurvivorsBelow(g + 1) = SurvivorsBelow(g) \cup {g}
    BY <1>0, <1>1, Zenon DEF SurvivorsBelow
  <2>2. g \notin SurvivorsBelow(g) /\ IsFiniteSet(SurvivorsBelow(g))
    BY SurvivorsFinite DEF SurvivorsBelow
  <2>. QED  BY <2>1, <2>2, FS_AddElement DEF Rank
<1>2. ASSUME g \notin Survivors
      PROVE  /\ SurvivorsBelow(g + 1) = SurvivorsBelow(g)
             /\ Rank(g + 1) = Rank(g)
  <2>1. SurvivorsBelow(g + 1) = SurvivorsBelow(g)
    BY <1>0, <1>2, Zenon DEF SurvivorsBelow
  <2>. QED  BY <2>1 DEF Rank
<1>. QED  BY <1>1, <1>2

(* Ranks follow source order, so two survivors never share a place.        *)
LEMMA RankOrder ==
  ASSUME source \in Sources, NEW g \in Survivors, NEW h \in Nat, g < h
  PROVE  Rank(g) < Rank(h)
<1>0. g \in Nat /\ \A k \in Survivors : k < g => k < h
  BY SurvivorsFinite, SourceFacts
<1>1. SurvivorsBelow(g) \cup {g} \subseteq SurvivorsBelow(h)
  BY <1>0, Zenon DEF SurvivorsBelow
<1>2. Cardinality(SurvivorsBelow(g) \cup {g}) = Rank(g) + 1
  BY <1>0, RankStep, SurvivorsFinite DEF Rank
<1>3. Cardinality(SurvivorsBelow(g) \cup {g}) <= Rank(h)
  BY <1>1, SurvivorsFinite, FS_Subset DEF Rank
<1>. QED  BY <1>2, <1>3, SurvivorsFinite

LEMMA RankTotal ==
  ASSUME source \in Sources
  PROVE  /\ SurvivorsBelow(source.count) = Survivors
         /\ Rank(source.count) = Cardinality(Survivors)
         /\ \A g \in Survivors : Rank(g) < Cardinality(Survivors)
<1>1. SurvivorsBelow(source.count) = Survivors
  BY SurvivorsFinite, SourceFacts DEF SurvivorsBelow
<1>2. Rank(source.count) = Cardinality(Survivors)
  BY <1>1 DEF Rank
<1>3. \A g \in Survivors : Rank(g) < Rank(source.count)
  BY RankOrder, SurvivorsFinite, SourceFacts
<1>. QED  BY <1>1, <1>2, <1>3

(* Without a threshold nothing is dropped and every rank is the index.     *)
LEMMA RankAll ==
  ASSUME source \in Sources, Survivors = 0 .. source.count - 1
  PROVE  /\ Cardinality(Survivors) = source.count
         /\ \A g \in Survivors : Rank(g) = g
<1>1. Cardinality(Survivors) = source.count
  BY SourceFacts, FS_Interval
<1>2. ASSUME NEW g \in Survivors PROVE Rank(g) = g
  <2>1. g \in Nat /\ g < source.count
    BY SourceFacts
  <2>2. SurvivorsBelow(g) = 0 .. g - 1
    BY <2>1, SourceFacts DEF SurvivorsBelow
  <2>. QED  BY <2>1, <2>2, FS_Interval DEF Rank
<1>. QED  BY <1>1, <1>2

(* A survivor moves towards the front.                                     *)
LEMMA RankBound ==
  ASSUME source \in Sources, NEW g \in Nat
  PROVE  Rank(g) <= g
<1>1. SurvivorsBelow(g) \subseteq 0 .. g - 1
  BY SurvivorsFinite, SourceFacts DEF SurvivorsBelow
<1>2. IsFiniteSet(0 .. g - 1) /\ Cardinality(0 .. g - 1) = g
  BY FS_Interval
<1>. QED  BY <1>1, <1>2, FS_Subset DEF Rank

LEMMA StrideInverse ==
  ASSUME NEW n \in Nat, NEW per \in Nat, NEW e \in 0 .. n * per - 1
  PROVE  e \div per \in 0 .. n - 1 /\ e % per \in 0 .. per - 1
<1>1. per > 0
  <2>. SUFFICES ASSUME per = 0 PROVE FALSE
    OBVIOUS
  <2>1. n * per = 0
    OBVIOUS
  <2>. QED  BY <2>1
<1>2. PICK q \in Nat, r \in Nat :
        q = e \div per /\ r = e % per /\ r < per /\ e = q * per + r
  BY <1>1
<1>3. q < n
  <2>. SUFFICES ASSUME n <= q PROVE FALSE
    BY <1>2
  <2>1. n * per <= q * per
    <3>1. n = q \/ n < q
      OBVIOUS
    <3>2. n < q => n * per + 0 < q * per
      BY StrideOrder, <1>1
    <3>3. n * per \in Nat /\ q * per \in Nat
      OBVIOUS
    <3>. QED  BY <3>1, <3>2, <3>3
  <2>2. q * per \in Nat /\ n * per \in Nat
    OBVIOUS
  <2>3. e = q * per + r /\ r \in Nat /\ e < n * per
    BY <1>2
  <2>. QED  BY <2>1, <2>2, <2>3
<1>. QED  BY <1>2, <1>3

(* ---- The invariant ---------------------------------------------------- *)

(* No action touches the entry cloud or the options, nor then the ranks.   *)
LEMMA SourceFixed ==
  ASSUME [Next]_vars
  PROVE  /\ source' = source /\ options' = options
         /\ Survivors' = Survivors
         /\ \A g : SurvivorsBelow(g)' = SurvivorsBelow(g) /\ Rank(g)' = Rank(g)
         /\ sourceRest' = sourceRest
<1>1. source' = source /\ options' = options
  BY DEF Next, vars, ScaleScales, DropGaussian, KeepInPlace, MoveSurvivor,
         MoveRest, SurvivorMoved, FailAllFiltered, ShrinkToKept, KeepDegree,
         BeginTruncate, TruncateCoefficient, TruncateNext, ShrinkRest
<1>2. Survivors' = Survivors
  BY <1>1 DEF Survivors
<1>3. ASSUME NEW g
      PROVE  SurvivorsBelow(g)' = SurvivorsBelow(g) /\ Rank(g)' = Rank(g)
  BY <1>2 DEF SurvivorsBelow, Rank
<1>. QED  BY <1>1, <1>2, <1>3 DEF sourceRest

LEMMA InitInv ==
  ASSUME Init
  PROVE  IInv
<1>. DEFINE n == source.count
            per == sourceRest
<1>1. n \in Nat /\ n >= 1 /\ per \in Nat /\ per = RestPerGaussian(shDegree)
      /\ source \in Sources /\ options \in Options
      /\ count = n /\ shDegree = source.shDegree /\ shDegree \in 0 .. 3
  BY SourceFacts, RestFacts DEF Init, sourceRest
<1>2. rest = [e \in 0 .. n * per - 1 |-> <<e \div per, e % per>>]
  BY <1>1 DEF Init
<1>3. rest \in [0 .. n * per - 1 -> (0 .. n - 1) \X (0 .. per - 1)]
  <2>. HIDE DEF n, per
  <2>. QED  BY <1>1, <1>2, StrideInverse
<1>4. TypeOK
  <2>1. column \in [Column -> [0 .. count - 1 -> 0 .. source.count - 1]]
    BY DEF Init
  <2>2. 0 \in 0 .. source.count /\ 0 \in 0 .. per /\ count \in 0 .. source.count
        /\ shDegree \in 0 .. source.shDegree
    BY <1>1
  <2>3. rest \in [0 .. count * RestPerGaussian(shDegree) - 1 ->
                  (0 .. source.count - 1) \X
                    (0 .. RestPerGaussian(source.shDegree) - 1)]
    BY <1>1, <1>3
  <2>4. pc = "scale" /\ scaled = FALSE /\ i = 0 /\ kept = 0 /\ c = 0
    BY DEF Init
  <2>. QED  BY <1>1, <2>1, <2>2, <2>3, <2>4 DEF TypeOK, sourceRest
<1>5. \A g \in 0 .. n - 1 : RestAt(g, g, per)
  <2>. SUFFICES ASSUME NEW g \in 0 .. n - 1, NEW d \in 0 .. per - 1
                PROVE  rest[g * per + d] = <<g, d>>
    BY DEF RestAt
  <2>. HIDE DEF n, per
  <2>1. g * per + d \in 0 .. n * per - 1
    BY <1>1, StrideBound
  <2>2. g \in Nat /\ d \in Nat /\ per \in Nat /\ d < per
    BY <1>1
  <2>3. (g * per + d) \div per = g /\ (g * per + d) % per = d
    BY <2>2, StrideDivision
  <2>. QED  BY <1>2, <2>1, <2>3
<1>6. NoReadAfterOverwrite
  BY <1>1, <1>5 DEF Init, NoReadAfterOverwrite, AttributesAt
<1>7. SurvivorsPlaced /\ TruncationInPlace
  BY DEF Init, SurvivorsPlaced, TruncationInPlace, Compacting, Compacted
<1>. QED  BY <1>4, <1>6, <1>7 DEF IInv

(* What the invariant says of the source, whatever the loop is doing.      *)
LEMMA InvFacts ==
  ASSUME IInv
  PROVE  /\ source \in Sources /\ options \in Options
         /\ source.count \in Nat /\ source.count >= 1
         /\ source.shDegree \in 0 .. 3 /\ shDegree \in 0 .. 3
         /\ sourceRest \in Nat
         /\ count \in Nat /\ i \in Nat /\ kept \in Nat /\ c \in Nat
         /\ Survivors \subseteq 0 .. source.count - 1
         /\ \A g \in 0 .. source.count - 1 :
              source.opacity[g] \in Nat
              /\ (g \in Survivors <=>
                    ~(source.opacity[g] < options.opacityThreshold))
         /\ options.opacityThreshold \in Int
         /\ options.opacityThreshold >= 0 \/ options.opacityThreshold = -1
<1>1. source \in Sources /\ options \in Options
  BY DEF IInv, TypeOK
<1>2. /\ source.count \in Nat /\ source.count >= 1
      /\ source.shDegree \in 0 .. 3
      /\ source.opacity \in [0 .. source.count - 1 -> Opacity]
  BY <1>1, SourceFacts
<1>3. shDegree \in 0 .. 3 /\ count \in Nat /\ i \in Nat /\ kept \in Nat
  BY <1>2 DEF IInv, TypeOK
<1>4. sourceRest \in Nat
  BY <1>2, RestFacts DEF sourceRest
<1>5. c \in Nat
  BY <1>4 DEF IInv, TypeOK, sourceRest
<1>6. options.opacityThreshold \in Int
      /\ (options.opacityThreshold >= 0 \/ options.opacityThreshold = -1)
  <2>1. options.opacityThreshold \in {-1} \cup Opacity
    BY <1>1 DEF Options
  <2>2. options.opacityThreshold = -1 \/ options.opacityThreshold \in Nat
    BY <2>1, OpacityAssumption
  <2>. QED  BY <2>2
<1>7. ASSUME NEW g \in 0 .. source.count - 1
      PROVE  source.opacity[g] \in Nat
             /\ (g \in Survivors <=>
                    ~(source.opacity[g] < options.opacityThreshold))
  <2>1. source.opacity[g] \in Nat
    BY <1>2, OpacityAssumption
  <2>. QED  BY <2>1, <1>6 DEF Survivors
<1>. QED  BY <1>1, <1>2, <1>3, <1>4, <1>5, <1>6, <1>7, SurvivorsFinite

(* While an action leaves the arrays alone, what sits where stays true.    *)
LEMMA ArraysKept ==
  ASSUME column' = column, rest' = rest
  PROVE  \A p, g : /\ AttributesAt(p, g)' = AttributesAt(p, g)
                   /\ \A per : RestAt(p, g, per)' = RestAt(p, g, per)
BY DEF AttributesAt, RestAt

LEMMA StepScale ==
  ASSUME IInv, [Next]_vars, ScaleScales
  PROVE  IInv'
<1>. USE InvFacts, SourceFixed
<1>1. /\ pc = "scale" /\ pc' \in {"compact", "degree"}
      /\ pc' = "compact" <=> options.opacityThreshold >= 0
      /\ UNCHANGED <<count, shDegree, column, rest, i, kept, c>>
  BY DEF ScaleScales
<1>2. /\ count = source.count /\ shDegree = source.shDegree
      /\ i = 0 /\ kept = 0
      /\ \A g \in 0 .. source.count - 1 :
           AttributesAt(g, g) /\ RestAt(g, g, sourceRest)
  BY <1>1 DEF IInv, NoReadAfterOverwrite, SurvivorsPlaced
<1>3. TypeOK'
  BY <1>1 DEF IInv, TypeOK, ScaleScales, Options
<1>4. NoReadAfterOverwrite'
  BY <1>1, <1>2, ArraysKept DEF NoReadAfterOverwrite, Compacting
<1>5. CASE pc' = "compact"
  <2>1. kept = Rank(i) /\ SurvivorsBelow(i) = {}
    BY <1>2, RankZero
  <2>2. SurvivorsPlaced' /\ TruncationInPlace'
    BY <1>1, <1>2, <1>5, <2>1
    DEF SurvivorsPlaced, TruncationInPlace, Compacting, Compacted
  <2>. QED  BY <1>3, <1>4, <2>2 DEF IInv
<1>6. CASE pc' = "degree"
  <2>0. options.opacityThreshold = -1
    BY <1>1, <1>6
  <2>1. Survivors = 0 .. source.count - 1
    <3>1. ASSUME NEW g \in 0 .. source.count - 1 PROVE g \in Survivors
      BY <2>0
    <3>. QED  BY <3>1
  <2>2. Cardinality(Survivors) = source.count
        /\ \A g \in Survivors : Rank(g) = g
    BY <2>1, RankAll
  <2>3. SurvivorsPlaced'
    BY <1>1, <1>2, <1>6, <2>1, <2>2, ArraysKept
    DEF SurvivorsPlaced, Compacting, Compacted
  <2>4. TruncationInPlace'
    BY <1>1, <1>2, <1>6, <2>1, <2>2, ArraysKept DEF TruncationInPlace
  <2>. QED  BY <1>3, <1>4, <2>3, <2>4 DEF IInv
<1>. QED  BY <1>1, <1>5, <1>6

(* The state of the compaction loop, read off the invariant.               *)
LEMMA CompactFacts ==
  ASSUME IInv, Compacting
  PROVE  /\ count = source.count /\ shDegree = source.shDegree
         /\ RestPerGaussian(shDegree) = sourceRest
         /\ i <= count /\ kept <= i
         /\ options.opacityThreshold >= 0
         /\ kept = Rank(i)
         /\ \A g \in i .. source.count - 1 :
              AttributesAt(g, g) /\ RestAt(g, g, sourceRest)
         /\ \A g \in SurvivorsBelow(i) :
              AttributesAt(Rank(g), g) /\ RestAt(Rank(g), g, sourceRest)
         /\ column \in [Column -> [0 .. count - 1 -> 0 .. count - 1]]
         /\ rest \in [0 .. count * sourceRest - 1 ->
                        (0 .. count - 1) \X (0 .. sourceRest - 1)]
BY InvFacts DEF IInv, TypeOK, NoReadAfterOverwrite, SurvivorsPlaced, sourceRest

(* The opacity the loop compares is the one of the Gaussian it looks at.   *)
LEMMA ThresholdFacts ==
  ASSUME IInv, pc = "compact", i < count
  PROVE  BelowThreshold(i) <=> i \notin Survivors
<1>1. Compacting
  BY DEF Compacting
<1>2. i \in i .. source.count - 1 /\ i \in 0 .. source.count - 1
  BY <1>1, CompactFacts, InvFacts
<1>3. column["opacities"][i] = i
  BY <1>1, <1>2, CompactFacts DEF AttributesAt, Column
<1>. QED  BY <1>2, <1>3, InvFacts DEF BelowThreshold

(* The loop advances over a Gaussian without touching the arrays: the      *)
(* invariant survives if the survivors passed so far are all in place.     *)
LEMMA Advance ==
  ASSUME IInv, [Next]_vars, Compacting, i < count, pc' = "compact",
         i' = i + 1, UNCHANGED <<count, shDegree, column, rest, scaled, c>>,
         kept' = Rank(i + 1), Rank(i + 1) <= i + 1,
         \A g \in SurvivorsBelow(i + 1) :
            AttributesAt(Rank(g), g) /\ RestAt(Rank(g), g, sourceRest)
  PROVE  IInv'
<1>1. /\ source' = source /\ options' = options /\ sourceRest' = sourceRest
      /\ Compacting' /\ ~Compacted'
      /\ i' \in 0 .. source.count /\ kept' \in 0 .. source.count /\ kept' <= i'
  BY InvFacts, SourceFixed, SurvivorsFinite, CompactFacts
  DEF Compacting, Compacted
<1>2. TypeOK'
  BY <1>1 DEF IInv, TypeOK
<1>3. \A g \in i' .. source'.count - 1 :
        AttributesAt(g, g)' /\ RestAt(g, g, sourceRest)'
  <2>. SUFFICES ASSUME NEW g \in i' .. source'.count - 1
                PROVE  AttributesAt(g, g)' /\ RestAt(g, g, sourceRest)'
    OBVIOUS
  <2>1. g \in i .. source.count - 1
    BY <1>1, InvFacts
  <2>2. AttributesAt(g, g) /\ RestAt(g, g, sourceRest)
    BY <2>1, CompactFacts
  <2>. QED  BY <1>1, <2>2 DEF AttributesAt, RestAt
<1>4. NoReadAfterOverwrite'
  BY <1>1, <1>3, CompactFacts DEF NoReadAfterOverwrite
<1>5. \A g \in SurvivorsBelow(i)' :
        AttributesAt(Rank(g), g)' /\ RestAt(Rank(g), g, sourceRest)'
  <2>. SUFFICES ASSUME NEW g \in SurvivorsBelow(i)'
                PROVE  AttributesAt(Rank(g), g)' /\ RestAt(Rank(g), g, sourceRest)'
    OBVIOUS
  <2>1. SurvivorsBelow(i)' = SurvivorsBelow(i + 1) /\ Rank(g)' = Rank(g)
    BY SourceFixed DEF SurvivorsBelow, Rank
  <2>2. AttributesAt(Rank(g), g) /\ RestAt(Rank(g), g, sourceRest)
    BY <2>1
  <2>. QED  BY <1>1, <2>1, <2>2 DEF AttributesAt, RestAt
<1>6. kept' = Rank(i)'
  BY SourceFixed DEF Rank, SurvivorsBelow
<1>7. SurvivorsPlaced'
  BY <1>1, <1>5, <1>6, CompactFacts DEF SurvivorsPlaced
<1>8. TruncationInPlace'
  BY DEF TruncationInPlace
<1>. QED  BY <1>2, <1>4, <1>7, <1>8 DEF IInv

LEMMA StepDrop ==
  ASSUME IInv, [Next]_vars, DropGaussian
  PROVE  IInv'
<1>1. /\ pc = "compact" /\ pc' = "compact" /\ i < count /\ i' = i + 1
      /\ BelowThreshold(i)
      /\ UNCHANGED <<count, shDegree, column, rest, scaled, kept, c>>
  BY DEF DropGaussian
<1>2. Compacting
  BY <1>1 DEF Compacting
<1>3. i \notin Survivors
  BY <1>1, ThresholdFacts
<1>4. SurvivorsBelow(i + 1) = SurvivorsBelow(i) /\ Rank(i + 1) = Rank(i)
  BY <1>3, RankStep, InvFacts
<1>5. Rank(i + 1) <= i + 1
  BY RankBound, InvFacts
<1>. QED  BY <1>1, <1>2, <1>4, <1>5, CompactFacts, Advance

LEMMA StepKeepInPlace ==
  ASSUME IInv, [Next]_vars, KeepInPlace
  PROVE  IInv'
<1>1. /\ pc = "compact" /\ pc' = "compact" /\ i < count /\ i' = i + 1
      /\ ~BelowThreshold(i) /\ kept = i /\ kept' = kept + 1
      /\ UNCHANGED <<count, shDegree, column, rest, scaled, c>>
  BY DEF KeepInPlace
<1>2. Compacting
  BY <1>1 DEF Compacting
<1>3. i \in Survivors /\ i \in i .. source.count - 1
  BY <1>1, <1>2, ThresholdFacts, CompactFacts, InvFacts
<1>4. SurvivorsBelow(i + 1) = SurvivorsBelow(i) \cup {i}
      /\ Rank(i + 1) = Rank(i) + 1
  BY <1>3, RankStep, InvFacts
<1>5. kept = Rank(i) /\ kept' = Rank(i + 1) /\ Rank(i + 1) <= i + 1
  BY <1>1, <1>2, <1>4, CompactFacts, InvFacts
<1>6. AttributesAt(Rank(i), i) /\ RestAt(Rank(i), i, sourceRest)
  <2>1. AttributesAt(i, i) /\ RestAt(i, i, sourceRest) /\ Rank(i) = i
    BY <1>1, <1>2, <1>3, <1>5, CompactFacts
  <2>. QED  BY <2>1
<1>7. \A g \in SurvivorsBelow(i + 1) :
        AttributesAt(Rank(g), g) /\ RestAt(Rank(g), g, sourceRest)
  BY <1>2, <1>4, <1>6, CompactFacts
<1>. QED  BY <1>1, <1>2, <1>5, <1>7, Advance

(* Survivors already placed lie strictly below the place being filled.     *)
LEMMA PlacedBelow ==
  ASSUME IInv, Compacting, NEW g \in SurvivorsBelow(i)
  PROVE  Rank(g) \in Nat /\ Rank(g) < kept /\ g \in Survivors
<1>1. g \in Survivors /\ g < i
  BY DEF SurvivorsBelow
<1>2. Rank(g) < Rank(i)
  BY <1>1, RankOrder, InvFacts
<1>. QED  BY <1>1, <1>2, CompactFacts, InvFacts, SurvivorsFinite

LEMMA StepMoveSurvivor ==
  ASSUME IInv, [Next]_vars, MoveSurvivor
  PROVE  IInv'
<1>. USE InvFacts, SourceFixed
<1>1. /\ pc = "compact" /\ pc' = "moveRest" /\ i < count
      /\ ~BelowThreshold(i) /\ kept # i /\ c' = 0
      /\ column' = [k \in Column |-> [column[k] EXCEPT ![kept] = column[k][i]]]
      /\ UNCHANGED <<count, shDegree, rest, scaled, i, kept>>
  BY DEF MoveSurvivor, MovedColumns
<1>2. Compacting /\ Compacting'
  BY <1>1 DEF Compacting
<1>3. i \in Survivors /\ i \in i .. source.count - 1 /\ kept < i
      /\ kept \in 0 .. count - 1 /\ i \in 0 .. count - 1
  BY <1>1, <1>2, ThresholdFacts, CompactFacts
<1>4. column' \in [Column -> [0 .. count - 1 -> 0 .. count - 1]]
  BY <1>1, <1>2, <1>3, CompactFacts
<1>5. \A k \in Column : \A p \in 0 .. count - 1 :
        column'[k][p] = IF p = kept THEN column[k][i] ELSE column[k][p]
  BY <1>1, <1>2, CompactFacts
<1>6. AttributesAt(kept, i)'
  <2>1. AttributesAt(i, i)
    BY <1>2, <1>3, CompactFacts
  <2>. QED  BY <1>1, <1>3, <1>5, <2>1 DEF AttributesAt
<1>7. \A p \in 0 .. count - 1 : \A g :
        p # kept => AttributesAt(p, g)' = AttributesAt(p, g)
  BY <1>5 DEF AttributesAt
<1>8. \A p, g, per : RestAt(p, g, per)' = RestAt(p, g, per)
  BY <1>1 DEF RestAt
<1>9. TypeOK'
  <2>1. column' \in [Column -> [0 .. count' - 1 -> 0 .. source'.count - 1]]
    BY <1>1, <1>2, <1>4, CompactFacts
  <2>2. c' \in 0 .. RestPerGaussian(source'.shDegree)
    BY <1>1 DEF sourceRest
  <2>. QED  BY ONLY IInv, <1>1, <2>1, <2>2, source' = source,
                    options' = options DEF IInv, TypeOK
<1>10. NoReadAfterOverwrite'
  <2>1. \A g \in i' .. source'.count - 1 :
          AttributesAt(g, g)' /\ RestAt(g, g, sourceRest)'
    <3>. SUFFICES ASSUME NEW g \in i' .. source'.count - 1
                  PROVE  AttributesAt(g, g)' /\ RestAt(g, g, sourceRest)'
      OBVIOUS
    <3>1. g \in i .. source.count - 1 /\ g \in 0 .. count - 1 /\ g # kept
      BY <1>1, <1>2, <1>3, CompactFacts
    <3>2. AttributesAt(g, g) /\ RestAt(g, g, sourceRest)
      BY <1>2, <3>1, CompactFacts
    <3>. QED  BY <1>7, <1>1, <3>1, <3>2 DEF RestAt
  <2>. QED  BY <1>1, <1>2, <1>3, <2>1, CompactFacts DEF NoReadAfterOverwrite
<1>11. SurvivorsPlaced'
  <2>1. \A g \in SurvivorsBelow(i)' :
          AttributesAt(Rank(g), g)' /\ RestAt(Rank(g), g, sourceRest)'
    <3>. SUFFICES ASSUME NEW g \in SurvivorsBelow(i)'
                  PROVE  AttributesAt(Rank(g), g)' /\ RestAt(Rank(g), g, sourceRest)'
      OBVIOUS
    <3>0. SurvivorsBelow(i)' = SurvivorsBelow(i)
      BY <1>1 DEF SurvivorsBelow
    <3>1. Rank(g) \in 0 .. count - 1 /\ Rank(g) # kept /\ Rank(g)' = Rank(g)
      BY <1>2, <1>3, <3>0, PlacedBelow
    <3>2. AttributesAt(Rank(g), g) /\ RestAt(Rank(g), g, sourceRest)
      BY <1>2, <3>0, CompactFacts
    <3>. QED  BY <1>1, <1>5, <3>1, <3>2 DEF AttributesAt, RestAt
  <2>2. kept' = Rank(i)'
    BY <1>1, <1>2, CompactFacts DEF Rank, SurvivorsBelow
  <2>3. i' \in Survivors' /\ kept' < i' /\ c' <= sourceRest'
        /\ \A d \in 0 .. c' - 1 :
              rest'[kept' * sourceRest' + d] = <<i', d>>
    BY <1>1, <1>3
  <2>4. options'.opacityThreshold >= 0 /\ ~Compacted' /\ pc' = "moveRest"
    BY <1>1, <1>2, CompactFacts DEF Compacted
  <2>5. AttributesAt(kept, i)'
    BY <1>6
  <2>. QED  BY <2>1, <2>2, <2>3, <2>4, <2>5 DEF SurvivorsPlaced
<1>12. TruncationInPlace'
  BY <1>1 DEF TruncationInPlace
<1>. QED  BY <1>9, <1>10, <1>11, <1>12 DEF IInv

(* The inner loop over the rest coefficients of the survivor being moved.  *)
LEMMA MoveRestFacts ==
  ASSUME IInv, pc = "moveRest"
  PROVE  /\ Compacting /\ i \in Survivors /\ kept < i /\ i < count
         /\ kept \in 0 .. count - 1 /\ i \in 0 .. count - 1
         /\ c <= sourceRest
         /\ AttributesAt(kept, i)
         /\ \A d \in 0 .. c - 1 : rest[kept * sourceRest + d] = <<i, d>>
<1>1. Compacting
  BY DEF Compacting
<1>2. i \in Survivors /\ kept < i /\ c <= sourceRest /\ AttributesAt(kept, i)
      /\ \A d \in 0 .. c - 1 : rest[kept * sourceRest + d] = <<i, d>>
  BY DEF IInv, SurvivorsPlaced
<1>3. i \in 0 .. count - 1
  BY <1>1, <1>2, InvFacts, CompactFacts
<1>. QED  BY <1>1, <1>2, <1>3, InvFacts

LEMMA StepMoveRest ==
  ASSUME IInv, [Next]_vars, MoveRest
  PROVE  IInv'
<1>. DEFINE per == sourceRest
            w   == kept * per + c
<1>1. /\ pc = "moveRest" /\ c < per
      /\ rest' = [rest EXCEPT ![w] = rest[i * per + c]]
      /\ c' = c + 1
      /\ UNCHANGED <<pc, count, shDegree, column, scaled, i, kept>>
  <2>1. pc = "moveRest"
    BY DEF MoveRest
  <2>2. RestPerGaussian(shDegree) = sourceRest
    BY <2>1, MoveRestFacts, CompactFacts
  <2>. QED  BY <2>2 DEF MoveRest
<1>2. /\ per \in Nat /\ c \in Nat /\ count \in Nat /\ kept \in Nat /\ i \in Nat
      /\ source.count = count
      /\ Survivors \subseteq 0 .. count - 1
  BY <1>1, InvFacts, MoveRestFacts, CompactFacts
<1>3. kept < i /\ i < count /\ i \in 0 .. count - 1 /\ i \in i .. source.count - 1
  BY <1>1, <1>2, MoveRestFacts
<1>4. rest \in [0 .. count * per - 1 -> (0 .. count - 1) \X (0 .. per - 1)]
  BY <1>1, MoveRestFacts, CompactFacts
<1>. HIDE DEF per
<1>5. w \in 0 .. count * per - 1 /\ i * per + c \in 0 .. count * per - 1
  BY <1>1, <1>2, <1>3, StrideBound
<1>6. rest' \in [0 .. count * per - 1 -> (0 .. count - 1) \X (0 .. per - 1)]
  BY <1>1, <1>4, <1>5
<1>7. \A e \in 0 .. count * per - 1 : e # w => rest'[e] = rest[e]
  BY <1>1, <1>4
(* The element read is still the decoded one, so what is written is right. *)
<1>8. rest'[w] = <<i, c>>
  <2>1. RestAt(i, i, per)
    BY <1>1, <1>3, MoveRestFacts, CompactFacts DEF per
  <2>2. rest[i * per + c] = <<i, c>>
    BY <1>1, <1>2, <2>1 DEF RestAt
  <2>. QED  BY <1>1, <1>4, <1>5, <2>2
(* Every other Gaussian's elements are elsewhere.                          *)
<1>9. \A p \in 0 .. count - 1 : \A g :
        p # kept /\ RestAt(p, g, per) => RestAt(p, g, per)'
  <2>. SUFFICES ASSUME NEW p \in 0 .. count - 1, NEW g, p # kept,
                       RestAt(p, g, per), NEW d \in 0 .. per' - 1
                PROVE  rest'[p * per' + d] = <<g, d>>
    BY DEF RestAt
  <2>0. per' = per
    BY SourceFixed DEF per
  <2>1. p \in Nat /\ d \in Nat /\ d < per /\ p < count /\ d \in 0 .. per - 1
    BY <1>2, <2>0
  <2>2. p * per + d \in 0 .. count * per - 1
    BY <1>2, <2>1, StrideBound
  <2>3. p * per + d # w
    BY <1>1, <1>2, <2>1, StrideInjective
  <2>4. rest[p * per + d] = <<g, d>>
    BY <2>1 DEF RestAt
  <2>. QED  BY <1>7, <2>0, <2>2, <2>3, <2>4
<1>10. TypeOK'
  <2>1. c' \in 0 .. RestPerGaussian(source'.shDegree)
    BY <1>1, <1>2, SourceFixed DEF sourceRest, per
  <2>2. rest' \in [0 .. count' * RestPerGaussian(shDegree') - 1 ->
          (0 .. source'.count - 1) \X (0 .. RestPerGaussian(source'.shDegree) - 1)]
    <3>1. /\ RestPerGaussian(shDegree') = per
          /\ RestPerGaussian(source'.shDegree) = per
      BY <1>1, MoveRestFacts, CompactFacts, SourceFixed DEF sourceRest, per
    <3>. QED  BY <1>1, <1>2, <1>6, <3>1, SourceFixed
  <2>. QED  BY ONLY IInv, <1>1, <2>1, <2>2, SourceFixed, [Next]_vars
            DEF IInv, TypeOK
<1>11. NoReadAfterOverwrite'
  <2>1. \A g \in i' .. source'.count - 1 :
          AttributesAt(g, g)' /\ RestAt(g, g, sourceRest)'
    <3>. SUFFICES ASSUME NEW g \in i' .. source'.count - 1
                  PROVE  AttributesAt(g, g)' /\ RestAt(g, g, sourceRest)'
      OBVIOUS
    <3>1. g \in i .. source.count - 1 /\ g \in 0 .. count - 1 /\ g # kept
      BY <1>1, <1>2, <1>3, SourceFixed
    <3>2. AttributesAt(g, g) /\ RestAt(g, g, per)
      BY <1>1, <3>1, MoveRestFacts, CompactFacts DEF per
    <3>3. AttributesAt(g, g)'
      BY <1>1, <3>2 DEF AttributesAt
    <3>4. RestAt(g, g, per)'
      BY <1>9, <3>1, <3>2
    <3>. QED  BY <3>3, <3>4 DEF per
  <2>2. count' = source'.count /\ shDegree' = source'.shDegree /\ kept' <= i'
    BY <1>1, MoveRestFacts, CompactFacts, SourceFixed
  <2>. QED  BY <2>1, <2>2 DEF NoReadAfterOverwrite
<1>12. SurvivorsPlaced'
  <2>1. \A g \in SurvivorsBelow(i)' :
          AttributesAt(Rank(g), g)' /\ RestAt(Rank(g), g, sourceRest)'
    <3>. SUFFICES ASSUME NEW g \in SurvivorsBelow(i)'
                  PROVE  AttributesAt(Rank(g), g)' /\ RestAt(Rank(g), g, sourceRest)'
      OBVIOUS
    <3>0. SurvivorsBelow(i)' = SurvivorsBelow(i)
      BY <1>1, SourceFixed DEF SurvivorsBelow
    <3>1. Rank(g) \in 0 .. count - 1 /\ Rank(g) # kept /\ Rank(g)' = Rank(g)
      BY <1>1, <1>2, <1>3, <3>0, MoveRestFacts, PlacedBelow, SourceFixed
    <3>2. AttributesAt(Rank(g), g) /\ RestAt(Rank(g), g, per)
      BY <1>1, <3>0, MoveRestFacts, CompactFacts DEF per
    <3>3. AttributesAt(Rank(g), g)'
      BY <1>1, <3>1, <3>2 DEF AttributesAt
    <3>4. \A d \in 0 .. per - 1 : rest'[Rank(g) * per + d] = <<g, d>>
      <4>1. PICK p : p = Rank(g)
        OBVIOUS
      <4>2. RestAt(p, g, per)'
        BY <1>9, <3>1, <3>2, <4>1
      <4>3. per' = per
        BY SourceFixed DEF per
      <4>. QED  BY <4>1, <4>2, <4>3 DEF RestAt
    <3>. QED  BY <3>1, <3>3, <3>4, SourceFixed DEF RestAt, per
  <2>2. kept' = Rank(i)' /\ options'.opacityThreshold >= 0
    BY <1>1, MoveRestFacts, CompactFacts, SourceFixed DEF Rank, SurvivorsBelow
  <2>3. /\ i' \in Survivors' /\ kept' < i' /\ c' <= sourceRest'
        /\ AttributesAt(kept, i)'
    BY <1>1, <1>2, MoveRestFacts, SourceFixed DEF AttributesAt, per
  <2>4. \A d \in 0 .. c' - 1 : rest'[kept' * sourceRest' + d] = <<i', d>>
    <3>. SUFFICES ASSUME NEW d \in 0 .. c' - 1
                  PROVE  rest'[kept * per + d] = <<i, d>>
      BY <1>1, SourceFixed DEF per
    <3>1. CASE d = c
      BY <1>8, <3>1
    <3>2. CASE d # c
      <4>0. c' = c + 1 /\ c < per /\ c \in Nat /\ per \in Nat
        BY <1>1, <1>2
      <4>1. d \in 0 .. c - 1 /\ d \in Nat /\ d < per
        BY <3>2, <4>0
      <4>2. rest[kept * per + d] = <<i, d>>
        BY <1>1, <4>1, MoveRestFacts DEF per
      <4>3. kept * per + d \in 0 .. count * per - 1
        BY <1>2, <1>3, <4>1, StrideBound
      <4>4. kept * per + d # w
        BY <1>1, <1>2, <3>2, <4>1, StrideInjective
      <4>. QED  BY <1>7, <4>2, <4>3, <4>4
    <3>. QED  BY <3>1, <3>2
  <2>5. pc' = "moveRest" /\ ~Compacted'
    BY <1>1 DEF Compacted
  <2>. QED  BY <2>1, <2>2, <2>3, <2>4, <2>5 DEF SurvivorsPlaced
<1>13. TruncationInPlace'
  BY <1>1 DEF TruncationInPlace
<1>. QED  BY <1>10, <1>11, <1>12, <1>13 DEF IInv

LEMMA StepSurvivorMoved ==
  ASSUME IInv, [Next]_vars, SurvivorMoved
  PROVE  IInv'
<1>1. /\ pc = "moveRest" /\ pc' = "compact" /\ c = sourceRest
      /\ i' = i + 1 /\ kept' = kept + 1
      /\ UNCHANGED <<count, shDegree, column, rest, scaled, c>>
  <2>1. pc = "moveRest"
    BY DEF SurvivorMoved
  <2>2. RestPerGaussian(shDegree) = sourceRest
    BY <2>1, MoveRestFacts, CompactFacts
  <2>. QED  BY <2>2 DEF SurvivorMoved
<1>2. /\ Compacting /\ i \in Survivors /\ kept < i /\ i < count
      /\ AttributesAt(kept, i)
      /\ \A d \in 0 .. c - 1 : rest[kept * sourceRest + d] = <<i, d>>
  BY <1>1, MoveRestFacts
<1>3. RestAt(kept, i, sourceRest)
  BY <1>1, <1>2 DEF RestAt
<1>4. /\ SurvivorsBelow(i + 1) = SurvivorsBelow(i) \cup {i}
      /\ Rank(i + 1) = Rank(i) + 1 /\ kept = Rank(i)
  BY <1>2, RankStep, InvFacts, CompactFacts
<1>5. kept' = Rank(i + 1) /\ Rank(i + 1) <= i + 1
  BY <1>1, <1>4, RankBound, InvFacts
<1>6. AttributesAt(Rank(i), i) /\ RestAt(Rank(i), i, sourceRest)
  BY <1>2, <1>3, <1>4
<1>7. \A g \in SurvivorsBelow(i + 1) :
        AttributesAt(Rank(g), g) /\ RestAt(Rank(g), g, sourceRest)
  BY <1>2, <1>4, <1>6, CompactFacts
<1>. QED  BY <1>1, <1>2, <1>5, <1>7, Advance

LEMMA StepFailAllFiltered ==
  ASSUME IInv, [Next]_vars, FailAllFiltered
  PROVE  IInv'
<1>1. /\ pc = "compact" /\ pc' = "failed" /\ i = count /\ kept = 0
      /\ UNCHANGED <<count, shDegree, column, rest, scaled, i, kept, c>>
  BY DEF FailAllFiltered
<1>2. Compacting /\ ~Compacting' /\ ~Compacted'
  BY <1>1 DEF Compacting, Compacted
<1>3. Rank(source.count) = 0
  BY <1>1, <1>2, CompactFacts
<1>4. Survivors = {}
  BY <1>3, RankTotal, InvFacts, SurvivorsFinite, FS_EmptySet
<1>5. TypeOK'
  BY <1>1, SourceFixed DEF IInv, TypeOK
<1>6. NoReadAfterOverwrite' /\ SurvivorsPlaced' /\ TruncationInPlace'
  BY <1>1, <1>2, <1>4, SourceFixed
  DEF NoReadAfterOverwrite, SurvivorsPlaced, TruncationInPlace
<1>. QED  BY <1>5, <1>6 DEF IInv

LEMMA StepShrinkToKept ==
  ASSUME IInv, [Next]_vars, ShrinkToKept
  PROVE  IInv'
<1>. DEFINE per == sourceRest
<1>1. /\ pc = "compact" /\ pc' = "degree" /\ i = count /\ kept # 0
      /\ count' = kept
      /\ column' = [k \in Column |-> [g \in 0 .. kept - 1 |-> column[k][g]]]
      /\ rest' = [e \in 0 .. kept * per - 1 |-> rest[e]]
      /\ UNCHANGED <<shDegree, scaled, i, kept, c>>
      /\ Compacting
  <2>1. Compacting
    BY DEF ShrinkToKept, Compacting
  <2>2. RestPerGaussian(shDegree) = sourceRest
    BY <2>1, CompactFacts
  <2>. QED  BY <2>1, <2>2 DEF ShrinkToKept
<1>2. /\ per \in Nat /\ count \in Nat /\ kept \in Nat /\ kept <= count /\ kept > 0
      /\ source.count = count /\ kept = Cardinality(Survivors)
      /\ SurvivorsBelow(i) = Survivors
      /\ column \in [Column -> [0 .. count - 1 -> 0 .. count - 1]]
      /\ rest \in [0 .. count * per - 1 -> (0 .. count - 1) \X (0 .. per - 1)]
      /\ RestPerGaussian(shDegree) = per
  BY <1>1, InvFacts, CompactFacts, RankTotal
<1>3. ~Compacting' /\ Compacted' /\ pc' # "moveRest"
  BY <1>1 DEF Compacting, Compacted
<1>4. kept * per \in Nat /\ kept * per <= count * per
  <2>. HIDE DEF per
  <2>1. kept = count \/ (kept < count /\ per = 0) \/ (kept < count /\ 0 < per)
    BY <1>2
  <2>2. kept < count /\ 0 < per => kept * per + 0 < count * per
    BY <1>2, StrideOrder
  <2>3. kept * per \in Nat /\ count * per \in Nat
    BY <1>2
  <2>4. per = 0 => kept * per = 0
    BY <1>2
  <2>. QED  BY <2>1, <2>2, <2>3, <2>4
<1>5. rest' \in [0 .. kept * per - 1 -> (0 .. count - 1) \X (0 .. per - 1)]
  <2>. HIDE DEF per
  <2>1. count * per \in Nat
    BY <1>2
  <2>2. \A e \in 0 .. kept * per - 1 : e \in 0 .. count * per - 1
    BY <1>4, <2>1
  <2>. QED  BY <1>1, <1>2, <2>2
<1>6. column' \in [Column -> [0 .. kept - 1 -> 0 .. count - 1]]
  BY <1>1, <1>2
<1>7. TypeOK'
  <2>1. count' \in 0 .. source'.count
        /\ column' \in [Column -> [0 .. count' - 1 -> 0 .. source'.count - 1]]
    BY <1>1, <1>2, <1>6, SourceFixed
  <2>2. rest' \in [0 .. count' * RestPerGaussian(shDegree') - 1 ->
          (0 .. source'.count - 1) \X (0 .. RestPerGaussian(source'.shDegree) - 1)]
    BY <1>1, <1>2, <1>5, SourceFixed DEF sourceRest
  <2>. QED  BY ONLY IInv, <1>1, <2>1, <2>2, SourceFixed, [Next]_vars
            DEF IInv, TypeOK
(* The survivors' places all lie below the new length.                     *)
<1>8. \A g \in Survivors : /\ Rank(g) \in 0 .. kept - 1
                           /\ AttributesAt(Rank(g), g) /\ RestAt(Rank(g), g, per)
  BY <1>1, <1>2, PlacedBelow, CompactFacts
<1>9. \A g \in Survivors : AttributesAt(Rank(g), g)' /\ RestAt(Rank(g), g, per)'
  <2>. SUFFICES ASSUME NEW g \in Survivors
                PROVE  AttributesAt(Rank(g), g)' /\ RestAt(Rank(g), g, per)'
    OBVIOUS
  <2>1. Rank(g)' = Rank(g) /\ per' = per
    BY SourceFixed
  <2>2. \A k \in Column : column'[k][Rank(g)] = g
    BY <1>1, <1>8 DEF AttributesAt
  <2>3. \A d \in 0 .. per - 1 : rest'[Rank(g) * per + d] = <<g, d>>
    <3>. SUFFICES ASSUME NEW d \in 0 .. per - 1
                  PROVE  rest'[Rank(g) * per + d] = <<g, d>>
      OBVIOUS
    <3>1. rest[Rank(g) * per + d] = <<g, d>>
      BY <1>8 DEF RestAt
    <3>2. Rank(g) \in Nat /\ Rank(g) < kept /\ d \in Nat /\ d < per
      BY <1>2, <1>8
    <3>. HIDE DEF per
    <3>3. Rank(g) * per + d \in 0 .. kept * per - 1
      BY <1>2, <3>2, StrideBound
    <3>. QED  BY <1>1, <3>1, <3>3
  <2>. QED  BY <2>1, <2>2, <2>3 DEF AttributesAt, RestAt
<1>10. SurvivorsPlaced'
  BY <1>1, <1>2, <1>3, <1>9, SourceFixed DEF SurvivorsPlaced
<1>11. NoReadAfterOverwrite'
  BY <1>1, <1>3 DEF NoReadAfterOverwrite
<1>12. TruncationInPlace'
  BY <1>1, <1>9, CompactFacts, SourceFixed DEF TruncationInPlace
<1>. QED  BY <1>7, <1>10, <1>11, <1>12 DEF IInv

(* ---- The truncation loop ---------------------------------------------- *)

LEMMA DegreeFacts ==
  ASSUME IInv, pc \in {"degree", "truncate"}
  PROVE  /\ shDegree = source.shDegree /\ oldRest = sourceRest
         /\ EffectiveShDegree(options, shDegree) \in 0 .. shDegree
         /\ newRest \in Nat /\ oldRest \in Nat /\ newRest <= oldRest
         /\ EffectiveShDegree(options, shDegree) # shDegree => newRest < oldRest
         /\ count = Cardinality(Survivors) /\ count > 0
         /\ \A g \in Survivors : /\ Rank(g) \in 0 .. count - 1
                                 /\ AttributesAt(Rank(g), g)
<1>1. shDegree = source.shDegree /\ oldRest = sourceRest
  BY DEF IInv, TruncationInPlace, oldRest, sourceRest
<1>2. EffectiveShDegree(options, shDegree) \in 0 .. shDegree
  BY InvFacts DEF EffectiveShDegree, Options
<1>3. EffectiveShDegree(options, shDegree) \in 0 .. 3
  BY <1>2, InvFacts
<1>4. newRest \in Nat /\ oldRest \in Nat /\ newRest <= oldRest
      /\ (EffectiveShDegree(options, shDegree) # shDegree => newRest < oldRest)
  BY <1>2, <1>3, InvFacts, RestFacts DEF newRest, oldRest
<1>5. count = Cardinality(Survivors) /\ count > 0
      /\ \A g \in Survivors : AttributesAt(Rank(g), g)
  BY DEF IInv, SurvivorsPlaced, Compacted
<1>6. \A g \in Survivors : Rank(g) \in 0 .. count - 1
  BY <1>5, InvFacts, SurvivorsFinite, RankTotal
<1>. QED  BY <1>1, <1>2, <1>4, <1>5, <1>6

LEMMA StepKeepDegree ==
  ASSUME IInv, [Next]_vars, KeepDegree
  PROVE  IInv'
<1>1. /\ pc = "degree" /\ pc' = "done"
      /\ EffectiveShDegree(options, shDegree) = shDegree
      /\ UNCHANGED <<count, shDegree, column, rest, scaled, i, kept, c>>
  BY DEF KeepDegree
<1>2. shDegree = source.shDegree
      /\ \A g \in Survivors : RestAt(Rank(g), g, sourceRest)
  BY <1>1 DEF IInv, TruncationInPlace
<1>3. TypeOK'
  BY <1>1, SourceFixed DEF IInv, TypeOK
<1>4. NoReadAfterOverwrite'
  BY <1>1 DEF NoReadAfterOverwrite, Compacting
<1>5. \A g \in Survivors : AttributesAt(Rank(g), g)' /\ RestAt(Rank(g), g, sourceRest)'
  BY <1>1, <1>2, DegreeFacts, SourceFixed DEF AttributesAt, RestAt
<1>6. SurvivorsPlaced'
  BY <1>1, <1>5, DegreeFacts, SourceFixed
  DEF SurvivorsPlaced, Compacting, Compacted
<1>7. TruncationInPlace'
  BY <1>1, <1>2, <1>5, SourceFixed DEF TruncationInPlace, sourceRest
<1>. QED  BY <1>3, <1>4, <1>6, <1>7 DEF IInv

LEMMA StepBeginTruncate ==
  ASSUME IInv, [Next]_vars, BeginTruncate
  PROVE  IInv'
<1>1. /\ pc = "degree" /\ pc' = "truncate" /\ i' = 0 /\ c' = 0
      /\ EffectiveShDegree(options, shDegree) # shDegree
      /\ UNCHANGED <<count, shDegree, column, rest, scaled, kept>>
  BY DEF BeginTruncate
<1>2. /\ oldRest' = oldRest /\ newRest' = newRest /\ oldRest = sourceRest
      /\ newRest \in Nat /\ oldRest \in Nat /\ newRest < oldRest
  BY <1>1, SourceFixed, DegreeFacts DEF oldRest, newRest
<1>3. \A g \in Survivors : /\ Rank(g) \in Nat
                           /\ \A d \in 0 .. oldRest - 1 :
                                rest[Rank(g) * oldRest + d] = <<g, d>>
  BY <1>1, <1>2, DegreeFacts DEF IInv, TruncationInPlace, RestAt
<1>4. TypeOK'
  BY <1>1, InvFacts, SourceFixed DEF IInv, TypeOK, sourceRest
<1>5. NoReadAfterOverwrite'
  BY <1>1 DEF NoReadAfterOverwrite, Compacting
<1>6. SurvivorsPlaced'
  BY <1>1, DegreeFacts, SourceFixed
  DEF SurvivorsPlaced, Compacting, Compacted, AttributesAt
<1>7. TruncationInPlace'
  <2>1. \A g \in Survivors' :
          /\ \A d \in 0 .. newRest' - 1 :
               ~(Rank(g)' < i' \/ (Rank(g)' = i' /\ d < c'))
          /\ \A d \in 0 .. oldRest' - 1 :
               rest'[Rank(g)' * oldRest' + d] = <<g, d>>
    BY <1>1, <1>2, <1>3, SourceFixed
  <2>. QED  BY <1>1, <1>2, <2>1, DegreeFacts, SourceFixed, InvFacts
            DEF TruncationInPlace
<1>. QED  BY <1>4, <1>5, <1>6, <1>7 DEF IInv

(* Halfway through, the coefficients before (i, c) are packed at the new   *)
(* stride and the ones from (i, c) on still sit at the old one.            *)
LEMMA TruncateFacts ==
  ASSUME IInv, pc = "truncate"
  PROVE  /\ newRest \in Nat /\ oldRest \in Nat /\ newRest < oldRest
         /\ i <= count /\ c <= newRest
         /\ \A g \in Survivors : \A d \in 0 .. newRest - 1 :
              Rank(g) < i \/ (Rank(g) = i /\ d < c)
                => rest[Rank(g) * newRest + d] = <<g, d>>
         /\ \A g \in Survivors : \A d \in 0 .. oldRest - 1 :
              Rank(g) > i \/ (Rank(g) = i /\ d >= c)
                => rest[Rank(g) * oldRest + d] = <<g, d>>
         /\ rest \in [0 .. count * oldRest - 1 ->
                        (0 .. source.count - 1) \X (0 .. sourceRest - 1)]
<1>1. newRest \in Nat /\ oldRest \in Nat
      /\ \A g \in Survivors : Rank(g) \in Nat
  BY DegreeFacts
<1>2. newRest < oldRest /\ i <= count /\ c <= newRest
      /\ \A g \in Survivors : \A d \in 0 .. newRest - 1 :
              Rank(g) < i \/ (Rank(g) = i /\ d < c)
                => rest[Rank(g) * newRest + d] = <<g, d>>
  BY DEF IInv, TruncationInPlace
<1>3. \A g \in Survivors : \A d \in 0 .. oldRest - 1 :
        ~(Rank(g) < i \/ (Rank(g) = i /\ d < c)) /\ Rank(g) >= i
          => rest[Rank(g) * oldRest + d] = <<g, d>>
  BY DEF IInv, TruncationInPlace
<1>4. \A g \in Survivors : \A d \in 0 .. oldRest - 1 :
        Rank(g) > i \/ (Rank(g) = i /\ d >= c) =>
          ~(Rank(g) < i \/ (Rank(g) = i /\ d < c)) /\ Rank(g) >= i
  BY <1>1, InvFacts
<1>5. rest \in [0 .. count * oldRest - 1 ->
                        (0 .. source.count - 1) \X (0 .. sourceRest - 1)]
  BY DEF IInv, TypeOK, oldRest, sourceRest
<1>. QED  BY <1>1, <1>2, <1>3, <1>4, <1>5

LEMMA StepTruncateCoefficient ==
  ASSUME IInv, [Next]_vars, TruncateCoefficient
  PROVE  IInv'
<1>. DEFINE w == i * newRest + c
<1>1. /\ pc = "truncate" /\ i < count /\ c < newRest
      /\ rest' = [rest EXCEPT ![w] = rest[i * oldRest + c]]
      /\ c' = c + 1
      /\ UNCHANGED <<pc, count, shDegree, column, scaled, i, kept>>
  BY DEF TruncateCoefficient
<1>2. /\ newRest' = newRest /\ oldRest' = oldRest
      /\ source' = source /\ options' = options
  BY <1>1, SourceFixed DEF newRest, oldRest
<1>3. /\ newRest \in Nat /\ oldRest \in Nat /\ newRest < oldRest
      /\ i \in Nat /\ c \in Nat /\ count \in Nat /\ c < oldRest
      /\ oldRest = sourceRest
      /\ \A g \in Survivors : Rank(g) \in Nat /\ Rank(g) < count
  BY <1>1, TruncateFacts, DegreeFacts, InvFacts
<1>4. rest \in [0 .. count * oldRest - 1 ->
                  (0 .. source.count - 1) \X (0 .. sourceRest - 1)]
  BY <1>1, TruncateFacts
<1>5. i * oldRest + c \in 0 .. count * oldRest - 1
  BY <1>1, <1>3, StrideBound
<1>6. w <= i * oldRest + c /\ w \in Nat
  <2>1. i * newRest \in Nat /\ i * oldRest \in Nat
    BY <1>3
  <2>2. i * newRest <= i * oldRest
    <3>1. PICK k \in Nat : oldRest = newRest + k
      <4>1. oldRest - newRest \in Nat /\ oldRest = newRest + (oldRest - newRest)
        BY <1>3
      <4>. QED  BY <4>1
    <3>2. i * oldRest = i * newRest + i * k /\ i * k \in Nat
      BY <1>3, <3>1
    <3>. QED  BY <2>1, <3>2
  <2>. QED  BY <1>3, <2>1, <2>2
<1>7. w \in 0 .. count * oldRest - 1
  <2>1. count * oldRest \in Nat /\ i * oldRest \in Nat
    BY <1>3
  <2>. QED  BY <1>3, <1>5, <1>6, <2>1
<1>8. rest' \in [0 .. count * oldRest - 1 ->
                   (0 .. source.count - 1) \X (0 .. sourceRest - 1)]
  BY <1>1, <1>4, <1>5
<1>9. /\ rest'[w] = rest[i * oldRest + c]
      /\ \A e \in 0 .. count * oldRest - 1 : e # w => rest'[e] = rest[e]
  BY <1>1, <1>4, <1>7
<1>. HIDE DEF w
(* The packed part grows by the coefficient just written.                  *)
<1>10. \A g \in Survivors : \A d \in 0 .. newRest - 1 :
         Rank(g) < i \/ (Rank(g) = i /\ d < c + 1)
           => rest'[Rank(g) * newRest + d] = <<g, d>>
  <2>. SUFFICES ASSUME NEW g \in Survivors, NEW d \in 0 .. newRest - 1,
                       Rank(g) < i \/ (Rank(g) = i /\ d < c + 1)
                PROVE  rest'[Rank(g) * newRest + d] = <<g, d>>
    OBVIOUS
  <2>0. Rank(g) \in Nat /\ Rank(g) < count /\ d \in Nat /\ d < newRest
        /\ d < oldRest
    BY <1>3
  <2>1. CASE Rank(g) = i /\ d = c
    <3>1. c \in 0 .. oldRest - 1
      BY <1>3
    <3>2. pc = "truncate" /\ c >= c
      BY <1>1, <1>3
    <3>3. rest[Rank(g) * oldRest + c] = <<g, c>>
      BY <2>1, <3>1, <3>2, TruncateFacts
    <3>. QED  BY <1>9, <2>1, <3>3 DEF w
  <2>2. CASE ~(Rank(g) = i /\ d = c)
    <3>1. Rank(g) < i \/ (Rank(g) = i /\ d < c)
      BY <1>3, <2>0, <2>2
    <3>2. rest[Rank(g) * newRest + d] = <<g, d>>
      BY <1>1, <3>1, TruncateFacts
    <3>4. Rank(g) * newRest + d < w
      BY <1>1, <1>3, <2>0, <3>1, PackedBelow DEF w
    <3>5. Rank(g) * newRest \in Nat /\ w \in Nat
          /\ Rank(g) * newRest + d \in Nat
      BY <1>3, <1>6, <2>0
    <3>6. Rank(g) * newRest + d \in 0 .. count * oldRest - 1
      <4>1. count * oldRest \in Nat
        BY <1>3
      <4>. QED  BY <1>7, <3>4, <3>5, <4>1
    <3>. QED  BY <1>9, <3>2, <3>4, <3>5, <3>6
  <2>. QED  BY <2>1, <2>2
(* What is still to be read lies beyond the element written.               *)
<1>11. \A g \in Survivors : \A d \in 0 .. oldRest - 1 :
         Rank(g) > i \/ (Rank(g) = i /\ d >= c + 1)
           => rest'[Rank(g) * oldRest + d] = <<g, d>>
  <2>. SUFFICES ASSUME NEW g \in Survivors, NEW d \in 0 .. oldRest - 1,
                       Rank(g) > i \/ (Rank(g) = i /\ d >= c + 1)
                PROVE  rest'[Rank(g) * oldRest + d] = <<g, d>>
    OBVIOUS
  <2>0. Rank(g) \in Nat /\ Rank(g) < count /\ d \in Nat /\ d < oldRest
    BY <1>3
  <2>1. Rank(g) > i \/ (Rank(g) = i /\ d >= c)
    BY <1>3, <2>0
  <2>2. rest[Rank(g) * oldRest + d] = <<g, d>>
    BY <1>1, <2>1, TruncateFacts
  <2>3. i < Rank(g) \/ (i = Rank(g) /\ c < d)
    BY <1>3, <2>0
  <2>4. w < Rank(g) * oldRest + d
    BY <1>1, <1>3, <2>0, <2>3, RepackBehind DEF w
  <2>5. Rank(g) * oldRest + d \in 0 .. count * oldRest - 1
    BY <1>3, <2>0, StrideBound
  <2>. QED  BY <1>6, <1>9, <2>2, <2>4, <2>5
<1>12. TypeOK'
  <2>1. c' \in 0 .. RestPerGaussian(source'.shDegree)
    BY <1>1, <1>2, <1>3 DEF sourceRest
  <2>2. rest' \in [0 .. count' * RestPerGaussian(shDegree') - 1 ->
          (0 .. source'.count - 1) \X (0 .. RestPerGaussian(source'.shDegree) - 1)]
    BY <1>1, <1>2, <1>3, <1>8 DEF sourceRest, oldRest
  <2>. QED  BY ONLY IInv, <1>1, <1>2, <2>1, <2>2 DEF IInv, TypeOK
<1>13. NoReadAfterOverwrite'
  BY <1>1 DEF NoReadAfterOverwrite, Compacting
<1>14. SurvivorsPlaced'
  <2>1. \A g \in Survivors : AttributesAt(Rank(g), g)'
    BY <1>1, DegreeFacts, SourceFixed DEF AttributesAt
  <2>. QED  BY <1>1, <2>1, DegreeFacts, SourceFixed
            DEF SurvivorsPlaced, Compacting, Compacted
<1>15. TruncationInPlace'
  <2>1. \A g \in Survivors' :
          /\ \A d \in 0 .. newRest' - 1 :
               Rank(g)' < i' \/ (Rank(g)' = i' /\ d < c')
                 => rest'[Rank(g)' * newRest' + d] = <<g, d>>
          /\ \A d \in 0 .. oldRest' - 1 :
               ~(Rank(g)' < i' \/ (Rank(g)' = i' /\ d < c')) /\ Rank(g)' >= i'
                 => rest'[Rank(g)' * oldRest' + d] = <<g, d>>
    <3>. SUFFICES ASSUME NEW g \in Survivors
                  PROVE
          /\ \A d \in 0 .. newRest - 1 :
               Rank(g) < i \/ (Rank(g) = i /\ d < c + 1)
                 => rest'[Rank(g) * newRest + d] = <<g, d>>
          /\ \A d \in 0 .. oldRest - 1 :
               ~(Rank(g) < i \/ (Rank(g) = i /\ d < c + 1)) /\ Rank(g) >= i
                 => rest'[Rank(g) * oldRest + d] = <<g, d>>
      BY <1>1, <1>2, SourceFixed
    <3>1. Rank(g) \in Nat
      BY <1>3
    <3>2. \A d \in 0 .. oldRest - 1 :
            ~(Rank(g) < i \/ (Rank(g) = i /\ d < c + 1)) /\ Rank(g) >= i
              => Rank(g) > i \/ (Rank(g) = i /\ d >= c + 1)
      BY <1>3, <3>1
    <3>. QED  BY <1>10, <1>11, <3>2
  <2>2. newRest' < oldRest' /\ i' <= count' /\ c' <= newRest'
        /\ shDegree' = source'.shDegree
    BY <1>1, <1>2, <1>3, TruncateFacts, DegreeFacts
  <2>. QED  BY <1>1, <2>1, <2>2 DEF TruncationInPlace
<1>. QED  BY <1>12, <1>13, <1>14, <1>15 DEF IInv

LEMMA StepTruncateNext ==
  ASSUME IInv, [Next]_vars, TruncateNext
  PROVE  IInv'
<1>1. /\ pc = "truncate" /\ i < count /\ c = newRest
      /\ i' = i + 1 /\ c' = 0
      /\ UNCHANGED <<pc, count, shDegree, column, rest, scaled, kept>>
  BY DEF TruncateNext
<1>2. /\ newRest' = newRest /\ oldRest' = oldRest
      /\ source' = source /\ options' = options
  BY <1>1, SourceFixed DEF newRest, oldRest
<1>3. /\ newRest \in Nat /\ oldRest \in Nat /\ newRest < oldRest
      /\ i \in Nat /\ count \in Nat
      /\ \A g \in Survivors : Rank(g) \in Nat
  BY <1>1, TruncateFacts, DegreeFacts, InvFacts
<1>4. TypeOK'
  <2>1. i' \in 0 .. source'.count /\ c' \in 0 .. RestPerGaussian(source'.shDegree)
    <3>1. count <= source.count /\ source.count \in Nat /\ sourceRest \in Nat
      BY InvFacts DEF IInv, TypeOK
    <3>. QED  BY <1>1, <1>2, <1>3, <3>1 DEF sourceRest
  <2>. QED  BY ONLY IInv, <1>1, <1>2, <2>1 DEF IInv, TypeOK
<1>5. NoReadAfterOverwrite'
  BY <1>1 DEF NoReadAfterOverwrite, Compacting
<1>6. SurvivorsPlaced'
  <2>1. \A g \in Survivors : AttributesAt(Rank(g), g)'
    BY <1>1, DegreeFacts, SourceFixed DEF AttributesAt
  <2>. QED  BY <1>1, <2>1, DegreeFacts, SourceFixed
            DEF SurvivorsPlaced, Compacting, Compacted
<1>7. TruncationInPlace'
  <2>1. \A g \in Survivors' :
          /\ \A d \in 0 .. newRest' - 1 :
               Rank(g)' < i' \/ (Rank(g)' = i' /\ d < c')
                 => rest'[Rank(g)' * newRest' + d] = <<g, d>>
          /\ \A d \in 0 .. oldRest' - 1 :
               ~(Rank(g)' < i' \/ (Rank(g)' = i' /\ d < c')) /\ Rank(g)' >= i'
                 => rest'[Rank(g)' * oldRest' + d] = <<g, d>>
    <3>. SUFFICES ASSUME NEW g \in Survivors
                  PROVE
          /\ \A d \in 0 .. newRest - 1 :
               Rank(g) < i + 1 \/ (Rank(g) = i + 1 /\ d < 0)
                 => rest[Rank(g) * newRest + d] = <<g, d>>
          /\ \A d \in 0 .. oldRest - 1 :
               ~(Rank(g) < i + 1 \/ (Rank(g) = i + 1 /\ d < 0)) /\ Rank(g) >= i + 1
                 => rest[Rank(g) * oldRest + d] = <<g, d>>
      BY <1>1, <1>2, SourceFixed
    <3>1. Rank(g) \in Nat
      BY <1>3
    <3>2. \A d \in 0 .. newRest - 1 :
            Rank(g) < i + 1 \/ (Rank(g) = i + 1 /\ d < 0)
              => Rank(g) < i \/ (Rank(g) = i /\ d < c)
      BY <1>1, <1>3, <3>1
    <3>3. \A d \in 0 .. oldRest - 1 :
            Rank(g) >= i + 1 => Rank(g) > i \/ (Rank(g) = i /\ d >= c)
      BY <1>3, <3>1
    <3>. QED  BY <1>1, <3>2, <3>3, TruncateFacts
  <2>2. newRest' < oldRest' /\ i' <= count' /\ c' <= newRest'
        /\ shDegree' = source'.shDegree
    BY <1>1, <1>2, <1>3, TruncateFacts, DegreeFacts
  <2>. QED  BY <1>1, <2>1, <2>2 DEF TruncationInPlace
<1>. QED  BY <1>4, <1>5, <1>6, <1>7 DEF IInv

LEMMA StepShrinkRest ==
  ASSUME IInv, [Next]_vars, ShrinkRest
  PROVE  IInv'
<1>1. /\ pc = "truncate" /\ i = count
      /\ rest' = [e \in 0 .. count * newRest - 1 |-> rest[e]]
      /\ shDegree' = EffectiveShDegree(options, shDegree)
      /\ pc' = "done"
      /\ UNCHANGED <<source, options, count, column, scaled, i, kept, c>>
  BY DEF ShrinkRest
<1>2. /\ newRest \in Nat /\ oldRest \in Nat /\ newRest < oldRest
      /\ count \in Nat /\ shDegree = source.shDegree
      /\ RestPerGaussian(shDegree') = newRest
      /\ oldRest = sourceRest
      /\ shDegree' \in 0 .. source.shDegree
      /\ \A g \in Survivors : Rank(g) \in 0 .. count - 1
      /\ rest \in [0 .. count * oldRest - 1 ->
                     (0 .. source.count - 1) \X (0 .. sourceRest - 1)]
  BY <1>1, TruncateFacts, DegreeFacts, InvFacts DEF newRest
<1>3. count * newRest \in Nat /\ count * oldRest \in Nat
      /\ count * newRest <= count * oldRest
  <2>1. PICK k \in Nat : oldRest = newRest + k
    <3>1. oldRest - newRest \in Nat /\ oldRest = newRest + (oldRest - newRest)
      BY <1>2
    <3>. QED  BY <3>1
  <2>2. count * oldRest = count * newRest + count * k /\ count * k \in Nat
    BY <1>2, <2>1
  <2>3. count * newRest \in Nat
    BY <1>2
  <2>. QED  BY <2>2, <2>3
<1>4. rest' \in [0 .. count * newRest - 1 ->
                   (0 .. source.count - 1) \X (0 .. sourceRest - 1)]
  <2>1. \A e \in 0 .. count * newRest - 1 : e \in 0 .. count * oldRest - 1
    BY <1>3
  <2>. QED  BY <1>1, <1>2, <2>1
<1>5. TypeOK'
  <2>1. rest' \in [0 .. count' * RestPerGaussian(shDegree') - 1 ->
          (0 .. source'.count - 1) \X (0 .. RestPerGaussian(source'.shDegree) - 1)]
    BY <1>1, <1>2, <1>4 DEF sourceRest
  <2>. QED  BY ONLY IInv, <1>1, <1>2, <2>1 DEF IInv, TypeOK
<1>6. NoReadAfterOverwrite'
  BY <1>1 DEF NoReadAfterOverwrite, Compacting
<1>7. SurvivorsPlaced'
  <2>1. \A g \in Survivors : AttributesAt(Rank(g), g)'
    BY <1>1, DegreeFacts, SourceFixed DEF AttributesAt
  <2>. QED  BY <1>1, <2>1, DegreeFacts, SourceFixed
            DEF SurvivorsPlaced, Compacting, Compacted
<1>8. \A g \in Survivors : \A d \in 0 .. newRest - 1 :
        rest'[Rank(g) * newRest + d] = <<g, d>>
  <2>. SUFFICES ASSUME NEW g \in Survivors, NEW d \in 0 .. newRest - 1
                PROVE  rest'[Rank(g) * newRest + d] = <<g, d>>
    OBVIOUS
  <2>1. Rank(g) \in Nat /\ Rank(g) < count /\ d \in Nat /\ d < newRest
    BY <1>2
  <2>2. rest[Rank(g) * newRest + d] = <<g, d>>
    BY <1>1, <2>1, TruncateFacts
  <2>3. Rank(g) * newRest + d \in 0 .. count * newRest - 1
    BY <1>2, <2>1, StrideBound
  <2>. QED  BY <1>1, <2>2, <2>3
<1>9. TruncationInPlace'
  <2>1. \A g \in Survivors' : RestAt(Rank(g), g, RestPerGaussian(shDegree))'
    BY <1>2, <1>8, SourceFixed DEF RestAt
  <2>2. shDegree' = EffectiveShDegree(options', source'.shDegree)
    BY <1>1, <1>2
  <2>. QED  BY <1>1, <2>1, <2>2 DEF TruncationInPlace
<1>. QED  BY <1>5, <1>6, <1>7, <1>9 DEF IInv

(* ---- Theorems --------------------------------------------------------- *)

(* The arrays keep their claimed lengths and no loop ever reads an element *)
(* it has already overwritten, for any number of Gaussians: the whole      *)
(* invariant of ApplyImportOptions holds in every reachable state.         *)
THEOREM Invariance == Spec => []IInv
<1>1. Init => IInv
  BY InitInv
<1>2. IInv /\ [Next]_vars => IInv'
  <2>. SUFFICES ASSUME IInv, [Next]_vars PROVE IInv'
    OBVIOUS
  <2>1. CASE ScaleScales          BY <2>1, StepScale
  <2>2. CASE DropGaussian         BY <2>2, StepDrop
  <2>3. CASE KeepInPlace          BY <2>3, StepKeepInPlace
  <2>4. CASE MoveSurvivor         BY <2>4, StepMoveSurvivor
  <2>5. CASE MoveRest             BY <2>5, StepMoveRest
  <2>6. CASE SurvivorMoved        BY <2>6, StepSurvivorMoved
  <2>7. CASE FailAllFiltered      BY <2>7, StepFailAllFiltered
  <2>8. CASE ShrinkToKept         BY <2>8, StepShrinkToKept
  <2>9. CASE KeepDegree           BY <2>9, StepKeepDegree
  <2>10. CASE BeginTruncate       BY <2>10, StepBeginTruncate
  <2>11. CASE TruncateCoefficient BY <2>11, StepTruncateCoefficient
  <2>12. CASE TruncateNext        BY <2>12, StepTruncateNext
  <2>13. CASE ShrinkRest          BY <2>13, StepShrinkRest
  <2>14. CASE UNCHANGED vars
    <3>1. TypeOK'
      BY <2>14 DEF vars, IInv, TypeOK
    <3>2. NoReadAfterOverwrite'
      BY <2>14, SourceFixed DEF vars, IInv, NoReadAfterOverwrite, Compacting,
         AttributesAt, RestAt
    <3>3. SurvivorsPlaced'
      BY <2>14, SourceFixed DEF vars, IInv, SurvivorsPlaced, Compacting,
         Compacted, AttributesAt, RestAt, SurvivorsBelow, Rank
    <3>4. TruncationInPlace'
      BY <2>14, SourceFixed DEF vars, IInv, TruncationInPlace, RestAt,
         oldRest, newRest
    <3>. QED  BY <3>1, <3>2, <3>3, <3>4 DEF IInv
  <2>. QED  BY <2>1, <2>2, <2>3, <2>4, <2>5, <2>6, <2>7, <2>8, <2>9, <2>10,
               <2>11, <2>12, <2>13, <2>14 DEF Next
<1>. QED  BY <1>1, <1>2, PTL DEF Spec

(* The loop variables and the lengths of every array stay what the loops   *)
(* rely on (GaussianPlyImportOptions.cpp, ApplyImportOptions).             *)
THEOREM TypeCorrect == Spec => []TypeOK
BY Invariance, PTL DEF IInv

(* Every survivor the compaction loop has passed sits whole at its rank.   *)
THEOREM Placement == Spec => []SurvivorsPlaced
BY Invariance, PTL DEF IInv

(* Compaction never reads an element it has already overwritten.           *)
THEOREM Compaction == Spec => []NoReadAfterOverwrite
BY Invariance, PTL DEF IInv

(* Neither does the re-packing at a smaller degree.                        *)
THEOREM Truncation == Spec => []TruncationInPlace
BY Invariance, PTL DEF IInv

LEMMA SameCardinality == \A S : Promise!Cardinality(S) = Cardinality(S)
BY DEF Promise!Cardinality, Cardinality

(* The specification of the promise counts the same survivors.             *)
LEMMA SameSurvivors ==
  ASSUME IInv
  PROVE  /\ Promise!Survivors(options, source) = Survivors
         /\ \A g : Promise!Rank(options, source, g) = Rank(g)
<1>1. \A g \in 0 .. source.count - 1 :
        Promise!Survives(options, source, g) <=> g \in Survivors
  BY InvFacts DEF Promise!Survives
<1>2. Promise!Survivors(options, source) = Survivors
  BY <1>1, InvFacts DEF Promise!Survivors
<1>. QED  BY <1>2, SameCardinality DEF Promise!Rank, Rank, SurvivorsBelow

(* What the invariant says of a cloud the call returned.                   *)
LEMMA DoneIsFiltered ==
  IInv /\ pc = "done" => /\ Survivors # {}
                         /\ Promise!IsFiltered(options, source, Cloud)
<1>. SUFFICES ASSUME IInv, pc = "done"
              PROVE  /\ Survivors # {}
                     /\ Promise!IsFiltered(options, source, Cloud)
  OBVIOUS
<1>. DEFINE per == RestPerGaussian(shDegree)
<1>1. /\ count = Cardinality(Survivors) /\ count > 0
      /\ \A g \in Survivors : AttributesAt(Rank(g), g)
      /\ shDegree = EffectiveShDegree(options, source.shDegree)
      /\ \A g \in Survivors : RestAt(Rank(g), g, per)
  BY DEF IInv, SurvivorsPlaced, TruncationInPlace, Compacted
<1>2. Survivors # {}
  <2>1. Cardinality(Survivors) # 0
    BY <1>1
  <2>. QED  BY <2>1, FS_EmptySet
<1>3. /\ Cloud.count = count /\ Cloud.shDegree = shDegree
      /\ Cloud.column = column /\ Cloud.rest = rest
  BY DEF Cloud
<1>4. Promise!IsEffectiveShDegree(shDegree, options, source)
  <2>1. options.shDegree \in Int /\ source.shDegree \in Nat
    BY InvFacts DEF Options, kMaxShDegree
  <2>. QED  BY <1>1, <2>1 DEF Promise!IsEffectiveShDegree, EffectiveShDegree
<1>5. Promise!RestPerGaussian(shDegree) = per
  BY InvFacts DEF Promise!RestPerGaussian, RestPerGaussian, CoefficientsPerGaussian
<1>6. /\ \A k \in Column : DOMAIN column[k] = 0 .. count - 1
      /\ DOMAIN rest = 0 .. count * per - 1
  BY DEF IInv, TypeOK
<1>. HIDE DEF per
<1>7. \A g \in Survivors :
        /\ \A k \in Column : column[k][Rank(g)] = g
        /\ \A d \in 0 .. per - 1 : rest[Rank(g) * per + d] = <<g, d>>
  BY <1>1 DEF AttributesAt, RestAt
<1>. QED  BY <1>1, <1>2, <1>3, <1>4, <1>5, <1>6, <1>7, SameSurvivors,
             SameCardinality
          DEF Promise!IsFiltered

(* ApplyImportOptions implements its promise: whatever the cloud and the   *)
(* options, the in-place loops return exactly the survivors, in order and  *)
(* truncated to the effective degree, or fail exactly when none is left.   *)
THEOREM Refinement == Spec => ImplementsPromise
<1>1. Init => Promise!Init
  BY DEF Init, Promise!Init, Outcome
<1>0. (IInv /\ pc = "done" => /\ Survivors # {}
                               /\ Promise!IsFiltered(options, source, Cloud))'
  BY DoneIsFiltered, PTL
<1>2. IInv /\ IInv' /\ [Next]_vars => [Promise!Apply]_(Promise!vars)
  <2>. SUFFICES ASSUME IInv, IInv', [Next]_vars
                PROVE  [Promise!Apply]_(Promise!vars)
    OBVIOUS
  <2>0. source' = source /\ options' = options
    BY SourceFixed
  <2>1. CASE pc' = "done" /\ pc # "done"
    <3>1. Outcome = "pending" /\ Outcome' = "ok"
      <4>1. pc # "failed"
        BY <2>1 DEF Next, vars, ScaleScales, DropGaussian, KeepInPlace,
           MoveSurvivor, MoveRest, SurvivorMoved, FailAllFiltered,
           ShrinkToKept, KeepDegree, BeginTruncate, TruncateCoefficient,
           TruncateNext, ShrinkRest
      <4>. QED  BY <2>1, <4>1 DEF Outcome
    <3>2. Promise!Survivors(options, source) # {}
      <4>1. Survivors' # {}
        BY <2>1, <1>0
      <4>. QED  BY <4>1, SourceFixed, SameSurvivors
    <3>3. Result' = Cloud'
      BY <2>1 DEF Result
    <3>4. Promise!IsFiltered(options, source, Cloud')
      BY <2>0, <2>1, <1>0 DEF Promise!IsFiltered
    <3>. QED  BY <2>0, <3>1, <3>2, <3>3, <3>4 DEF Promise!Apply
  <2>2. CASE pc' = "failed" /\ pc # "failed"
    <3>1. pc = "compact" /\ FailAllFiltered
      BY <2>2 DEF Next, vars, ScaleScales, DropGaussian, KeepInPlace,
         MoveSurvivor, MoveRest, SurvivorMoved, FailAllFiltered,
         ShrinkToKept, KeepDegree, BeginTruncate, TruncateCoefficient,
         TruncateNext, ShrinkRest
    <3>2. Outcome = "pending" /\ Outcome' = "failed"
      BY <2>2, <3>1 DEF Outcome
    <3>3. Promise!Survivors(options, source) = {}
      BY <2>2, SourceFixed, SameSurvivors DEF IInv, SurvivorsPlaced
    <3>. QED  BY <2>0, <3>2, <3>3 DEF Promise!Apply
  <2>3. CASE pc' \notin {"done", "failed"}
    <3>1. pc \notin {"done", "failed"}
      BY <2>3 DEF Next, vars, ScaleScales, DropGaussian, KeepInPlace,
         MoveSurvivor, MoveRest, SurvivorMoved, FailAllFiltered,
         ShrinkToKept, KeepDegree, BeginTruncate, TruncateCoefficient,
         TruncateNext, ShrinkRest
    <3>. QED  BY <2>0, <2>3, <3>1 DEF Promise!vars, Outcome, Result
  <2>4. CASE pc' = pc /\ pc \in {"done", "failed"}
    <3>1. UNCHANGED vars
      BY <2>4 DEF Next, vars, ScaleScales, DropGaussian, KeepInPlace,
         MoveSurvivor, MoveRest, SurvivorMoved, FailAllFiltered,
         ShrinkToKept, KeepDegree, BeginTruncate, TruncateCoefficient,
         TruncateNext, ShrinkRest
    <3>. QED  BY <3>1 DEF vars, Promise!vars, Outcome, Result, Cloud
  <2>. QED  BY <2>1, <2>2, <2>3, <2>4
<1>. QED  BY <1>1, <1>2, Invariance, PTL DEF Spec, ImplementsPromise, Promise!Spec
=============================================================================
