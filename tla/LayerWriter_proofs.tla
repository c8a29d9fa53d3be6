------------------------- MODULE LayerWriter_proofs -------------------------
(***************************************************************************)
(* The layer writer reads inside the arrays of the cloud it releases, and  *)
(* publishes a layer only when that layer holds the whole cloud: for every *)
(* number of Gaussians, every degree and every cloud, well-formed or not.  *)
(* What both hold together is bounded, and the extent encloses the cloud.  *)
(***************************************************************************)
EXTENDS LayerWriter, FiniteSetTheorems, WellFoundedInduction, TLAPS

(* ---- The arithmetic of strided indices -------------------------------- *)

(* The elements of a lower Gaussian all lie below those of a higher one.  *)
LEMMA StrideOrder ==
  ASSUME NEW a \in Nat, NEW b \in Nat, NEW stride \in Nat, NEW x \in Nat,
         a < b, x < stride
  PROVE  a * stride + x < b * stride
<1>1. PICK d \in Nat : b = a + 1 + d
  <2>1. b - a - 1 \in Nat /\ b = a + 1 + (b - a - 1)
    OBVIOUS
  <2>. QED  BY <2>1
<1>2. b * stride = a * stride + stride + d * stride
  BY <1>1
<1>3. d * stride \in Nat /\ a * stride \in Nat
  BY <1>1
<1>. QED  BY <1>2, <1>3

(* An element of a Gaussian of the cloud lies within the array.           *)
LEMMA StrideBound ==
  ASSUME NEW a \in Nat, NEW n \in Nat, NEW stride \in Nat, NEW x \in Nat,
         a < n, x < stride
  PROVE  a * stride + x \in 0 .. n * stride - 1
<1>1. a * stride + x < n * stride
  BY StrideOrder
<1>2. a * stride \in Nat /\ n * stride \in Nat
  OBVIOUS
<1>. QED  BY <1>1, <1>2

(* Distinct (Gaussian, coefficient) pairs have distinct elements.         *)
LEMMA StrideInjective ==
  ASSUME NEW a \in Nat, NEW b \in Nat, NEW stride \in Nat,
         NEW x \in Nat, NEW y \in Nat, x < stride, y < stride,
         a * stride + x = b * stride + y
  PROVE  a = b /\ x = y
<1>0. a * stride \in Nat /\ b * stride \in Nat
  OBVIOUS
<1>1. ~(a < b)
  <2>. SUFFICES ASSUME a < b PROVE FALSE
    OBVIOUS
  <2>1. a * stride + x < b * stride
    BY StrideOrder
  <2>. QED  BY <2>1, <1>0
<1>2. ~(b < a)
  <2>. SUFFICES ASSUME b < a PROVE FALSE
    OBVIOUS
  <2>1. b * stride + y < a * stride
    BY StrideOrder
  <2>. QED  BY <2>1, <1>0
<1>3. a = b
  BY <1>1, <1>2
<1>. QED  BY <1>0, <1>3

(* ---- The bound of a cloud ---------------------------------------------- *)

LEMMA LeastNatural ==
  ASSUME NEW S, S \subseteq Nat, S # {}
  PROVE  \E x \in S : \A y \in S : x <= y
<1>1. IsWellFoundedOn(OpToRel(<, Nat), Nat)
  BY NatLessThanWellFounded
<1>2. PICK x \in S : \A y \in S : ~(<<y, x>> \in OpToRel(<, Nat))
  BY <1>1, WFMin, Zenon
<1>3. \A y \in S : ~(y < x)
  BY <1>2 DEF OpToRel
<1>. QED  BY <1>3

(* Sums are rounded to a range, so there is a least and a greatest one.    *)
Floats == -Infinity .. Infinity

LEMMA RoundedIsFloat == \A x \in Int : RoundToFloat(x) \in Floats
BY FloatMaxAssumption DEF RoundToFloat, Floats, Infinity

LEMMA MinIsLeast ==
  ASSUME NEW S, S \subseteq Floats, S # {}
  PROVE  Min(S) \in S /\ \A y \in S : Min(S) <= y
<1>. DEFINE shifted == {x + Infinity : x \in S}
<1>1. Infinity \in Nat /\ \A x \in S : x \in Int /\ x + Infinity \in Nat
  BY FloatMaxAssumption DEF Floats, Infinity
<1>2. PICK m \in shifted : \A y \in shifted : m <= y
  BY <1>1, LeastNatural
<1>3. PICK x \in S : m = x + Infinity
  OBVIOUS
<1>4. \A y \in S : x <= y
  BY <1>1, <1>2, <1>3
<1>. QED  BY <1>4 DEF Min

LEMMA MaxIsGreatest ==
  ASSUME NEW S, S \subseteq Floats, S # {}
  PROVE  Max(S) \in S /\ \A y \in S : Max(S) >= y
<1>. DEFINE shifted == {Infinity - x : x \in S}
<1>1. Infinity \in Nat /\ \A x \in S : x \in Int /\ Infinity - x \in Nat
  BY FloatMaxAssumption DEF Floats, Infinity
<1>2. PICK m \in shifted : \A y \in shifted : m <= y
  BY <1>1, LeastNatural
<1>3. PICK x \in S : m = Infinity - x
  OBVIOUS
<1>4. \A y \in S : Infinity - x <= Infinity - y
  BY <1>2, <1>3
<1>5. \A y \in S : x >= y
  <2>. HIDE DEF shifted
  <2>. QED  BY <1>1, <1>4
<1>. QED  BY <1>5 DEF Max

(* The extent contains the three-sigma sphere of every Gaussian, each      *)
(* bound as rounded (ComputeCloudExtent, GaussianMath.cpp:177-210).        *)
LEMMA ExtentEncloses ==
  ASSUME NEW n \in Nat, NEW position \in [0 .. n - 1 -> Int],
         NEW scale \in [0 .. n - 1 -> Int], NEW h \in 0 .. n - 1
  PROVE  LET extent == ComputeCloudExtent(position, scale, n) IN
         /\ extent.minimum <= RoundToFloat(position[h] - 3 * scale[h])
         /\ extent.maximum >= RoundToFloat(position[h] + 3 * scale[h])
<1>. DEFINE low  == {RoundToFloat(position[i] - Radius(scale, i)) : i \in 0 .. n - 1}
            high == {RoundToFloat(position[i] + Radius(scale, i)) : i \in 0 .. n - 1}
<1>1. \A i \in 0 .. n - 1 : /\ position[i] - Radius(scale, i) \in Int
                            /\ position[i] + Radius(scale, i) \in Int
  BY DEF Radius
<1>2. FloatMax \in Floats /\ -FloatMax \in Floats
  BY FloatMaxAssumption DEF Floats, Infinity
<1>3. low \subseteq Floats /\ high \subseteq Floats
  BY <1>1, RoundedIsFloat
<1>4. /\ RoundToFloat(position[h] - Radius(scale, h)) \in low
      /\ RoundToFloat(position[h] + Radius(scale, h)) \in high
  OBVIOUS
<1>. HIDE DEF low, high
<1>5. /\ Min({FloatMax} \cup low) <= RoundToFloat(position[h] - Radius(scale, h))
      /\ Max({-FloatMax} \cup high) >= RoundToFloat(position[h] + Radius(scale, h))
  BY <1>2, <1>3, <1>4, MinIsLeast, MaxIsGreatest
<1>. QED  BY <1>5 DEF ComputeCloudExtent, Radius, low, high

(* ---- The inductive invariant ------------------------------------------- *)

Copying == {"positions", "scales", "sizeRotations", "rotations", "opacities",
            "required", "sizeCoefficients", "dc", "rest", "extent"}
Opening == {"metadata", "validate", "scaffold"}
Closing == {"publish", "done"}

Shapes ==
  /\ call \in Calls /\ pc \in Opening \cup Copying \cup Closing \cup {"failed", "threw"}
  /\ cloud = [a \in Array |-> cloud[a]] /\ local = [a \in VtArray |-> local[a]]
  /\ g \in Nat /\ k \in Nat

(* What the gate of the writer leaves.                                     *)
Valid ==
  /\ call.shDegree \in 0 .. 3
  /\ \A a \in Column : call.length[a] = count
  /\ call.length["restCoefficients"] = count * per
Gated ==
  /\ pc = "metadata" => call.metadataOnly
  /\ pc \in {"validate"} \cup Copying => ~call.metadataOnly
  /\ pc \in {"scaffold"} \cup Copying \cup Closing /\ ~call.metadataOnly => Valid

(* An array is the caller's until it is taken ...                          *)
Untouched(a) == cloud[a] = Whole(a, call.length[a])
Unreleased ==
  /\ pc \in Opening \cup {"positions"} => Untouched("positions")
  /\ pc \in Opening \cup {"positions", "scales"} => Untouched("scales")
  /\ pc \in Opening \cup {"positions", "scales", "sizeRotations", "rotations"} =>
       Untouched("rotations")
  /\ pc \in Opening \cup {"positions", "scales", "sizeRotations", "rotations",
                          "opacities"} => Untouched("opacities")
  /\ pc \in Opening \cup (Copying \ {"extent"}) =>
       Untouched("dcCoefficients") /\ Untouched("restCoefficients")

(* ... and whole in the Vt array from then on.                             *)
Taken ==
  /\ pc \in Copying \ {"positions"} => local["positions"] = Whole("positions", count)
  /\ pc \in Copying \ {"positions", "scales"} => local["scales"] = Whole("scales", count)
  /\ pc \in {"opacities", "required", "sizeCoefficients", "dc", "rest", "extent"} =>
       local["rotations"] = Whole("rotations", count)
  /\ pc \in {"required", "sizeCoefficients", "dc", "rest", "extent"} =>
       local["opacities"] = Whole("opacities", count)

RotationsCopied ==
  pc = "rotations" =>
    /\ g <= count
    /\ local["rotations"] = [e \in 0 .. count - 1 |-> local["rotations"][e]]
    /\ \A e \in 0 .. g - 1 : local["rotations"][e] = <<"rotations", e>>

(* The places of a Gaussian in the SH attribute.                           *)
DcAt(h) == h * (per + 1)
RestAt(h, d) == h * (per + 1) + 1 + d
Filled(attr, h, n) ==
  /\ attr[DcAt(h)] = <<"dcCoefficients", h>>
  /\ \A d \in 0 .. n - 1 : attr[RestAt(h, d)] = <<"restCoefficients", h * per + d>>
AllFilled  == \A h \in 0 .. g - 1 : Filled(local["coefficients"], h, per)
PartFilled == Filled(local["coefficients"], g, k)
CoefficientsCopied ==
  pc \in {"dc", "rest"} =>
    /\ g <= count
    /\ local["coefficients"]
         = [e \in 0 .. count * (per + 1) - 1 |-> local["coefficients"][e]]
    /\ AllFilled
    /\ pc = "rest" => g < count /\ k <= per /\ PartFilled

Scaffold == {"gaussianCount", "shDegree"}
Columns  == {"positions", "scales", "rotations", "opacities"}
HoldsScaffold ==
  layer["gaussianCount"] = count /\ layer["shDegree"] = call.shDegree
HoldsColumns == \A a \in Columns : layer[a] = Whole(a, count)
Authored ==
  /\ pc \in Opening => layer = Empty
  /\ pc \in Copying \cup Closing => HoldsScaffold
  /\ pc \in {"positions", "scales", "sizeRotations", "rotations", "opacities",
             "required"} => DOMAIN layer = Scaffold
  /\ pc \in {"sizeCoefficients", "dc", "rest"} =>
       DOMAIN layer = Scaffold \cup Columns /\ HoldsColumns
  /\ pc = "extent" =>
       /\ DOMAIN layer = Scaffold \cup Columns \cup {"coefficients"} /\ HoldsColumns
       /\ Interleaved(layer["coefficients"])
  /\ pc \in Closing /\ call.metadataOnly => DOMAIN layer = Scaffold
  /\ pc \in Closing /\ ~call.metadataOnly =>
       /\ DOMAIN layer = FullAttr /\ HoldsColumns
       /\ Interleaved(layer["coefficients"])

HandedOver ==
  /\ pc = "done" => outLayer = layer
  /\ pc # "done" => outLayer = NoLayer

IInv == /\ Shapes /\ Gated /\ Unreleased /\ Taken /\ RotationsCopied
        /\ CoefficientsCopied /\ Authored /\ HandedOver

(* ---- Facts about a call ------------------------------------------------ *)

LEMMA CallFacts ==
  ASSUME call \in Calls
  PROVE  /\ call.metadataOnly \in BOOLEAN /\ call.hasOutput \in BOOLEAN
         /\ count \in Nat /\ call.shDegree \in Int /\ call.length \in [Array -> Nat]
BY CallsAssumption DEF IsCall, count

LEMMA DegreeFacts ==
  ASSUME NEW d \in 0 .. 3
  PROVE  RestPerGaussian(d) \in Nat /\ CoefficientsPerGaussian(d) = RestPerGaussian(d) + 1
<1>1. d = 0 \/ d = 1 \/ d = 2 \/ d = 3
  OBVIOUS
<1>2. /\ CoefficientsPerGaussian(0) = 1 /\ CoefficientsPerGaussian(1) = 4
      /\ CoefficientsPerGaussian(2) = 9 /\ CoefficientsPerGaussian(3) = 16
  BY DEF CoefficientsPerGaussian
<1>. QED  BY <1>1, <1>2 DEF RestPerGaussian

LEMMA ValidFacts ==
  ASSUME call \in Calls, Valid
  PROVE  /\ count \in Nat /\ per \in Nat
         /\ CoefficientsPerGaussian(call.shDegree) = per + 1
         /\ \A a \in Column : Whole(a, call.length[a]) = Whole(a, count)
         /\ Whole("restCoefficients", call.length["restCoefficients"])
              = Whole("restCoefficients", count * per)
BY CallFacts, DegreeFacts DEF Valid, per

(* Every place of the SH attribute belongs to one Gaussian and one term.   *)
LEMMA Places ==
  ASSUME NEW n \in Nat, per \in Nat, NEW h \in Nat, h < n
  PROVE  /\ DcAt(h) \in 0 .. n * (per + 1) - 1
         /\ \A d \in Nat : d < per =>
              /\ RestAt(h, d) \in 0 .. n * (per + 1) - 1
              /\ h * per + d \in 0 .. n * per - 1
<1>. DEFINE w == per + 1
<1>0. w \in Nat /\ 0 < w
  OBVIOUS
<1>1. h * w + 0 \in 0 .. n * w - 1
  BY <1>0, StrideBound
<1>2. ASSUME NEW d \in Nat, d < per
      PROVE  /\ h * w + (1 + d) \in 0 .. n * w - 1
             /\ h * per + d \in 0 .. n * per - 1
  <2>1. 1 + d \in Nat /\ 1 + d < w
    BY <1>2
  <2>2. h * w + (1 + d) \in 0 .. n * w - 1
    BY <2>1, <1>0, StrideBound
  <2>. QED  BY <2>2, <1>2, StrideBound
<1>3. h * w \in Nat
  BY <1>0
<1>. HIDE DEF w
<1>4. h * w + 0 = h * w /\ \A d \in Nat : h * w + (1 + d) = h * w + 1 + d
  BY <1>3
<1>5. DcAt(h) = h * w /\ \A d \in Nat : RestAt(h, d) = h * w + 1 + d
  BY DEF DcAt, RestAt, w
<1>. QED  BY <1>1, <1>2, <1>4, <1>5 DEF w

LEMMA PlacesDiffer ==
  ASSUME per \in Nat, NEW h \in Nat, NEW i \in Nat
  PROVE  /\ DcAt(h) = DcAt(i) => h = i
         /\ \A d \in Nat : d < per => DcAt(h) # RestAt(i, d)
         /\ \A d, e \in Nat : d < per /\ e < per /\ RestAt(h, d) = RestAt(i, e) =>
              h = i /\ d = e
<1>. DEFINE w == per + 1
<1>0. w \in Nat /\ 0 < w /\ \A d \in Nat : d < per => 1 + d \in Nat /\ 1 + d < w /\ 0 # 1 + d
  OBVIOUS
<1>1. h * w + 0 = i * w + 0 => h = i
  BY <1>0, StrideInjective
<1>2. \A d \in Nat : d < per => h * w + 0 # i * w + (1 + d)
  <2>. SUFFICES ASSUME NEW d \in Nat, d < per, h * w + 0 = i * w + (1 + d) PROVE FALSE
    OBVIOUS
  <2>1. 0 = 1 + d
    BY <1>0, StrideInjective
  <2>. QED  BY <2>1
<1>3. \A d, e \in Nat : d < per /\ e < per /\ h * w + (1 + d) = i * w + (1 + e) =>
        h = i /\ d = e
  <2>. SUFFICES ASSUME NEW d \in Nat, NEW e \in Nat, d < per, e < per,
                       h * w + (1 + d) = i * w + (1 + e)
                PROVE  h = i /\ d = e
    OBVIOUS
  <2>1. h = i /\ 1 + d = 1 + e
    BY <1>0, StrideInjective
  <2>. QED  BY <2>1
<1>4. h * w \in Nat /\ i * w \in Nat
  BY <1>0
<1>. HIDE DEF w
<1>5. /\ h * w + 0 = h * w /\ i * w + 0 = i * w
      /\ \A d \in Nat : h * w + (1 + d) = h * w + 1 + d /\ i * w + (1 + d) = i * w + 1 + d
  BY <1>4
<1>6. /\ DcAt(h) = h * w /\ DcAt(i) = i * w
      /\ \A d \in Nat : RestAt(h, d) = h * w + 1 + d /\ RestAt(i, d) = i * w + 1 + d
  BY DEF DcAt, RestAt, w
<1>. QED  BY <1>1, <1>2, <1>3, <1>5, <1>6

LEMMA InterleavedIsFilled ==
  ASSUME NEW attr
  PROVE  Interleaved(attr) <=>
           /\ DOMAIN attr = 0 .. count * (per + 1) - 1
           /\ \A h \in 0 .. count - 1 : Filled(attr, h, per)
BY DEF Interleaved, Filled, DcAt, RestAt

(* What is authored before keeps its name and value.                       *)
LEMMA AuthorKeeps ==
  ASSUME NEW values, Author(values)
  PROVE  /\ DOMAIN layer' = DOMAIN layer \cup DOMAIN values
         /\ \A n \in DOMAIN values : layer'[n] = values[n]
         /\ \A n \in DOMAIN layer \ DOMAIN values : layer'[n] = layer[n]
BY DEF Author

LEMMA Update ==
  ASSUME NEW f, NEW S, f = [e \in S |-> f[e]], NEW i \in S, NEW v, NEW h,
         h = [f EXCEPT ![i] = v]
  PROVE  /\ h = [e \in S |-> h[e]] /\ h[i] = v
         /\ \A e \in S : e # i => h[e] = f[e]
OBVIOUS

(* ---- The steps --------------------------------------------------------- *)

LEMMA InitInv == Init => IInv
<1>. SUFFICES ASSUME Init PROVE IInv
  OBVIOUS
<1>1. pc = IF call.metadataOnly THEN "metadata" ELSE "validate"
  BY DEF Init
<1>2. Shapes
  BY <1>1 DEF Init, Shapes, Opening, Empty
<1>3. Gated
  BY <1>1 DEF Init, Gated, Copying, Closing
<1>4. Unreleased
  BY <1>1 DEF Init, Unreleased, Untouched, Array, Column
<1>5. Taken /\ RotationsCopied /\ CoefficientsCopied /\ Authored
  BY <1>1 DEF Init, Taken, RotationsCopied, CoefficientsCopied, Authored, Copying, Closing
<1>6. HandedOver
  BY <1>1 DEF Init, HandedOver
<1>. QED  BY <1>2, <1>3, <1>4, <1>5, <1>6 DEF IInv
(* The call is the call: what is said of its arguments stays said.         *)
LEMMA CallKept ==
  ASSUME call' = call
  PROVE  /\ count' = count /\ per' = per /\ (Valid' <=> Valid)
         /\ \A h : DcAt(h)' = DcAt(h) /\ \A d : RestAt(h, d)' = RestAt(h, d)
BY DEF count, per, Valid, DcAt, RestAt

LEMMA StutterInv == IInv /\ UNCHANGED vars => IInv'
<1>. SUFFICES ASSUME IInv, UNCHANGED vars PROVE IInv'
  OBVIOUS
<1>1. UNCHANGED <<call, pc, cloud, local, g, k, layer, outLayer>>
  BY DEF vars
<1>2. UNCHANGED <<count, per>> /\ (Valid' <=> Valid)
  BY <1>1, CallKept
<1>3. (Shapes /\ Gated)'
  BY <1>1, <1>2 DEF IInv, Shapes, Gated
<1>4. (Unreleased /\ Taken /\ RotationsCopied)'
  BY <1>1, <1>2 DEF IInv, Unreleased, Untouched, Taken, RotationsCopied
<1>5. CoefficientsCopied'
  BY <1>1, <1>2 DEF IInv, CoefficientsCopied, AllFilled, PartFilled, Filled, DcAt, RestAt
<1>6. (Authored /\ HandedOver)'
  BY <1>1, <1>2 DEF IInv, Authored, HoldsScaffold, HoldsColumns, Interleaved, HandedOver
<1>. QED  BY <1>3, <1>4, <1>5, <1>6 DEF IInv

LEMMA StepCheckArguments == IInv /\ CheckArguments => IInv'
<1>. SUFFICES ASSUME IInv, CheckArguments PROVE IInv'
  OBVIOUS
<1>1. /\ pc \in {"validate", "metadata"}
      /\ UNCHANGED <<call, cloud, local, g, k, layer, outLayer>>
      /\ \/ pc' = "failed"
         \/ pc' = "scaffold" /\ (pc = "validate" => ValidateGaussianCloud(call))
  BY DEF CheckArguments, Fail
<1>3. Shapes'
  BY <1>1 DEF IInv, Shapes, Opening
<1>4. Gated'
  <2>1. CASE pc' = "scaffold" /\ ~call.metadataOnly
    <3>1. ValidateGaussianCloud(call)
      BY <2>1, <1>1 DEF IInv, Gated
    <3>2. Valid
      BY <3>1, CallFacts DEF IInv, Shapes, ValidateGaussianCloud, Valid, count, per,
         ColumnLengthsMatch, ShDegreeIsValid, RestLengthMatches, kMaxShDegree
    <3>. QED  BY <3>2, <2>1, <1>1, CallKept DEF Gated, Copying
  <2>2. CASE pc' = "failed" \/ call.metadataOnly
    BY <2>2, <1>1 DEF Gated, Copying, Closing
  <2>. QED  BY <1>1, <2>1, <2>2
<1>5. Unreleased'
  BY <1>1 DEF IInv, Unreleased, Untouched, Opening, Copying
<1>6. (Taken /\ RotationsCopied /\ CoefficientsCopied)'
  BY <1>1 DEF Taken, RotationsCopied, CoefficientsCopied, Copying
<1>7. Authored'
  BY <1>1 DEF IInv, Authored, Opening, Copying, Closing
<1>8. HandedOver'
  BY <1>1 DEF IInv, HandedOver
<1>. QED  BY <1>3, <1>4, <1>5, <1>6, <1>7, <1>8 DEF IInv

(* A call that has failed keeps nothing but its shape, and no layer.       *)
LEMMA StepEnds ==
  ASSUME IInv, pc # "done", pc' \in {"failed", "threw"}, call' = call,
         Shapes', outLayer' = outLayer
  PROVE  IInv'
<1>1. (Gated /\ Unreleased)'
  BY DEF Gated, Unreleased, Opening, Copying, Closing
<1>2. (Taken /\ RotationsCopied /\ CoefficientsCopied /\ Authored)'
  BY DEF Taken, RotationsCopied, CoefficientsCopied, Authored, Opening, Copying, Closing
<1>3. HandedOver'
  BY DEF IInv, HandedOver
<1>. QED  BY <1>1, <1>2, <1>3 DEF IInv

LEMMA StepThrow == IInv /\ Throw => IInv'
<1>. SUFFICES ASSUME IInv, Throw PROVE IInv'
  OBVIOUS
<1>1. Shapes'
  BY DEF IInv, Shapes, Throw
<1>. QED  BY <1>1, StepEnds DEF Throw

LEMMA StepAuthorScaffold == IInv /\ AuthorScaffold => IInv'
<1>. SUFFICES ASSUME IInv, AuthorScaffold PROVE IInv'
  OBVIOUS
<1>1. pc = "scaffold" /\ UNCHANGED <<call, cloud, local, g, k, outLayer>>
  BY DEF AuthorScaffold
<1>2. CASE /\ Author([gaussianCount |-> call.count, shDegree |-> call.shDegree])
           /\ pc' = IF call.metadataOnly THEN "publish" ELSE "positions"
  <2>0. call.metadataOnly \in BOOLEAN /\ pc' \in {"publish", "positions"}
    BY <1>2, CallFacts DEF IInv, Shapes
  <2>1. Shapes'
    BY <1>1, <2>0 DEF IInv, Shapes, Opening, Copying, Closing
  <2>2. Gated'
    BY <1>1, <1>2, CallKept DEF IInv, Gated, Copying, Closing
  <2>3. Unreleased'
    BY <1>1, <2>0 DEF IInv, Unreleased, Untouched, Opening, Copying
  <2>4. (Taken /\ RotationsCopied /\ CoefficientsCopied)'
    BY <2>0 DEF Taken, RotationsCopied, CoefficientsCopied, Copying
  <2>5. /\ DOMAIN layer' = Scaffold
        /\ layer'["gaussianCount"] = call.count /\ layer'["shDegree"] = call.shDegree
    <3>. DEFINE values == [gaussianCount |-> call.count, shDegree |-> call.shDegree]
    <3>1. DOMAIN layer = {}
      BY <1>1 DEF IInv, Authored, Opening, Empty
    <3>2. DOMAIN values = Scaffold /\ values["gaussianCount"] = call.count
          /\ values["shDegree"] = call.shDegree
      BY DEF Scaffold
    <3>3. Author(values)
      BY <1>2
    <3>. HIDE DEF values
    <3>. QED  BY <3>1, <3>2, <3>3, AuthorKeeps DEF Scaffold
  <2>6. Authored'
    BY <2>0, <2>5, <1>1, <1>2 DEF Authored, HoldsScaffold, count, Opening, Copying, Closing
  <2>7. HandedOver'
    BY <1>1, <2>0 DEF IInv, HandedOver
  <2>. QED  BY <2>1, <2>2, <2>3, <2>4, <2>6, <2>7 DEF IInv
<1>3. CASE pc' = "failed"
  <2>1. Shapes'
    BY <1>1, <1>3 DEF IInv, Shapes
  <2>. QED  BY <1>1, <1>3, <2>1, StepEnds
<1>. QED  BY <1>2, <1>3 DEF AuthorScaffold, Fail

(* What is authored does not change while the arrays are copied.           *)
LEMMA AuthoredKept ==
  ASSUME IInv, UNCHANGED <<call, layer, outLayer>>, pc \in Copying, pc' \in Copying,
         pc \in {"sizeCoefficients", "dc", "rest"}
           <=> pc' \in {"sizeCoefficients", "dc", "rest"},
         pc = "extent" <=> pc' = "extent"
  PROVE  (Authored /\ HandedOver)'
<1>1. UNCHANGED <<count, per>>
  BY CallKept
<1>2. UNCHANGED HoldsScaffold /\ UNCHANGED HoldsColumns
      /\ (Interleaved(layer["coefficients"]))' = Interleaved(layer["coefficients"])
  BY <1>1 DEF HoldsScaffold, HoldsColumns, Interleaved
<1>3. Authored'
  BY <1>2 DEF IInv, Authored, Opening, Copying, Closing
<1>4. HandedOver'
  BY DEF IInv, HandedOver, Copying
<1>. QED  BY <1>3, <1>4

LEMMA GatedKept ==
  ASSUME IInv, call' = call, pc \in Copying, pc' \in Copying \cup {"publish"}
  PROVE  Gated' /\ Valid /\ Valid' /\ UNCHANGED <<count, per>>
<1>1. ~call.metadataOnly /\ Valid
  BY DEF IInv, Gated
<1>. QED  BY <1>1, CallKept DEF Gated, Copying

LEMMA StepTakePositions == IInv /\ TakePositions => IInv'
<1>. SUFFICES ASSUME IInv, TakePositions PROVE IInv'
  OBVIOUS
<1>1. /\ pc = "positions" /\ pc' = "scales"
      /\ UNCHANGED <<call, error, g, k, layer, outLayer>>
      /\ local' = [local EXCEPT !["positions"] = cloud["positions"]]
      /\ cloud' = [a \in Array |-> IF a \in {"positions"} THEN Empty ELSE cloud[a]]
  BY DEF TakePositions, TakeVec3fArray, Release
<1>2. Gated' /\ Valid /\ UNCHANGED <<count, per>>
  BY <1>1, GatedKept DEF Copying
<1>3. (Authored /\ HandedOver)'
  BY <1>1, AuthoredKept DEF Copying
<1>4. cloud["positions"] = Whole("positions", count)
  BY <1>1, <1>2, ValidFacts DEF IInv, Shapes, Unreleased, Untouched, Column
<1>5. Shapes'
  BY <1>1 DEF IInv, Shapes, Copying
<1>6. Unreleased'
  BY <1>1 DEF IInv, Unreleased, Untouched, Opening, Copying, Array, Column
<1>7. Taken'
  BY <1>1, <1>2, <1>4 DEF IInv, Shapes, Taken, Copying, VtArray
<1>8. (RotationsCopied /\ CoefficientsCopied)'
  BY <1>1 DEF RotationsCopied, CoefficientsCopied
<1>. QED  BY <1>2, <1>3, <1>5, <1>6, <1>7, <1>8 DEF IInv

LEMMA StepTakeScales == IInv /\ TakeScales => IInv'
<1>. SUFFICES ASSUME IInv, TakeScales PROVE IInv'
  OBVIOUS
<1>1. /\ pc = "scales" /\ pc' = "sizeRotations"
      /\ UNCHANGED <<call, error, g, k, layer, outLayer>>
      /\ local' = [local EXCEPT !["scales"] = cloud["scales"]]
      /\ cloud' = [a \in Array |-> IF a \in {"scales"} THEN Empty ELSE cloud[a]]
  BY DEF TakeScales, TakeVec3fArray, Release
<1>2. Gated' /\ Valid /\ UNCHANGED <<count, per>>
  BY <1>1, GatedKept DEF Copying
<1>3. (Authored /\ HandedOver)'
  BY <1>1, AuthoredKept DEF Copying
<1>4. cloud["scales"] = Whole("scales", count)
  BY <1>1, <1>2, ValidFacts DEF IInv, Shapes, Unreleased, Untouched, Column
<1>5. Shapes'
  BY <1>1 DEF IInv, Shapes, Copying
<1>6. Unreleased'
  BY <1>1 DEF IInv, Unreleased, Untouched, Opening, Copying, Array, Column
<1>7. Taken'
  BY <1>1, <1>2, <1>4 DEF IInv, Shapes, Taken, Copying, VtArray
<1>8. (RotationsCopied /\ CoefficientsCopied)'
  BY <1>1 DEF RotationsCopied, CoefficientsCopied
<1>. QED  BY <1>2, <1>3, <1>5, <1>6, <1>7, <1>8 DEF IInv

LEMMA StepSizeRotations == IInv /\ SizeRotations => IInv'
<1>. SUFFICES ASSUME IInv, SizeRotations PROVE IInv'
  OBVIOUS
<1>1. /\ pc = "sizeRotations" /\ pc' = "rotations" /\ g' = 0
      /\ UNCHANGED <<call, cloud, k, layer, outLayer>>
      /\ local' = [local EXCEPT !["rotations"] = Sized(count)]
  BY DEF SizeRotations
<1>2. Gated' /\ Valid /\ UNCHANGED <<count, per>>
  BY <1>1, GatedKept DEF Copying
<1>3. (Authored /\ HandedOver)'
  BY <1>1, AuthoredKept DEF Copying
<1>4. Shapes'
  BY <1>1 DEF IInv, Shapes, Copying
<1>5. Unreleased'
  BY <1>1 DEF IInv, Unreleased, Untouched, Opening, Copying
<1>6. Taken'
  BY <1>1, <1>2 DEF IInv, Shapes, Taken, Copying, VtArray
<1>7. RotationsCopied'
  <2>1. count \in Nat /\ local'["rotations"] = Sized(count)
    BY <1>1, <1>2, ValidFacts DEF IInv, Shapes, VtArray
  <2>. QED  BY <2>1, <1>1, <1>2 DEF RotationsCopied, Sized
<1>8. CoefficientsCopied'
  BY <1>1 DEF CoefficientsCopied
<1>. QED  BY <1>2, <1>3, <1>4, <1>5, <1>6, <1>7, <1>8 DEF IInv

LEMMA StepCopyRotation == IInv /\ CopyRotation => IInv'
<1>. SUFFICES ASSUME IInv, CopyRotation PROVE IInv'
  OBVIOUS
<1>1. /\ pc = "rotations" /\ pc' = "rotations" /\ g < count /\ g' = g + 1
      /\ UNCHANGED <<call, cloud, k, layer, outLayer>>
      /\ local' = [local EXCEPT !["rotations"] =
                     [local["rotations"] EXCEPT ![g] = cloud["rotations"][g]]]
  BY DEF CopyRotation
<1>2. Gated' /\ Valid /\ UNCHANGED <<count, per>>
  BY <1>1, GatedKept DEF Copying
<1>3. (Authored /\ HandedOver)'
  BY <1>1, AuthoredKept DEF Copying
<1>4. Shapes'
  <2>1. g' \in Nat
    BY <1>1 DEF IInv, Shapes
  <2>2. local' = [a \in VtArray |-> local'[a]]
    BY <1>1 DEF IInv, Shapes
  <2>. QED  BY <1>1, <2>1, <2>2 DEF IInv, Shapes
<1>5. Unreleased'
  BY <1>1 DEF IInv, Unreleased, Untouched, Opening, Copying
<1>6. Taken'
  BY <1>1, <1>2 DEF IInv, Shapes, Taken, Copying, VtArray
<1>7. RotationsCopied'
  <2>1. count \in Nat /\ g \in 0 .. count - 1
    BY <1>1, <1>2, ValidFacts DEF IInv, Shapes
  <2>2. cloud["rotations"] = Whole("rotations", count)
    BY <1>1, <1>2, ValidFacts DEF IInv, Shapes, Unreleased, Untouched, Column
  <2>3. cloud["rotations"][g] = <<"rotations", g>>
    BY <2>1, <2>2 DEF Whole
  <2>4. local'["rotations"] = [local["rotations"] EXCEPT ![g] = <<"rotations", g>>]
    BY <1>1, <2>3 DEF IInv, Shapes, VtArray
  <2>5. /\ local["rotations"] = [e \in 0 .. count - 1 |-> local["rotations"][e]]
        /\ \A e \in 0 .. g - 1 : local["rotations"][e] = <<"rotations", e>>
    BY <1>1 DEF IInv, RotationsCopied
  <2>6. /\ local'["rotations"] = [e \in 0 .. count - 1 |-> local'["rotations"][e]]
        /\ local'["rotations"][g] = <<"rotations", g>>
        /\ \A e \in 0 .. count - 1 : e # g => local'["rotations"][e] = local["rotations"][e]
    BY <2>1, <2>4, <2>5, Update, Zenon
  <2>7. \A e \in 0 .. g : local'["rotations"][e] = <<"rotations", e>>
    <3>. SUFFICES ASSUME NEW e \in 0 .. g PROVE local'["rotations"][e] = <<"rotations", e>>
      OBVIOUS
    <3>1. CASE e = g
      BY <3>1, <2>6
    <3>2. CASE e # g
      <4>1. e \in 0 .. g - 1 /\ e \in 0 .. count - 1
        BY <3>2, <2>1
      <4>. QED  BY <4>1, <3>2, <2>5, <2>6
    <3>. QED  BY <3>1, <3>2
  <2>. QED  BY <2>1, <2>6, <2>7, <1>1, <1>2 DEF RotationsCopied
<1>8. CoefficientsCopied'
  BY <1>1 DEF CoefficientsCopied
<1>. QED  BY <1>2, <1>3, <1>4, <1>5, <1>6, <1>7, <1>8 DEF IInv

LEMMA StepReleaseRotations == IInv /\ ReleaseRotations => IInv'
<1>. SUFFICES ASSUME IInv, ReleaseRotations PROVE IInv'
  OBVIOUS
<1>1. /\ pc = "rotations" /\ pc' = "opacities" /\ g = count
      /\ UNCHANGED <<call, local, g, k, layer, outLayer>>
      /\ cloud' = [a \in Array |-> IF a \in {"rotations"} THEN Empty ELSE cloud[a]]
  BY DEF ReleaseRotations, Release
<1>2. Gated' /\ Valid /\ UNCHANGED <<count, per>>
  BY <1>1, GatedKept DEF Copying
<1>3. (Authored /\ HandedOver)'
  BY <1>1, AuthoredKept DEF Copying
<1>4. Shapes'
  BY <1>1 DEF IInv, Shapes, Copying
<1>5. Unreleased'
  BY <1>1 DEF IInv, Unreleased, Untouched, Opening, Copying, Array, Column
<1>6. local["rotations"] = Whole("rotations", count)
  BY <1>1 DEF IInv, RotationsCopied, Whole
<1>7. Taken'
  BY <1>1, <1>2, <1>6 DEF IInv, Taken, Copying
<1>8. (RotationsCopied /\ CoefficientsCopied)'
  BY <1>1 DEF RotationsCopied, CoefficientsCopied
<1>. QED  BY <1>2, <1>3, <1>4, <1>5, <1>7, <1>8 DEF IInv

LEMMA StepTakeOpacities == IInv /\ TakeOpacities => IInv'
<1>. SUFFICES ASSUME IInv, TakeOpacities PROVE IInv'
  OBVIOUS
<1>1. /\ pc = "opacities" /\ pc' = "required"
      /\ UNCHANGED <<call, g, k, layer, outLayer>>
      /\ local' = [local EXCEPT !["opacities"] =
                     [e \in 0 .. count - 1 |-> cloud["opacities"][e]]]
      /\ cloud' = [a \in Array |-> IF a \in {"opacities"} THEN Empty ELSE cloud[a]]
  BY DEF TakeOpacities, Release
<1>2. Gated' /\ Valid /\ UNCHANGED <<count, per>>
  BY <1>1, GatedKept DEF Copying
<1>3. (Authored /\ HandedOver)'
  BY <1>1, AuthoredKept DEF Copying
<1>4. cloud["opacities"] = Whole("opacities", count)
  BY <1>1, <1>2, ValidFacts DEF IInv, Shapes, Unreleased, Untouched, Column
<1>5. Shapes'
  BY <1>1 DEF IInv, Shapes, Copying
<1>6. Unreleased'
  BY <1>1 DEF IInv, Unreleased, Untouched, Opening, Copying, Array, Column
<1>7. Taken'
  <2>1. local'["opacities"] = Whole("opacities", count)
    BY <1>1, <1>4 DEF IInv, Shapes, VtArray, Whole
  <2>. QED  BY <2>1, <1>1, <1>2 DEF IInv, Shapes, Taken, Copying, VtArray
<1>8. (RotationsCopied /\ CoefficientsCopied)'
  BY <1>1 DEF RotationsCopied, CoefficientsCopied
<1>. QED  BY <1>2, <1>3, <1>5, <1>6, <1>7, <1>8 DEF IInv

LEMMA StepAuthorRequired == IInv /\ AuthorRequired => IInv'
<1>. SUFFICES ASSUME IInv, AuthorRequired PROVE IInv'
  OBVIOUS
<1>1. pc = "required" /\ UNCHANGED <<call, cloud, local, g, k, outLayer>>
  BY DEF AuthorRequired
<1>2. PICK n \in 0 .. 4 :
        /\ Author([a \in {Required[m] : m \in 1 .. n} |-> local[a]])
        /\ IF n = 4 THEN pc' = "sizeCoefficients" /\ UNCHANGED error
                    ELSE Fail("attributeAuthoringFailed")
  BY DEF AuthorRequired
<1>3. CASE n # 4
  <2>1. pc' = "failed"
    BY <1>2, <1>3 DEF Fail
  <2>2. Shapes'
    BY <1>1, <2>1 DEF IInv, Shapes
  <2>. QED  BY <1>1, <2>1, <2>2, StepEnds
<1>4. CASE n = 4
  <2>1. pc' = "sizeCoefficients"
    BY <1>2, <1>4
  <2>2. Gated' /\ Valid /\ UNCHANGED <<count, per>>
    BY <1>1, <2>1, GatedKept DEF Copying
  <2>3. Shapes'
    BY <1>1, <2>1 DEF IInv, Shapes, Copying
  <2>4. Unreleased'
    BY <1>1, <2>1 DEF IInv, Unreleased, Untouched, Opening, Copying
  <2>5. Taken'
    BY <1>1, <2>1, <2>2 DEF IInv, Taken, Copying
  <2>6. (RotationsCopied /\ CoefficientsCopied)'
    BY <2>1 DEF RotationsCopied, CoefficientsCopied
  <2>7. Authored'
    <3>. DEFINE values == [a \in {Required[m] : m \in 1 .. n} |-> local[a]]
    <3>1. DOMAIN values = Columns
      BY <1>4 DEF Required, Columns
    <3>2. \A a \in Columns : values[a] = Whole(a, count)
      BY <1>1, <3>1 DEF IInv, Taken, Copying, Columns
    <3>3. Author(values)
      BY <1>2
    <3>4. DOMAIN layer = Scaffold /\ HoldsScaffold
      BY <1>1 DEF IInv, Authored, Copying
    <3>. HIDE DEF values
    <3>5. DOMAIN layer' = Scaffold \cup Columns /\ HoldsColumns'
      BY <3>1, <3>2, <3>3, <3>4, <2>2, AuthorKeeps DEF HoldsColumns
    <3>6. HoldsScaffold'
      BY <3>1, <3>3, <3>4, <2>2, <1>1, AuthorKeeps
      DEF HoldsScaffold, Scaffold, Columns
    <3>. QED  BY <2>1, <3>5, <3>6 DEF Authored, Opening, Closing
  <2>8. HandedOver'
    BY <1>1, <2>1 DEF IInv, HandedOver
  <2>. QED  BY <2>2, <2>3, <2>4, <2>5, <2>6, <2>7, <2>8 DEF IInv
<1>. QED  BY <1>3, <1>4

LEMMA StepSizeCoefficients == IInv /\ SizeCoefficients => IInv'
<1>. SUFFICES ASSUME IInv, SizeCoefficients PROVE IInv'
  OBVIOUS
<1>1. /\ pc = "sizeCoefficients" /\ pc' = "dc" /\ g' = 0
      /\ UNCHANGED <<call, cloud, k, layer, outLayer>>
      /\ local' = [local EXCEPT !["coefficients"] =
                     Sized(count * CoefficientsPerGaussian(call.shDegree))]
  BY DEF SizeCoefficients
<1>2. Gated' /\ Valid /\ UNCHANGED <<count, per>>
  BY <1>1, GatedKept DEF Copying
<1>3. (Authored /\ HandedOver)'
  BY <1>1, AuthoredKept DEF Copying
<1>4. Shapes'
  BY <1>1 DEF IInv, Shapes, Copying
<1>5. Unreleased'
  BY <1>1 DEF IInv, Unreleased, Untouched, Opening, Copying
<1>6. Taken'
  BY <1>1, <1>2 DEF IInv, Shapes, Taken, Copying, VtArray
<1>7. RotationsCopied'
  BY <1>1 DEF RotationsCopied
<1>8. CoefficientsCopied'
  <2>1. count \in Nat /\ local'["coefficients"] = Sized(count * (per + 1))
    BY <1>1, <1>2, ValidFacts DEF IInv, Shapes, VtArray
  <2>. QED  BY <2>1, <1>1, <1>2 DEF CoefficientsCopied, AllFilled, Sized
<1>. QED  BY <1>2, <1>3, <1>4, <1>5, <1>6, <1>7, <1>8 DEF IInv

LEMMA StepCopyDc == IInv /\ CopyDc => IInv'
<1>. SUFFICES ASSUME IInv, CopyDc PROVE IInv'
  OBVIOUS
<1>1. /\ pc = "dc" /\ pc' = "rest" /\ g < count /\ g' = g /\ k' = 0
      /\ UNCHANGED <<call, cloud, layer, outLayer>>
      /\ local' = [local EXCEPT !["coefficients"] =
                     [local["coefficients"] EXCEPT ![DcAt(g)] = cloud["dcCoefficients"][g]]]
  BY DEF CopyDc, DcAt
<1>2. Gated' /\ Valid /\ UNCHANGED <<count, per>>
  BY <1>1, GatedKept DEF Copying
<1>3. (Authored /\ HandedOver)'
  BY <1>1, AuthoredKept DEF Copying
<1>4. Shapes'
  BY <1>1 DEF IInv, Shapes, Copying
<1>5. Unreleased'
  BY <1>1 DEF IInv, Unreleased, Untouched, Opening, Copying
<1>6. Taken'
  BY <1>1, <1>2 DEF IInv, Shapes, Taken, Copying, VtArray
<1>7. RotationsCopied'
  BY <1>1 DEF RotationsCopied
<1>8. CoefficientsCopied'
  <2>1. count \in Nat /\ per \in Nat /\ g \in Nat /\ g \in 0 .. count - 1
    BY <1>1, <1>2, ValidFacts DEF IInv, Shapes
  <2>2. cloud["dcCoefficients"] = Whole("dcCoefficients", count)
    BY <1>1, <1>2, ValidFacts DEF IInv, Shapes, Unreleased, Untouched, Copying, Column
  <2>3. cloud["dcCoefficients"][g] = <<"dcCoefficients", g>>
    BY <2>1, <2>2 DEF Whole
  <2>4. local'["coefficients"]
          = [local["coefficients"] EXCEPT ![DcAt(g)] = <<"dcCoefficients", g>>]
    BY <1>1, <2>3 DEF IInv, Shapes, VtArray
  <2>5. /\ local["coefficients"]
             = [e \in 0 .. count * (per + 1) - 1 |-> local["coefficients"][e]]
        /\ \A h \in 0 .. g - 1 : Filled(local["coefficients"], h, per)
    BY <1>1 DEF IInv, CoefficientsCopied, AllFilled, PartFilled
  <2>6. DcAt(g) \in 0 .. count * (per + 1) - 1
    BY <2>1, <1>1, Places
  <2>7. /\ local'["coefficients"]
             = [e \in 0 .. count * (per + 1) - 1 |-> local'["coefficients"][e]]
        /\ local'["coefficients"][DcAt(g)] = <<"dcCoefficients", g>>
        /\ \A e \in 0 .. count * (per + 1) - 1 : e # DcAt(g) =>
             local'["coefficients"][e] = local["coefficients"][e]
    BY <2>4, <2>5, <2>6, Update, Zenon
  <2>8. \A h \in 0 .. g - 1 : Filled(local'["coefficients"], h, per)
    <3>. SUFFICES ASSUME NEW h \in 0 .. g - 1
                  PROVE  Filled(local'["coefficients"], h, per)
      OBVIOUS
    <3>1. h \in Nat /\ h < count /\ h # g
      BY <2>1
    <3>2. local'["coefficients"][DcAt(h)] = <<"dcCoefficients", h>>
      <4>1. DcAt(h) \in 0 .. count * (per + 1) - 1 /\ DcAt(h) # DcAt(g)
        BY <3>1, <2>1, Places, PlacesDiffer
      <4>. QED  BY <4>1, <2>5, <2>7 DEF Filled
    <3>3. ASSUME NEW d \in 0 .. per - 1
          PROVE  local'["coefficients"][RestAt(h, d)] = <<"restCoefficients", h * per + d>>
      <4>0. d \in Nat /\ d < per
        BY <2>1
      <4>1. RestAt(h, d) \in 0 .. count * (per + 1) - 1 /\ RestAt(h, d) # DcAt(g)
        BY <3>1, <2>1, <4>0, Places, PlacesDiffer
      <4>. QED  BY <4>1, <2>5, <2>7 DEF Filled
    <3>. QED  BY <3>2, <3>3 DEF Filled
  <2>9. Filled(local'["coefficients"], g, 0)
    BY <2>7 DEF Filled
  <2>10. AllFilled' /\ PartFilled'
    BY <2>8, <2>9, <1>1, <1>2, CallKept DEF Filled, AllFilled, PartFilled
  <2>. QED  BY <2>1, <2>7, <2>10, <1>1, <1>2 DEF CoefficientsCopied
<1>. QED  BY <1>2, <1>3, <1>4, <1>5, <1>6, <1>7, <1>8 DEF IInv

LEMMA StepCopyRest == IInv /\ CopyRest => IInv'
<1>. SUFFICES ASSUME IInv, CopyRest PROVE IInv'
  OBVIOUS
<1>1. /\ pc = "rest" /\ pc' = "rest" /\ k < per /\ g' = g /\ k' = k + 1
      /\ UNCHANGED <<call, cloud, layer, outLayer>>
      /\ local' = [local EXCEPT !["coefficients"] =
                     [local["coefficients"] EXCEPT ![RestAt(g, k)] =
                        cloud["restCoefficients"][g * per + k]]]
  BY DEF CopyRest, RestAt
<1>2. Gated' /\ Valid /\ UNCHANGED <<count, per>>
  BY <1>1, GatedKept DEF Copying
<1>3. (Authored /\ HandedOver)'
  BY <1>1, AuthoredKept DEF Copying
<1>0. g < count /\ count \in Nat /\ per \in Nat /\ g \in Nat /\ k \in Nat
  BY <1>1, <1>2, ValidFacts DEF IInv, Shapes, CoefficientsCopied
<1>4. Shapes'
  <2>1. k' \in Nat
    BY <1>0, <1>1
  <2>2. local' = [a \in VtArray |-> local'[a]]
    BY <1>1 DEF IInv, Shapes
  <2>. QED  BY <1>1, <2>1, <2>2 DEF IInv, Shapes
<1>5. Unreleased'
  BY <1>1 DEF IInv, Unreleased, Untouched, Opening, Copying
<1>6. Taken'
  BY <1>1, <1>2 DEF IInv, Shapes, Taken, Copying, VtArray
<1>7. RotationsCopied'
  BY <1>1 DEF RotationsCopied
<1>8. CoefficientsCopied'
  <2>1. cloud["restCoefficients"] = Whole("restCoefficients", count * per)
    BY <1>1, <1>2, ValidFacts DEF IInv, Shapes, Unreleased, Untouched, Copying
  <2>2. /\ RestAt(g, k) \in 0 .. count * (per + 1) - 1
        /\ g * per + k \in 0 .. count * per - 1
    BY <1>0, <1>1, Places
  <2>3. cloud["restCoefficients"][g * per + k] = <<"restCoefficients", g * per + k>>
    BY <2>1, <2>2 DEF Whole
  <2>4. local'["coefficients"]
          = [local["coefficients"] EXCEPT ![RestAt(g, k)] = <<"restCoefficients", g * per + k>>]
    BY <1>1, <2>3 DEF IInv, Shapes, VtArray
  <2>5. /\ local["coefficients"]
             = [e \in 0 .. count * (per + 1) - 1 |-> local["coefficients"][e]]
        /\ \A h \in 0 .. g - 1 : Filled(local["coefficients"], h, per)
        /\ Filled(local["coefficients"], g, k)
    BY <1>1 DEF IInv, CoefficientsCopied, AllFilled, PartFilled
  <2>7. /\ local'["coefficients"]
             = [e \in 0 .. count * (per + 1) - 1 |-> local'["coefficients"][e]]
        /\ local'["coefficients"][RestAt(g, k)] = <<"restCoefficients", g * per + k>>
        /\ \A e \in 0 .. count * (per + 1) - 1 : e # RestAt(g, k) =>
             local'["coefficients"][e] = local["coefficients"][e]
    BY <2>2, <2>4, <2>5, Update, Zenon
  <2>8. ASSUME NEW h \in Nat, NEW n \in Nat, h <= g, n <= per, h = g => n = k,
               Filled(local["coefficients"], h, n)
        PROVE  Filled(local'["coefficients"], h, n)
    <3>1. h < count
      BY <2>8, <1>0
    <3>2. local'["coefficients"][DcAt(h)] = <<"dcCoefficients", h>>
      <4>1. DcAt(h) \in 0 .. count * (per + 1) - 1 /\ DcAt(h) # RestAt(g, k)
        BY <3>1, <1>0, <1>1, Places, PlacesDiffer
      <4>. QED  BY <4>1, <2>8, <2>7 DEF Filled
    <3>3. ASSUME NEW d \in 0 .. n - 1
          PROVE  local'["coefficients"][RestAt(h, d)] = <<"restCoefficients", h * per + d>>
      <4>0. d \in Nat /\ d < per /\ (h = g => d # k)
        BY <1>0, <2>8
      <4>1. RestAt(h, d) \in 0 .. count * (per + 1) - 1
        BY <3>1, <1>0, <4>0, Places
      <4>2. RestAt(h, d) # RestAt(g, k)
        BY <1>0, <1>1, <4>0, PlacesDiffer
      <4>. QED  BY <4>1, <4>2, <2>8, <2>7 DEF Filled
    <3>. QED  BY <3>2, <3>3 DEF Filled
  <2>9. \A h \in 0 .. g - 1 : Filled(local'["coefficients"], h, per)
    <3>. SUFFICES ASSUME NEW h \in 0 .. g - 1
                  PROVE  Filled(local'["coefficients"], h, per)
      OBVIOUS
    <3>1. h \in Nat /\ h <= g /\ h # g /\ per <= per
      BY <1>0
    <3>. QED  BY <3>1, <2>5, <2>8, <1>0
  <2>10. Filled(local'["coefficients"], g, k + 1)
    <3>1. Filled(local'["coefficients"], g, k)
      BY <2>5, <2>8, <1>0, <1>1
    <3>2. \A d \in 0 .. (k + 1) - 1 : d \in 0 .. k - 1 \/ d = k
      BY <1>0
    <3>. QED  BY <3>1, <3>2, <2>7 DEF Filled
  <2>11. AllFilled' /\ PartFilled'
    BY <2>9, <2>10, <1>1, <1>2, CallKept DEF Filled, AllFilled, PartFilled
  <2>. QED  BY <2>7, <2>11, <1>0, <1>1, <1>2 DEF CoefficientsCopied
<1>. QED  BY <1>2, <1>3, <1>4, <1>5, <1>6, <1>7, <1>8 DEF IInv

LEMMA StepNextGaussian == IInv /\ NextGaussian => IInv'
<1>. SUFFICES ASSUME IInv, NextGaussian PROVE IInv'
  OBVIOUS
<1>1. /\ pc = "rest" /\ pc' = "dc" /\ k = per /\ g' = g + 1
      /\ UNCHANGED <<call, cloud, local, k, layer, outLayer>>
  BY DEF NextGaussian
<1>2. Gated' /\ Valid /\ UNCHANGED <<count, per>>
  BY <1>1, GatedKept DEF Copying
<1>3. (Authored /\ HandedOver)'
  BY <1>1, AuthoredKept DEF Copying
<1>4. g \in Nat /\ g' \in Nat /\ count \in Nat
  BY <1>1, <1>2, ValidFacts DEF IInv, Shapes
<1>5. Shapes'
  BY <1>1, <1>4 DEF IInv, Shapes, Copying
<1>6. (Unreleased /\ Taken /\ RotationsCopied)'
  BY <1>1, <1>2 DEF IInv, Unreleased, Untouched, Taken, RotationsCopied, Opening, Copying
<1>7. CoefficientsCopied'
  <2>1. /\ g < count
        /\ local["coefficients"]
             = [e \in 0 .. count * (per + 1) - 1 |-> local["coefficients"][e]]
        /\ \A h \in 0 .. g - 1 : Filled(local["coefficients"], h, per)
        /\ Filled(local["coefficients"], g, per)
    BY <1>1 DEF IInv, CoefficientsCopied, AllFilled, PartFilled
  <2>2. \A h \in 0 .. g' - 1 : h \in 0 .. g - 1 \/ h = g
    BY <1>1, <1>4
  <2>3. \A h \in 0 .. g' - 1 : Filled(local["coefficients"], h, per)
    BY <2>1, <2>2
  <2>4. AllFilled'
    BY <2>3, <1>1, <1>2, CallKept DEF Filled, AllFilled, PartFilled
  <2>. QED  BY <2>1, <2>4, <1>1, <1>2, <1>4 DEF CoefficientsCopied
<1>. QED  BY <1>2, <1>3, <1>5, <1>6, <1>7 DEF IInv

LEMMA StepAuthorCoefficients == IInv /\ AuthorCoefficients => IInv'
<1>. SUFFICES ASSUME IInv, AuthorCoefficients PROVE IInv'
  OBVIOUS
<1>1. /\ pc = "dc" /\ g = count /\ UNCHANGED <<call, local, g, k, outLayer>>
      /\ cloud' = [a \in Array |-> IF a \in {"dcCoefficients", "restCoefficients"}
                                   THEN Empty ELSE cloud[a]]
  BY DEF AuthorCoefficients, Release
<1>2. CASE pc' = "extent" /\ Author([coefficients |-> local["coefficients"]])
  <2>2. Gated' /\ Valid /\ UNCHANGED <<count, per>>
    BY <1>1, <1>2, GatedKept DEF Copying
  <2>3. Shapes'
    BY <1>1, <1>2 DEF IInv, Shapes, Copying
  <2>4. Unreleased'
    BY <1>2 DEF Unreleased, Opening, Copying
  <2>5. Taken'
    BY <1>1, <1>2, <2>2 DEF IInv, Taken, Copying
  <2>6. (RotationsCopied /\ CoefficientsCopied)'
    BY <1>2 DEF RotationsCopied, CoefficientsCopied
  <2>7. Authored'
    <3>. DEFINE values == [coefficients |-> local["coefficients"]]
    <3>1. DOMAIN values = {"coefficients"} /\ values["coefficients"] = local["coefficients"]
      OBVIOUS
    <3>2. Author(values)
      BY <1>2
    <3>3. DOMAIN layer = Scaffold \cup Columns /\ HoldsScaffold /\ HoldsColumns
      BY <1>1 DEF IInv, Authored, Copying
    <3>4. Interleaved(local["coefficients"])
      <4>1. count \in Nat /\ per \in Nat
        BY <2>2, ValidFacts DEF IInv, Shapes
      <4>2. /\ DOMAIN local["coefficients"] = 0 .. count * (per + 1) - 1
            /\ \A h \in 0 .. count - 1 : Filled(local["coefficients"], h, per)
        BY <1>1, <4>1 DEF IInv, CoefficientsCopied, AllFilled
      <4>. QED  BY <4>2, InterleavedIsFilled
    <3>. HIDE DEF values
    <3>5. /\ DOMAIN layer' = Scaffold \cup Columns \cup {"coefficients"}
          /\ layer'["coefficients"] = local["coefficients"]
      BY <3>1, <3>2, <3>3, AuthorKeeps
    <3>6. HoldsScaffold' /\ HoldsColumns'
      BY <3>1, <3>2, <3>3, <2>2, <1>1, AuthorKeeps
      DEF HoldsScaffold, HoldsColumns, Scaffold, Columns
    <3>7. (Interleaved(layer["coefficients"]))'
      BY <3>4, <3>5, <2>2 DEF Interleaved
    <3>. QED  BY <1>2, <3>5, <3>6, <3>7 DEF Authored, Opening, Closing
  <2>8. HandedOver'
    BY <1>1, <1>2 DEF IInv, HandedOver
  <2>. QED  BY <2>2, <2>3, <2>4, <2>5, <2>6, <2>7, <2>8 DEF IInv
<1>3. CASE pc' = "failed"
  <2>1. Shapes'
    BY <1>1, <1>3 DEF IInv, Shapes
  <2>. QED  BY <1>1, <1>3, <2>1, StepEnds
<1>. QED  BY <1>2, <1>3 DEF AuthorCoefficients, Fail

LEMMA StepAuthorExtent == IInv /\ AuthorExtent => IInv'
<1>. SUFFICES ASSUME IInv, AuthorExtent PROVE IInv'
  OBVIOUS
<1>1. pc = "extent" /\ UNCHANGED <<call, cloud, local, g, k, outLayer>>
  BY DEF AuthorExtent
<1>2. CASE pc' = "publish" /\ Author([extent |-> AuthoredExtent])
  <2>1. ~call.metadataOnly
    BY <1>1 DEF IInv, Gated, Copying
  <2>2. Gated' /\ Valid /\ UNCHANGED <<count, per>>
    BY <1>1, <1>2, GatedKept DEF Copying
  <2>3. Shapes'
    BY <1>1, <1>2 DEF IInv, Shapes, Closing
  <2>4. (Unreleased /\ Taken /\ RotationsCopied /\ CoefficientsCopied)'
    BY <1>2 DEF Unreleased, Taken, RotationsCopied, CoefficientsCopied, Opening, Copying
  <2>5. Authored'
    <3>. DEFINE values == [extent |-> AuthoredExtent]
    <3>1. DOMAIN values = {"extent"}
      OBVIOUS
    <3>2. Author(values)
      BY <1>2
    <3>3. /\ DOMAIN layer = Scaffold \cup Columns \cup {"coefficients"}
          /\ HoldsScaffold /\ HoldsColumns /\ Interleaved(layer["coefficients"])
      BY <1>1 DEF IInv, Authored, Copying
    <3>. HIDE DEF values
    <3>4. /\ DOMAIN layer' = FullAttr
          /\ layer'["coefficients"] = layer["coefficients"]
      BY <3>1, <3>2, <3>3, AuthorKeeps DEF FullAttr, Scaffold, Columns
    <3>5. HoldsScaffold' /\ HoldsColumns'
      BY <3>1, <3>2, <3>3, <2>2, <1>1, AuthorKeeps
      DEF HoldsScaffold, HoldsColumns, Scaffold, Columns
    <3>6. (Interleaved(layer["coefficients"]))'
      BY <3>3, <3>4, <2>2 DEF Interleaved
    <3>. QED  BY <1>1, <1>2, <2>1, <3>4, <3>5, <3>6 DEF Authored, Opening, Copying
  <2>6. HandedOver'
    BY <1>1, <1>2 DEF IInv, HandedOver
  <2>. QED  BY <2>2, <2>3, <2>4, <2>5, <2>6 DEF IInv
<1>3. CASE pc' = "failed"
  <2>1. Shapes'
    BY <1>1, <1>3 DEF IInv, Shapes
  <2>. QED  BY <1>1, <1>3, <2>1, StepEnds
<1>. QED  BY <1>2, <1>3 DEF AuthorExtent, Fail

LEMMA StepPublish == IInv /\ Publish => IInv'
<1>. SUFFICES ASSUME IInv, Publish PROVE IInv'
  OBVIOUS
<1>1. /\ pc = "publish" /\ pc' = "done" /\ outLayer' = layer
      /\ UNCHANGED <<call, cloud, local, g, k, layer>>
  BY DEF Publish
<1>2. UNCHANGED <<count, per>> /\ (Valid' <=> Valid)
  BY <1>1, CallKept
<1>3. Shapes'
  BY <1>1 DEF IInv, Shapes, Closing
<1>4. Gated'
  BY <1>1, <1>2 DEF IInv, Gated, Copying, Closing
<1>5. (Unreleased /\ Taken /\ RotationsCopied /\ CoefficientsCopied)'
  BY <1>1 DEF Unreleased, Taken, RotationsCopied, CoefficientsCopied, Opening, Copying
<1>6. UNCHANGED HoldsScaffold /\ UNCHANGED HoldsColumns
      /\ (Interleaved(layer["coefficients"]))' = Interleaved(layer["coefficients"])
  BY <1>1, <1>2 DEF HoldsScaffold, HoldsColumns, Interleaved
<1>7. Authored'
  BY <1>1, <1>6 DEF IInv, Authored, Opening, Copying, Closing
<1>8. HandedOver'
  BY <1>1 DEF HandedOver
<1>. QED  BY <1>3, <1>4, <1>5, <1>7, <1>8 DEF IInv

(* ---- The theorems ------------------------------------------------------ *)

(* Every step of the writer keeps the invariant, whichever USD call or     *)
(* allocation fails (GaussianLayerWriter.cpp:146-219).                     *)
THEOREM Invariance == Spec => []IInv
<1>1. IInv /\ [Next]_vars => IInv'
  <2>. SUFFICES ASSUME IInv, [Next]_vars PROVE IInv'
    OBVIOUS
  <2>1. CASE CheckArguments  BY <2>1, StepCheckArguments
  <2>2. CASE AuthorScaffold  BY <2>2, StepAuthorScaffold
  <2>3. CASE TakePositions  BY <2>3, StepTakePositions
  <2>4. CASE TakeScales  BY <2>4, StepTakeScales
  <2>5. CASE SizeRotations  BY <2>5, StepSizeRotations
  <2>6. CASE CopyRotation  BY <2>6, StepCopyRotation
  <2>7. CASE ReleaseRotations  BY <2>7, StepReleaseRotations
  <2>8. CASE TakeOpacities  BY <2>8, StepTakeOpacities
  <2>9. CASE AuthorRequired  BY <2>9, StepAuthorRequired
  <2>10. CASE SizeCoefficients  BY <2>10, StepSizeCoefficients
  <2>11. CASE CopyDc  BY <2>11, StepCopyDc
  <2>12. CASE CopyRest  BY <2>12, StepCopyRest
  <2>13. CASE NextGaussian  BY <2>13, StepNextGaussian
  <2>14. CASE AuthorCoefficients  BY <2>14, StepAuthorCoefficients
  <2>15. CASE AuthorExtent  BY <2>15, StepAuthorExtent
  <2>16. CASE Publish  BY <2>16, StepPublish
  <2>17. CASE Throw  BY <2>17, StepThrow
  <2>18. CASE UNCHANGED vars  BY <2>18, StutterInv
  <2>. QED
    BY <2>1, <2>2, <2>3, <2>4, <2>5, <2>6, <2>7, <2>8, <2>9, <2>10, <2>11, <2>12,
       <2>13, <2>14, <2>15, <2>16, <2>17, <2>18 DEF Next
<1>. QED  BY InitInv, <1>1, PTL DEF Spec

(* The writer never reads past an array's end or from one it has released, *)
(* for every cloud: that its lengths agree is what the gate has checked    *)
(* (GaussianLayerWriter.cpp:153-164,181-190,208).                          *)
THEOREM ReadsAreInBounds == Spec => []ReadsInBounds
<1>1. IInv => ReadsInBounds
  <2>. SUFFICES ASSUME IInv PROVE ReadsInBounds
    OBVIOUS
  <2>. DEFINE Reading == pc \in Copying
  <2>1. ASSUME Reading
        PROVE  /\ count \in Nat /\ per \in Nat /\ g \in Nat /\ k \in Nat
               /\ \A a \in Column : Whole(a, call.length[a]) = Whole(a, count)
               /\ Whole("restCoefficients", call.length["restCoefficients"])
                    = Whole("restCoefficients", count * per)
    BY <2>1, ValidFacts DEF IInv, Shapes, Gated
  <2>2. \A a, n : DOMAIN Whole(a, n) = 0 .. n - 1
    BY DEF Whole
  <2>3. pc = "rotations" /\ g < count => g \in DOMAIN cloud["rotations"]
    BY <2>1, <2>2 DEF IInv, Unreleased, Untouched, Copying, Column
  <2>4. pc = "opacities" => 0 .. count - 1 \subseteq DOMAIN cloud["opacities"]
    BY <2>1, <2>2 DEF IInv, Unreleased, Untouched, Copying, Column
  <2>5. pc = "dc" /\ g < count => g \in DOMAIN cloud["dcCoefficients"]
    BY <2>1, <2>2 DEF IInv, Unreleased, Untouched, Copying, Column
  <2>6. pc = "rest" /\ k < per => g * per + k \in DOMAIN cloud["restCoefficients"]
    <3>. SUFFICES ASSUME pc = "rest", k < per
                  PROVE  g * per + k \in DOMAIN cloud["restCoefficients"]
      OBVIOUS
    <3>1. g < count
      BY DEF IInv, CoefficientsCopied
    <3>2. g * per + k \in 0 .. count * per - 1
      BY <2>1, <3>1, StrideBound DEF Copying
    <3>3. cloud["restCoefficients"] = Whole("restCoefficients", count * per)
      BY <2>1 DEF IInv, Unreleased, Untouched, Copying
    <3>. QED  BY <3>2, <3>3, <2>2
  <2>7. pc = "extent" => /\ DOMAIN local["positions"] = 0 .. count - 1
                         /\ DOMAIN local["scales"] = 0 .. count - 1
    BY <2>2 DEF IInv, Taken, Copying
  <2>. QED  BY <2>3, <2>4, <2>5, <2>6, <2>7 DEF ReadsInBounds
<1>. QED  BY Invariance, <1>1, PTL

(* What is published is the whole cloud, its coefficients interleaved, and *)
(* nothing is published of a call that fails, for every cloud              *)
(* (GaussianLayerWriter.cpp:146-219).                                      *)
THEOREM LayersAreComplete == Spec => []PublishedComplete
<1>1. IInv => PublishedComplete
  <2>. SUFFICES ASSUME IInv PROVE PublishedComplete
    OBVIOUS
  <2>1. pc # "done" => outLayer = NoLayer
    BY DEF IInv, HandedOver
  <2>. SUFFICES ASSUME pc = "done" PROVE PublishedComplete
    BY <2>1 DEF PublishedComplete
  <2>2. outLayer = layer /\ HoldsScaffold
    BY DEF IInv, HandedOver, Authored, Closing
  <2>3. DOMAIN outLayer = IF call.metadataOnly THEN {"gaussianCount", "shDegree"}
                          ELSE FullAttr
    BY <2>2 DEF IInv, Authored, Closing, Scaffold
  <2>4. outLayer # NoLayer
    <3>1. DOMAIN outLayer # {} /\ DOMAIN NoLayer = {}
      BY <2>3 DEF NoLayer, FullAttr
    <3>. QED  BY <3>1
  <2>5. outLayer.gaussianCount = count /\ outLayer.shDegree = call.shDegree
    BY <2>2 DEF HoldsScaffold
  <2>6. ASSUME ~call.metadataOnly
        PROVE  /\ \A m \in 1 .. 4 : outLayer[Required[m]] = Whole(Required[m], count)
               /\ Interleaved(outLayer.coefficients)
    <3>1. HoldsColumns /\ Interleaved(layer["coefficients"])
      BY <2>6 DEF IInv, Authored, Closing
    <3>2. \A m \in 1 .. 4 : Required[m] \in Columns
      BY DEF Required, Columns
    <3>. QED  BY <2>2, <3>1, <3>2 DEF HoldsColumns
  <2>. QED  BY <2>3, <2>4, <2>5, <2>6 DEF PublishedComplete
<1>. QED  BY Invariance, <1>1, PTL

(* ---- What is held at a time -------------------------------------------- *)

(* An array holds nothing once it is released, a Vt array nothing before   *)
(* it is filled.                                                           *)
Released(a) == DOMAIN cloud[a] = {}
Unfilled(a) == DOMAIN local[a] = {}
Storage ==
  /\ pc \in (Copying \ {"positions"}) \cup {"publish"} => Released("positions")
  /\ pc \in (Copying \ {"positions", "scales"}) \cup {"publish"} => Released("scales")
  /\ pc \in {"opacities", "required", "sizeCoefficients", "dc", "rest", "extent",
             "publish"} => Released("rotations")
  /\ pc \in {"required", "sizeCoefficients", "dc", "rest", "extent", "publish"} =>
       Released("opacities")
  /\ pc \in {"extent", "publish"} =>
       Released("dcCoefficients") /\ Released("restCoefficients")
  /\ pc \in Opening \cup {"positions"} => Unfilled("positions")
  /\ pc \in Opening \cup {"positions", "scales"} => Unfilled("scales")
  /\ pc \in Opening \cup {"positions", "scales", "sizeRotations"} => Unfilled("rotations")
  /\ pc \in Opening \cup {"positions", "scales", "sizeRotations", "rotations",
                          "opacities"} => Unfilled("opacities")
  /\ pc \in Opening \cup (Copying \ {"dc", "rest", "extent"}) => Unfilled("coefficients")
  /\ pc = "extent" => DOMAIN local["coefficients"] = 0 .. count * (per + 1) - 1
  /\ pc = "publish" =>
       IF call.metadataOnly THEN \A a \in VtArray : Unfilled(a)
       ELSE /\ \A a \in Columns : DOMAIN local[a] = 0 .. count - 1
            /\ DOMAIN local["coefficients"] = 0 .. count * (per + 1) - 1

LEMMA NothingIsEmpty == DOMAIN Empty = {}
BY DEF Empty

LEMMA StorageInit == Init => Storage
<1>. SUFFICES ASSUME Init PROVE Storage
  OBVIOUS
<1>1. /\ pc \in {"metadata", "validate"}
      /\ \A a \in VtArray : DOMAIN local[a] = {}
  <2>1. local = [a \in VtArray |-> Empty] /\ DOMAIN Empty = {}
    BY NothingIsEmpty DEF Init
  <2>. HIDE DEF Empty
  <2>. QED  BY <2>1 DEF Init
<1>2. \A a \in {"positions", "scales", "rotations", "opacities", "coefficients"} :
        Unfilled(a)
  BY <1>1 DEF Unfilled, VtArray
<1>. QED  BY <1>1, <1>2 DEF Storage, Copying, Opening

(* A step that leaves the arrays alone and moves to a later phase of the   *)
(* same standing.                                                          *)
LEMMA StorageOpens ==
  ASSUME IInv, Storage, UNCHANGED <<call, cloud, local>>, pc \in Opening,
         pc' \in {"scaffold", "positions"}
  PROVE  Storage'
<1>1. \A a : Unfilled(a)' = Unfilled(a)
  BY DEF Unfilled
<1>. QED  BY <1>1 DEF Storage, Copying, Opening

LEMMA StorageEnds ==
  ASSUME pc' \in {"done", "failed", "threw"}
  PROVE  Storage'
BY DEF Storage, Copying, Opening

LEMMA MetadataHoldsNothing ==
  ASSUME IInv, Storage, pc = "scaffold", call.metadataOnly
  PROVE  /\ \A a \in Array : Released(a)
         /\ \A a \in VtArray : Unfilled(a)
<1>1. \A a \in Array : call.length[a] = 0
  BY CallsAssumption DEF IInv, Shapes, IsCall
<1>2. \A a \in Array : cloud[a] = Whole(a, call.length[a])
  BY DEF IInv, Unreleased, Untouched, Opening, Array, Column
<1>3. \A a \in Array : DOMAIN Whole(a, 0) = {}
  BY DEF Whole
<1>. QED  BY <1>1, <1>2, <1>3 DEF Released, Storage, Opening, VtArray

LEMMA StorageKept == IInv /\ Storage /\ [Next]_vars => Storage'
<1>. SUFFICES ASSUME IInv, Storage, [Next]_vars PROVE Storage'
  OBVIOUS
<1>. USE DEF Released, Unfilled
<1>0. /\ cloud = [a \in Array |-> cloud[a]] /\ local = [a \in VtArray |-> local[a]]
      /\ \A a \in Columns : a \in Array /\ a \in VtArray
      /\ "coefficients" \in VtArray
      /\ "dcCoefficients" \in Array /\ "restCoefficients" \in Array
  BY DEF IInv, Shapes, Columns, Array, Column, VtArray
<1>1. CASE CheckArguments
  BY <1>1, StorageOpens, StorageEnds DEF CheckArguments, Fail, Opening
<1>2. CASE AuthorScaffold
  <2>1. /\ pc = "scaffold" /\ UNCHANGED <<call, cloud, local>>
        /\ \/ pc' = "failed" \/ pc' = "positions"
           \/ call.metadataOnly /\ pc' = "publish"
    BY <1>2 DEF AuthorScaffold, Fail
  <2>2. CASE call.metadataOnly /\ pc' = "publish"
    <3>1. /\ \A a \in Array : DOMAIN cloud'[a] = {}
          /\ \A a \in VtArray : DOMAIN local'[a] = {}
      BY <2>1, <2>2, MetadataHoldsNothing
    <3>. QED  BY <1>0, <2>1, <2>2, <3>1 DEF Storage, Copying, Opening, Columns
  <2>. QED  BY <2>1, <2>2, StorageOpens, StorageEnds DEF Opening
<1>3. CASE TakePositions
  <2>1. /\ pc = "positions" /\ pc' = "scales" /\ call' = call
        /\ local' = [local EXCEPT !["positions"] = cloud["positions"]]
        /\ cloud' = [a \in Array |-> IF a \in {"positions"} THEN Empty ELSE cloud[a]]
    BY <1>3 DEF TakePositions, TakeVec3fArray, Release
  <2>2. DOMAIN cloud'["positions"] = {}
    BY <1>0, <2>1 DEF Empty, Columns
  <2>3. \A a \in VtArray : a # "positions" => local'[a] = local[a]
    BY <1>0, <2>1
  <2>. QED  BY <1>0, <2>1, <2>2, <2>3 DEF Storage, Copying, Opening, Columns
<1>4. CASE TakeScales
  <2>1. /\ pc = "scales" /\ pc' = "sizeRotations" /\ call' = call
        /\ local' = [local EXCEPT !["scales"] = cloud["scales"]]
        /\ cloud' = [a \in Array |-> IF a \in {"scales"} THEN Empty ELSE cloud[a]]
    BY <1>4 DEF TakeScales, TakeVec3fArray, Release
  <2>2. DOMAIN cloud'["scales"] = {} /\ cloud'["positions"] = cloud["positions"]
    BY <1>0, <2>1 DEF Empty, Columns
  <2>3. \A a \in VtArray : a # "scales" => local'[a] = local[a]
    BY <1>0, <2>1
  <2>. QED  BY <1>0, <2>1, <2>2, <2>3 DEF Storage, Copying, Opening, Columns
<1>5. CASE SizeRotations \/ CopyRotation
  <2>1. /\ pc \in {"sizeRotations", "rotations"} /\ pc' = "rotations"
        /\ call' = call /\ cloud' = cloud
        /\ \A a \in VtArray : a # "rotations" => local'[a] = local[a]
    BY <1>0, <1>5 DEF SizeRotations, CopyRotation
  <2>. QED  BY <1>0, <2>1 DEF Storage, Copying, Opening, Columns
<1>6. CASE ReleaseRotations
  <2>1. /\ pc = "rotations" /\ pc' = "opacities" /\ call' = call /\ local' = local
        /\ cloud' = [a \in Array |-> IF a \in {"rotations"} THEN Empty ELSE cloud[a]]
    BY <1>6 DEF ReleaseRotations, Release
  <2>2. /\ DOMAIN cloud'["rotations"] = {} /\ cloud'["positions"] = cloud["positions"]
        /\ cloud'["scales"] = cloud["scales"]
    BY <1>0, <2>1 DEF Empty, Columns
  <2>. QED  BY <2>1, <2>2 DEF Storage, Copying, Opening
<1>7. CASE TakeOpacities
  <2>1. /\ pc = "opacities" /\ pc' = "required" /\ call' = call
        /\ \A a \in VtArray : a # "opacities" => local'[a] = local[a]
        /\ cloud' = [a \in Array |-> IF a \in {"opacities"} THEN Empty ELSE cloud[a]]
    BY <1>0, <1>7 DEF TakeOpacities, Release
  <2>2. /\ DOMAIN cloud'["opacities"] = {} /\ cloud'["positions"] = cloud["positions"]
        /\ cloud'["scales"] = cloud["scales"] /\ cloud'["rotations"] = cloud["rotations"]
    BY <1>0, <2>1 DEF Empty, Columns
  <2>. QED  BY <1>0, <2>1, <2>2 DEF Storage, Copying, Opening
<1>8. CASE AuthorRequired
  <2>1. /\ pc = "required" /\ pc' \in {"sizeCoefficients", "failed"}
        /\ UNCHANGED <<call, cloud, local>>
    BY <1>8 DEF AuthorRequired, Fail
  <2>. QED  BY <2>1 DEF Storage, Copying, Opening
<1>9. CASE SizeCoefficients \/ CopyDc \/ CopyRest \/ NextGaussian
  <2>1. /\ pc \in {"sizeCoefficients", "dc", "rest"} /\ pc' \in {"dc", "rest"}
        /\ call' = call /\ cloud' = cloud
    BY <1>9 DEF SizeCoefficients, CopyDc, CopyRest, NextGaussian
  <2>. QED  BY <2>1 DEF Storage, Copying, Opening
<1>10. CASE AuthorCoefficients
  <2>1. /\ pc = "dc" /\ pc' \in {"extent", "failed"} /\ call' = call /\ local' = local
        /\ cloud' = [a \in Array |-> IF a \in {"dcCoefficients", "restCoefficients"}
                                     THEN Empty ELSE cloud[a]]
    BY <1>10 DEF AuthorCoefficients, Release, Fail
  <2>2. /\ DOMAIN cloud'["dcCoefficients"] = {} /\ DOMAIN cloud'["restCoefficients"] = {}
        /\ \A a \in Columns : cloud'[a] = cloud[a]
    BY <1>0, <2>1 DEF Empty, Columns
  <2>3. DOMAIN local["coefficients"] = 0 .. count * (per + 1) - 1
    BY <2>1 DEF IInv, CoefficientsCopied
  <2>4. count' = count /\ per' = per
    BY <2>1, CallKept
  <2>. QED  BY <2>1, <2>2, <2>3, <2>4 DEF Storage, Copying, Opening, Columns
<1>11. CASE AuthorExtent
  <2>1. /\ pc = "extent" /\ pc' \in {"publish", "failed"}
        /\ UNCHANGED <<call, cloud, local>>
    BY <1>11 DEF AuthorExtent, Fail
  <2>2. /\ \A a \in Columns : DOMAIN local[a] = 0 .. count - 1
        /\ DOMAIN local["coefficients"] = 0 .. count * (per + 1) - 1
        /\ ~call.metadataOnly
    BY <2>1 DEF IInv, Taken, Gated, Copying, Whole, Columns, Storage
  <2>3. count' = count /\ per' = per
    BY <2>1, CallKept
  <2>. QED  BY <2>1, <2>2, <2>3 DEF Storage, Copying, Opening, Columns
<1>12. CASE Publish \/ Throw
  BY <1>12, StorageEnds DEF Publish, Throw
<1>13. CASE UNCHANGED vars
  <2>1. UNCHANGED <<call, pc, cloud, local>>
    BY <1>13 DEF vars
  <2>2. count' = count /\ per' = per
    BY <2>1, CallKept
  <2>. QED  BY <2>1, <2>2 DEF Storage
<1>. QED  BY <1>1, <1>2, <1>3, <1>4, <1>5, <1>6, <1>7, <1>8, <1>9, <1>10, <1>11,
             <1>12, <1>13 DEF Next

(* ---- Counting ---------------------------------------------------------- *)

LEMMA ColumnsAreFive == Cardinality(Column) = 5
<1>. DEFINE a == {"positions"}
            b == a \cup {"scales"}
            c == b \cup {"rotations"}
            d == c \cup {"opacities"}
            e == d \cup {"dcCoefficients"}
<1>1. IsFiniteSet(a) /\ Cardinality(a) = 1
  BY FS_Singleton
<1>2. /\ "scales" \notin a /\ "rotations" \notin b /\ "opacities" \notin c
      /\ "dcCoefficients" \notin d
  OBVIOUS
<1>3. Column = e
  BY DEF Column
<1>. HIDE DEF a, b, c, d, e
<1>4. IsFiniteSet(b) /\ Cardinality(b) = 2
  BY <1>1, <1>2, FS_AddElement DEF b
<1>5. IsFiniteSet(c) /\ Cardinality(c) = 3
  BY <1>2, <1>4, FS_AddElement DEF c
<1>6. IsFiniteSet(d) /\ Cardinality(d) = 4
  BY <1>2, <1>5, FS_AddElement DEF d
<1>7. IsFiniteSet(e) /\ Cardinality(e) = 5
  BY <1>2, <1>6, FS_AddElement DEF e
<1>. QED  BY <1>3, <1>7

(* The elements of one array, tagged with where they are, are as many as   *)
(* its places.                                                             *)
Tagged(tag, a, n) == {<<tag, a, e>> : e \in 0 .. n - 1}

LEMMA TaggedIsBounded ==
  ASSUME NEW tag, NEW a, NEW n \in Nat
  PROVE  IsFiniteSet(Tagged(tag, a, n)) /\ Cardinality(Tagged(tag, a, n)) <= n
<1>. DEFINE S == 0 .. n - 1
            T == Tagged(tag, a, n)
            f == [e \in S |-> <<tag, a, e>>]
<1>1. IsFiniteSet(S) /\ Cardinality(S) = n
  <2>1. 0 \in Int /\ n - 1 \in Int
    OBVIOUS
  <2>2. IsFiniteSet(S) /\ Cardinality(S) = IF 0 > n - 1 THEN 0 ELSE n - 1 - 0 + 1
    BY <2>1, FS_Interval
  <2>. QED  BY <2>2
<1>2. f \in Surjection(S, T)
  BY DEF Surjection, Tagged
<1>. HIDE DEF S, T, f
<1>. QED  BY <1>1, <1>2, FS_Surjection DEF T

LEMMA BoundedUnion ==
  ASSUME NEW S, NEW T, NEW m \in Nat, NEW n \in Nat,
         IsFiniteSet(S), IsFiniteSet(T), Cardinality(S) <= m, Cardinality(T) <= n
  PROVE  IsFiniteSet(S \cup T) /\ Cardinality(S \cup T) <= m + n
<1>1. /\ IsFiniteSet(S \cup T)
      /\ Cardinality(S \cup T) = Cardinality(S) + Cardinality(T) - Cardinality(S \cap T)
  BY FS_Union
<1>2. IsFiniteSet(S \cap T)
  BY FS_Subset
<1>3. Cardinality(S) \in Nat /\ Cardinality(T) \in Nat /\ Cardinality(S \cap T) \in Nat
  BY <1>2, FS_CardinalityType
<1>. QED  BY <1>1, <1>3

LEMMA Sums ==
  \A p, s, r, o, dc, rest, lp, ls, lr, lo \in Nat :
    /\ p + s \in Nat /\ p + s + r \in Nat /\ p + s + r + o \in Nat
    /\ p + s + r + o + dc \in Nat /\ p + s + r + o + dc + rest \in Nat
    /\ p + s + r + o + dc + rest + lp \in Nat
    /\ p + s + r + o + dc + rest + lp + ls \in Nat
    /\ p + s + r + o + dc + rest + lp + ls + lr \in Nat
    /\ p + s + r + o + dc + rest + lp + ls + lr + lo \in Nat
OBVIOUS

LEMMA UnionsAssociate ==
  \A A, b, c, d, e, f :
    A \cup (b \cup c \cup d \cup e \cup f) = A \cup b \cup c \cup d \cup e \cup f
OBVIOUS

(* How many elements each array of the cloud and each Vt array holds.      *)
HasSizes(p, s, r, o, dc, rest, lp, ls, lr, lo, lc) ==
  /\ p \in Nat /\ s \in Nat /\ r \in Nat /\ o \in Nat /\ dc \in Nat /\ rest \in Nat
  /\ lp \in Nat /\ ls \in Nat /\ lr \in Nat /\ lo \in Nat /\ lc \in Nat
  /\ DOMAIN cloud["positions"] = 0 .. p - 1 /\ DOMAIN cloud["scales"] = 0 .. s - 1
  /\ DOMAIN cloud["rotations"] = 0 .. r - 1 /\ DOMAIN cloud["opacities"] = 0 .. o - 1
  /\ DOMAIN cloud["dcCoefficients"] = 0 .. dc - 1
  /\ DOMAIN cloud["restCoefficients"] = 0 .. rest - 1
  /\ DOMAIN local["positions"] = 0 .. lp - 1 /\ DOMAIN local["scales"] = 0 .. ls - 1
  /\ DOMAIN local["rotations"] = 0 .. lr - 1 /\ DOMAIN local["opacities"] = 0 .. lo - 1
  /\ DOMAIN local["coefficients"] = 0 .. lc - 1

(* All that is held is at most the sum of what each array holds.           *)
LEMMA HeldIsSum ==
  \A p, s, r, o, dc, rest, lp, ls, lr, lo, lc :
    HasSizes(p, s, r, o, dc, rest, lp, ls, lr, lo, lc) =>
      /\ Cardinality(Held) \in Nat
      /\ Cardinality(Held) <= p + s + r + o + dc + rest + lp + ls + lr + lo + lc
<1>. SUFFICES ASSUME NEW p, NEW s, NEW r, NEW o, NEW dc, NEW rest,
                     NEW lp, NEW ls, NEW lr, NEW lo, NEW lc,
                     HasSizes(p, s, r, o, dc, rest, lp, ls, lr, lo, lc)
              PROVE  /\ Cardinality(Held) \in Nat
                     /\ Cardinality(Held)
                          <= p + s + r + o + dc + rest + lp + ls + lr + lo + lc
  OBVIOUS
<1>. /\ p \in Nat /\ s \in Nat /\ r \in Nat /\ o \in Nat /\ dc \in Nat /\ rest \in Nat
     /\ lp \in Nat /\ ls \in Nat /\ lr \in Nat /\ lo \in Nat /\ lc \in Nat
  BY DEF HasSizes
<1>. DEFINE u1 == Tagged("cloud", "positions", p)
            u2 == u1 \cup Tagged("cloud", "scales", s)
            u3 == u2 \cup Tagged("cloud", "rotations", r)
            u4 == u3 \cup Tagged("cloud", "opacities", o)
            u5 == u4 \cup Tagged("cloud", "dcCoefficients", dc)
            u6 == u5 \cup Tagged("cloud", "restCoefficients", rest)
            u7 == u6 \cup Tagged("local", "positions", lp)
            u8 == u7 \cup Tagged("local", "scales", ls)
            u9 == u8 \cup Tagged("local", "rotations", lr)
            u10 == u9 \cup Tagged("local", "opacities", lo)
            u11 == u10 \cup Tagged("local", "coefficients", lc)
<1>1. Held = u11
  <2>. DEFINE C(a) == {<<"cloud", a, e>> : e \in DOMAIN cloud[a]}
              L(a) == {<<"local", a, e>> : e \in DOMAIN local[a]}
  <2>1. /\ C("positions") = Tagged("cloud", "positions", p)
        /\ C("scales") = Tagged("cloud", "scales", s)
        /\ C("rotations") = Tagged("cloud", "rotations", r)
        /\ C("opacities") = Tagged("cloud", "opacities", o)
        /\ C("dcCoefficients") = Tagged("cloud", "dcCoefficients", dc)
        /\ C("restCoefficients") = Tagged("cloud", "restCoefficients", rest)
        /\ L("positions") = Tagged("local", "positions", lp)
        /\ L("scales") = Tagged("local", "scales", ls)
        /\ L("rotations") = Tagged("local", "rotations", lr)
        /\ L("opacities") = Tagged("local", "opacities", lo)
        /\ L("coefficients") = Tagged("local", "coefficients", lc)
    BY DEF Tagged, HasSizes
  <2>2. Held = (UNION {C(a) : a \in Array}) \cup (UNION {L(a) : a \in VtArray})
    BY DEF Held
  <2>3. UNION {C(a) : a \in Array}
          = C("positions") \cup C("scales") \cup C("rotations") \cup C("opacities")
              \cup C("dcCoefficients") \cup C("restCoefficients")
    <3>. HIDE DEF C
    <3>. QED  BY DEF Array, Column
  <2>4. UNION {L(a) : a \in VtArray}
          = L("positions") \cup L("scales") \cup L("rotations") \cup L("opacities")
              \cup L("coefficients")
    <3>. HIDE DEF L
    <3>. QED  BY DEF VtArray
  <2>. HIDE DEF C, L
  <2>5. UNION {C(a) : a \in Array} = u6
    BY <2>1, <2>3, Zenon
  <2>6. (UNION {L(a) : a \in VtArray})
          = Tagged("local", "positions", lp) \cup Tagged("local", "scales", ls)
              \cup Tagged("local", "rotations", lr) \cup Tagged("local", "opacities", lo)
              \cup Tagged("local", "coefficients", lc)
    BY <2>1, <2>4, Zenon
  <2>. HIDE DEF u6
  <2>. QED  BY <2>2, <2>5, <2>6, UnionsAssociate, Zenon
<1>2. IsFiniteSet(u1) /\ Cardinality(u1) <= p
  BY TaggedIsBounded
<1>3. IsFiniteSet(u2) /\ Cardinality(u2) <= p + s
  <2>. HIDE DEF u1
  <2>. QED  BY <1>2, TaggedIsBounded, BoundedUnion
<1>4. IsFiniteSet(u3) /\ Cardinality(u3) <= p + s + r
  <2>1. p + s \in Nat
    BY Sums
  <2>. HIDE DEF u2
  <2>. QED  BY <1>3, <2>1, TaggedIsBounded, BoundedUnion
<1>5. IsFiniteSet(u4) /\ Cardinality(u4) <= p + s + r + o
  <2>1. p + s + r \in Nat
    BY Sums
  <2>. HIDE DEF u3
  <2>. QED  BY <1>4, <2>1, TaggedIsBounded, BoundedUnion
<1>6. IsFiniteSet(u5) /\ Cardinality(u5) <= p + s + r + o + dc
  <2>1. p + s + r + o \in Nat
    BY Sums
  <2>. HIDE DEF u4
  <2>. QED  BY <1>5, <2>1, TaggedIsBounded, BoundedUnion
<1>7. IsFiniteSet(u6) /\ Cardinality(u6) <= p + s + r + o + dc + rest
  <2>1. p + s + r + o + dc \in Nat
    BY Sums
  <2>. HIDE DEF u5
  <2>. QED  BY <1>6, <2>1, TaggedIsBounded, BoundedUnion
<1>8. IsFiniteSet(u7) /\ Cardinality(u7) <= p + s + r + o + dc + rest + lp
  <2>1. p + s + r + o + dc + rest \in Nat
    BY Sums
  <2>. HIDE DEF u6
  <2>. QED  BY <1>7, <2>1, TaggedIsBounded, BoundedUnion
<1>9. IsFiniteSet(u8) /\ Cardinality(u8) <= p + s + r + o + dc + rest + lp + ls
  <2>1. p + s + r + o + dc + rest + lp \in Nat
    BY Sums
  <2>. HIDE DEF u7
  <2>. QED  BY <1>8, <2>1, TaggedIsBounded, BoundedUnion
<1>10. IsFiniteSet(u9) /\ Cardinality(u9) <= p + s + r + o + dc + rest + lp + ls + lr
  <2>1. p + s + r + o + dc + rest + lp + ls \in Nat
    BY Sums
  <2>. HIDE DEF u8
  <2>. QED  BY <1>9, <2>1, TaggedIsBounded, BoundedUnion
<1>11. IsFiniteSet(u10) /\ Cardinality(u10) <= p + s + r + o + dc + rest + lp + ls + lr + lo
  <2>1. p + s + r + o + dc + rest + lp + ls + lr \in Nat
    BY Sums
  <2>. HIDE DEF u9
  <2>. QED  BY <1>10, <2>1, TaggedIsBounded, BoundedUnion
<1>12. IsFiniteSet(u11) /\ Cardinality(u11) <= p + s + r + o + dc + rest + lp + ls + lr + lo + lc
  <2>1. p + s + r + o + dc + rest + lp + ls + lr + lo \in Nat
    BY Sums
  <2>. HIDE DEF u10
  <2>. QED  BY <1>11, <2>1, TaggedIsBounded, BoundedUnion
<1>. HIDE DEF u11
<1>. QED  BY <1>1, <1>12, FS_CardinalityType

(* ---- The peak ---------------------------------------------------------- *)

(* The rest terms of the cloud, and the places of the SH attribute.        *)
Rests   == count * per
ShTerms == count * (per + 1)

LEMMA Sizes ==
  ASSUME count \in Nat, per \in Nat
  PROVE  /\ Rests \in Nat /\ ShTerms \in Nat /\ ShTerms = Rests + count
         /\ count * (5 + per) + count * (per + 1) = 6 * count + 2 * Rests
BY DEF Rests, ShTerms

LEMMA WholeOrNothing ==
  /\ \A a, n : DOMAIN Whole(a, n) = 0 .. n - 1
  /\ {} = 0 .. 0 - 1
BY DEF Whole

LEMMA PeakFromSizes ==
  ASSUME count \in Nat, per \in Nat, Cardinality(Held) <= 6 * count + 2 * Rests
  PROVE  BoundedPeak
<1>1. Cardinality(Held) <= count * (5 + per) + count * (per + 1)
  BY Sizes
<1>. QED  BY <1>1, ColumnsAreFive DEF BoundedPeak

(* Whatever the phase: six times as many elements as there are Gaussians,  *)
(* and the rest terms twice.                                               *)
LEMMA CopyingIsBounded ==
  ASSUME IInv, Storage, pc \in Copying \cup {"publish"}, ~call.metadataOnly
  PROVE  BoundedPeak
<1>1. /\ count \in Nat /\ per \in Nat
      /\ \A a \in Column : Whole(a, call.length[a]) = Whole(a, count)
      /\ Whole("restCoefficients", call.length["restCoefficients"])
           = Whole("restCoefficients", Rests)
  BY ValidFacts DEF IInv, Shapes, Gated, Closing, Rests
<1>2. PICK c \in Nat, R \in Nat, S \in Nat :
        c = count /\ R = Rests /\ S = ShTerms /\ S = R + c
  BY <1>1, Sizes
<1>. USE WholeOrNothing DEF HasSizes, Released, Unfilled, Opening, Copying, Columns, Column
<1>3. CASE pc = "positions"
  <2>1. HasSizes(c, c, c, c, c, R, 0, 0, 0, 0, 0)
    BY <1>1, <1>2, <1>3
    DEF IInv, Unreleased, Untouched, Taken, RotationsCopied, CoefficientsCopied, Storage, ShTerms
  <2>. HIDE DEF HasSizes
  <2>2. /\ Cardinality(Held) \in Nat
        /\ Cardinality(Held) <= c + c + c + c + c + R + 0 + 0 + 0 + 0 + 0
    BY <2>1, HeldIsSum
  <2>3. Cardinality(Held) <= 6 * c + 2 * R
    BY <1>2, <2>2
  <2>. QED  BY <1>1, <1>2, <2>3, PeakFromSizes
<1>4. CASE pc = "scales"
  <2>1. HasSizes(0, c, c, c, c, R, c, 0, 0, 0, 0)
    BY <1>1, <1>2, <1>4
    DEF IInv, Unreleased, Untouched, Taken, RotationsCopied, CoefficientsCopied, Storage, ShTerms
  <2>. HIDE DEF HasSizes
  <2>2. /\ Cardinality(Held) \in Nat
        /\ Cardinality(Held) <= 0 + c + c + c + c + R + c + 0 + 0 + 0 + 0
    BY <2>1, HeldIsSum
  <2>3. Cardinality(Held) <= 6 * c + 2 * R
    BY <1>2, <2>2
  <2>. QED  BY <1>1, <1>2, <2>3, PeakFromSizes
<1>5. CASE pc = "sizeRotations"
  <2>1. HasSizes(0, 0, c, c, c, R, c, c, 0, 0, 0)
    BY <1>1, <1>2, <1>5
    DEF IInv, Unreleased, Untouched, Taken, RotationsCopied, CoefficientsCopied, Storage, ShTerms
  <2>. HIDE DEF HasSizes
  <2>2. /\ Cardinality(Held) \in Nat
        /\ Cardinality(Held) <= 0 + 0 + c + c + c + R + c + c + 0 + 0 + 0
    BY <2>1, HeldIsSum
  <2>3. Cardinality(Held) <= 6 * c + 2 * R
    BY <1>2, <2>2
  <2>. QED  BY <1>1, <1>2, <2>3, PeakFromSizes
<1>6. CASE pc = "rotations"
  <2>1. HasSizes(0, 0, c, c, c, R, c, c, c, 0, 0)
    BY <1>1, <1>2, <1>6
    DEF IInv, Unreleased, Untouched, Taken, RotationsCopied, CoefficientsCopied, Storage, ShTerms
  <2>. HIDE DEF HasSizes
  <2>2. /\ Cardinality(Held) \in Nat
        /\ Cardinality(Held) <= 0 + 0 + c + c + c + R + c + c + c + 0 + 0
    BY <2>1, HeldIsSum
  <2>3. Cardinality(Held) <= 6 * c + 2 * R
    BY <1>2, <2>2
  <2>. QED  BY <1>1, <1>2, <2>3, PeakFromSizes
<1>7. CASE pc = "opacities"
  <2>1. HasSizes(0, 0, 0, c, c, R, c, c, c, 0, 0)
    BY <1>1, <1>2, <1>7
    DEF IInv, Unreleased, Untouched, Taken, RotationsCopied, CoefficientsCopied, Storage, ShTerms
  <2>. HIDE DEF HasSizes
  <2>2. /\ Cardinality(Held) \in Nat
        /\ Cardinality(Held) <= 0 + 0 + 0 + c + c + R + c + c + c + 0 + 0
    BY <2>1, HeldIsSum
  <2>3. Cardinality(Held) <= 6 * c + 2 * R
    BY <1>2, <2>2
  <2>. QED  BY <1>1, <1>2, <2>3, PeakFromSizes
<1>8. CASE pc \in {"required", "sizeCoefficients"}
  <2>1. HasSizes(0, 0, 0, 0, c, R, c, c, c, c, 0)
    BY <1>1, <1>2, <1>8
    DEF IInv, Unreleased, Untouched, Taken, RotationsCopied, CoefficientsCopied, Storage, ShTerms
  <2>. HIDE DEF HasSizes
  <2>2. /\ Cardinality(Held) \in Nat
        /\ Cardinality(Held) <= 0 + 0 + 0 + 0 + c + R + c + c + c + c + 0
    BY <2>1, HeldIsSum
  <2>3. Cardinality(Held) <= 6 * c + 2 * R
    BY <1>2, <2>2
  <2>. QED  BY <1>1, <1>2, <2>3, PeakFromSizes
<1>9. CASE pc \in {"dc", "rest"}
  <2>1. HasSizes(0, 0, 0, 0, c, R, c, c, c, c, S)
    BY <1>1, <1>2, <1>9
    DEF IInv, Unreleased, Untouched, Taken, RotationsCopied, CoefficientsCopied, Storage, ShTerms
  <2>. HIDE DEF HasSizes
  <2>2. /\ Cardinality(Held) \in Nat
        /\ Cardinality(Held) <= 0 + 0 + 0 + 0 + c + R + c + c + c + c + S
    BY <2>1, HeldIsSum
  <2>3. Cardinality(Held) <= 6 * c + 2 * R
    BY <1>2, <2>2
  <2>. QED  BY <1>1, <1>2, <2>3, PeakFromSizes
<1>10. CASE pc \in {"extent", "publish"}
  <2>1. HasSizes(0, 0, 0, 0, 0, 0, c, c, c, c, S)
    BY <1>1, <1>2, <1>10
    DEF IInv, Unreleased, Untouched, Taken, RotationsCopied, CoefficientsCopied, Storage, ShTerms
  <2>. HIDE DEF HasSizes
  <2>2. /\ Cardinality(Held) \in Nat
        /\ Cardinality(Held) <= 0 + 0 + 0 + 0 + 0 + 0 + c + c + c + c + S
    BY <2>1, HeldIsSum
  <2>3. Cardinality(Held) <= 6 * c + 2 * R
    BY <1>2, <2>2
  <2>. QED  BY <1>1, <1>2, <2>3, PeakFromSizes
<1>. QED  BY <1>3, <1>4, <1>5, <1>6, <1>7, <1>8, <1>9, <1>10

LEMMA PeakHolds == IInv /\ Storage => BoundedPeak
<1>. SUFFICES ASSUME IInv, Storage PROVE BoundedPeak
  OBVIOUS
<1>1. CASE pc \notin Copying \cup {"publish"}
  BY <1>1 DEF BoundedPeak, Steps, Copying
<1>2. CASE pc \in Copying \cup {"publish"} /\ ~call.metadataOnly
  BY <1>2, CopyingIsBounded
<1>3. CASE pc \in Copying \cup {"publish"} /\ call.metadataOnly
  <2>1. pc = "publish"
    BY <1>3 DEF IInv, Gated
  <2>2. HasSizes(0, 0, 0, 0, 0, 0, 0, 0, 0, 0, 0)
    BY <1>3, <2>1, WholeOrNothing
    DEF HasSizes, Storage, Released, Unfilled, Copying, VtArray
  <2>3. Cardinality(Held) \in Nat /\ Cardinality(Held) <= 0
    BY <2>2, HeldIsSum
  <2>4. count \in Nat /\ per \in Int /\ -1 <= per
    <3>1. call.shDegree \in Int /\ count \in Nat
      BY CallFacts DEF IInv, Shapes
    <3>2. PICK d \in Int : d = call.shDegree
      BY <3>1
    <3>3. (d + 1) * (d + 1) \in Nat
      OBVIOUS
    <3>. QED  BY <3>1, <3>2, <3>3 DEF per, RestPerGaussian, CoefficientsPerGaussian
  <2>5. PICK c \in Nat, e \in Nat : c = count /\ e = per + 1
    BY <2>4
  <2>6. c * (4 + e) \in Nat /\ c * e \in Nat
    OBVIOUS
  <2>7. 5 + per = 4 + e /\ per + 1 = e
    BY <2>4, <2>5
  <2>8. Cardinality(Held) <= count * (5 + per) + count * (per + 1)
    BY <2>3, <2>5, <2>6, <2>7
  <2>. QED  BY <2>8, ColumnsAreFive DEF BoundedPeak
<1>. QED  BY <1>1, <1>2, <1>3

THEOREM Storing == Spec => []Storage
<1>1. IInv /\ Storage /\ [Next]_vars => Storage'
  BY StorageKept
<1>. QED  BY Invariance, StorageInit, <1>1, PTL DEF Spec

(* The cloud and its copies never coexist in full: beyond the cloud as it  *)
(* came in, no more than the SH attribute is held, for every number of     *)
(* Gaussians and every degree (GaussianLayerWriter.h:41-43).               *)
THEOREM PeakIsBounded == Spec => []BoundedPeak
<1>1. IInv /\ Storage => BoundedPeak
  BY PeakHolds
<1>. QED  BY Invariance, Storing, <1>1, PTL

(* ---- The extent -------------------------------------------------------- *)

Encloses(extent) ==
  \A h \in 0 .. count - 1 :
    /\ extent.minimum <= RoundToFloat(call.position[h] - 3 * call.scale[h])
    /\ extent.maximum >= RoundToFloat(call.position[h] + 3 * call.scale[h])
ExtentHeld == pc \in Closing /\ ~call.metadataOnly => Encloses(layer["extent"])

LEMMA AuthoredEncloses ==
  ASSUME IInv, pc = "extent"
  PROVE  Encloses(AuthoredExtent)
<1>1. ~call.metadataOnly /\ Valid /\ call \in Calls
  BY DEF IInv, Gated, Copying, Shapes
<1>2. /\ count \in Nat
      /\ call.position \in [0 .. count - 1 -> Int]
      /\ call.scale \in [0 .. count - 1 -> Int]
  BY <1>1, CallsAssumption DEF IsCall, Valid, Column, count
<1>3. /\ local["positions"] = Whole("positions", count)
      /\ local["scales"] = Whole("scales", count)
  BY DEF IInv, Taken, Copying
<1>4. \A a, value : local[a] = Whole(a, count) =>
        ValuesOf(a, value) = [e \in 0 .. count - 1 |-> value[e]]
  BY DEF ValuesOf, Whole
<1>5. /\ ValuesOf("positions", call.position) = call.position
      /\ ValuesOf("scales", call.scale) = call.scale
  BY <1>2, <1>3, <1>4
<1>6. AuthoredExtent = ComputeCloudExtent(call.position, call.scale, count)
  BY <1>5 DEF AuthoredExtent
<1>. QED  BY <1>2, <1>6, ExtentEncloses DEF Encloses

LEMMA ExtentInit == Init => ExtentHeld
BY DEF Init, ExtentHeld, Closing

LEMMA ExtentKept == IInv /\ ExtentHeld /\ [Next]_vars => ExtentHeld'
<1>. SUFFICES ASSUME IInv, ExtentHeld, [Next]_vars PROVE ExtentHeld'
  OBVIOUS
<1>1. CASE AuthorExtent
  <2>1. call' = call /\ count' = count
    BY <1>1, CallKept DEF AuthorExtent
  <2>2. CASE pc' = "publish"
    <3>1. layer'["extent"] = AuthoredExtent /\ pc = "extent"
      BY <1>1, <2>2 DEF AuthorExtent, Author, Fail
    <3>2. Encloses(layer'["extent"])
      BY <3>1, AuthoredEncloses
    <3>. QED  BY <2>1, <3>2 DEF ExtentHeld, Encloses
  <2>3. CASE pc' # "publish"
    BY <1>1, <2>3 DEF AuthorExtent, Fail, ExtentHeld, Closing
  <2>. QED  BY <2>2, <2>3
<1>2. CASE Publish \/ UNCHANGED vars
  <2>1. /\ call' = call /\ layer' = layer /\ count' = count
        /\ pc' \in Closing => pc \in Closing
    BY <1>2, CallKept DEF Publish, vars, Closing
  <2>. QED  BY <2>1 DEF ExtentHeld, Encloses
<1>3. CASE AuthorScaffold
  <2>1. call' = call /\ (pc' \in Closing => call.metadataOnly)
    BY <1>3 DEF AuthorScaffold, Fail, Closing
  <2>. QED  BY <2>1 DEF ExtentHeld
<1>4. CASE \/ CheckArguments \/ TakePositions \/ TakeScales \/ SizeRotations
           \/ CopyRotation \/ ReleaseRotations \/ TakeOpacities \/ AuthorRequired
           \/ SizeCoefficients \/ CopyDc \/ CopyRest \/ NextGaussian
           \/ AuthorCoefficients \/ Throw
  <2>1. pc' \notin Closing
    BY <1>4 DEF CheckArguments, TakePositions, TakeScales, TakeVec3fArray,
         SizeRotations, CopyRotation, ReleaseRotations, TakeOpacities, AuthorRequired,
         SizeCoefficients, CopyDc, CopyRest, NextGaussian, AuthorCoefficients, Throw,
         Fail, Closing
  <2>. QED  BY <2>1 DEF ExtentHeld
<1>. QED  BY <1>1, <1>2, <1>3, <1>4 DEF Next

(* The extent that is published contains every Gaussian's three-sigma      *)
(* sphere, for every number of Gaussians and all finite values, rounding   *)
(* included (GaussianMath.cpp:177-210, GaussianLayerWriter.cpp:205-215).   *)
THEOREM ExtentIsEnclosing == Spec => []ExtentEnclosesCloud
<1>1. IInv /\ ExtentHeld /\ [Next]_vars => ExtentHeld'
  BY ExtentKept
<1>2. IInv /\ ExtentHeld => ExtentEnclosesCloud
  <2>. SUFFICES ASSUME IInv, ExtentHeld, pc = "done", ~call.metadataOnly
                PROVE  Encloses(outLayer.extent)
    BY DEF ExtentEnclosesCloud, Encloses
  <2>1. outLayer = layer
    BY DEF IInv, HandedOver
  <2>. QED  BY <2>1 DEF ExtentHeld, Closing
<1>. QED  BY Invariance, ExtentInit, <1>1, <1>2, PTL DEF Spec
=============================================================================
