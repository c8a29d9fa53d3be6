------------------------------ MODULE SogValues ------------------------------
(***************************************************************************)
(* The dequantization of GaussianSogDecoder: split position codes,         *)
(* log-domain scales, tagged smallest-three rotations and the palette of   *)
(* spherical-harmonics centroids.                                          *)
(*                                                                         *)
(* A document is a record of the count, the bands, the palette count, the  *)
(* position range, the codebooks (functions of a byte) and the seven       *)
(* planes, each its width and its texels from 0 on, as <<r, g, b, a>>.     *)
(* A number in the log domain stands for its exponential, which is a float *)
(* from kLogMin to kLogMax.                                                *)
(***************************************************************************)
EXTENDS GaussianMath

CONSTANTS
  ByteMax,             \* 255
  kShCentroidsPerRow,  \* 64
  kFloatLimit,         \* the largest float
  kLogMin, kLogMax,    \* what exponentiates to a positive float
  kLogWide             \* beyond it, three times the exponential is none

ASSUME ValuesAssumption ==
  /\ ByteMax \in Nat /\ ByteMax >= 3
  /\ kShCentroidsPerRow \in Nat \ {0} /\ kFloatLimit \in Nat
  /\ kLogMin \in Int /\ kLogWide \in kLogMin .. kLogMax
  /\ kLogMax \in Nat /\ -kLogMax <= kLogMin

Plane ==
  [meansLow |-> 1, meansHigh |-> 2, scales |-> 3, quats |-> 4, sh0 |-> 5,
   shCentroids |-> 6, shLabels |-> 7]

Coefficients(document) == document.shBands * (document.shBands + 2)

(* The texel of a Gaussian, by its index; a texel by its coordinates.      *)
Gaussian(document, plane, i) == document.planes[Plane[plane]].texel[i]
Texel(document, plane, x, y) ==
  LET image == document.planes[Plane[plane]]
  IN  image.texel[y * image.width + x]

(* Two bytes make a code; the high one comes from the second plane.        *)
WordOf(low, high) == low + high * (ByteMax + 1)
kPositionCodeMaximum == (ByteMax + 1) * (ByteMax + 1) - 1

PositionCode(document, i, axis) ==
  WordOf(Gaussian(document, "meansLow", i)[axis],
         Gaussian(document, "meansHigh", i)[axis])

(* In the log domain, as a multiple of 1 / kPositionCodeMaximum: the       *)
(* inverse transform is odd, so that it keeps the sign.                    *)
NormalizedPosition(document, i, axis) ==
  document.mins[axis] * kPositionCodeMaximum
    + (document.maxs[axis] - document.mins[axis]) * PositionCode(document, i, axis)

(* A range that is no float leaves an infinity or a NaN behind.            *)
PositionIsFinite(document, i, axis) ==
  /\ document.maxs[axis] - document.mins[axis] \in -kFloatLimit .. kFloatLimit
  /\ AbsoluteOf(NormalizedPosition(document, i, axis))
       <= kLogMax * kPositionCodeMaximum

(* An exponential by its logarithm; below kLogMin it is zero, and above    *)
(* kLogMax infinite.                                                       *)
Exponential(n) == Max({kLogMin - 1, Min({kLogMax + 1, n})})
ExponentialIsFinite(x)   == x <= kLogMax
ExponentialIsPositive(x) == x >= kLogMin

LinearScales(document) ==
  [byte \in 0 .. ByteMax |-> Exponential(document.scalesCodebook[byte])]

(* ---- Rotations --------------------------------------------------------- *)

kQuaternionTagBase == ByteMax - 3

(* The slots the stored components fill when w, x, y or z was dropped.     *)
kQuaternionSlots == <<<<1, 2, 3>>, <<0, 2, 3>>, <<0, 1, 3>>, <<0, 1, 2>>>>

(* Scalar-first, in units of 1/(2 ByteMax^2).                              *)
UnpackRotation(stored) ==
  LET dropped == stored[4] - kQuaternionTagBase
      slots   == kQuaternionSlots[dropped + 1]
      Square(stage) == LET value == 2 * stored[stage] - ByteMax
                       IN  Signed(IF value < 0 THEN 1 ELSE 0, value * value)
      squaredNorm == AbsoluteOf(Square(1)) + AbsoluteOf(Square(2))
                       + AbsoluteOf(Square(3))
  IN  [c \in 0 .. 3 |->
         IF c = dropped
         THEN Component(Max({0, 2 * ByteMax * ByteMax - squaredNorm}))
         ELSE Component(Square(CHOOSE stage \in 1 .. 3 : slots[stage] = c))]

(* ---- The palette ------------------------------------------------------- *)

Label(document, i) ==
  WordOf(Gaussian(document, "shLabels", i)[1], Gaussian(document, "shLabels", i)[2])

\* Slip: the palette is taken to hold the centroid its count names.
IsOutOfRange_OffByOne(document, i) == Label(document, i) > document.paletteCount
(* Such a label has no centroid, and its Gaussian no higher bands.         *)
IsOutOfRange(document, i) == Label(document, i) >= document.paletteCount

Centroid(document, i, coefficient) ==
  LET row    == Label(document, i) \div kShCentroidsPerRow
      column == (Label(document, i) % kShCentroidsPerRow) * Coefficients(document)
  IN  Texel(document, "shCentroids", column + coefficient, row)

Colour(codebook, texel) == [channel \in 1 .. 3 |-> codebook[texel[channel]]]

RestCoefficient(document, i, coefficient) ==
  IF IsOutOfRange(document, i) THEN <<0, 0, 0>>
  ELSE Colour(document.shCodebook, Centroid(document, i, coefficient))
-----------------------------------------------------------------------------
(* What the planes mean, by the format's description.                      *)

(* A fraction of the way from the one bound to the other.                  *)
PositionMeans(document, i, axis) ==
  LET code == WordOf(document.planes[1].texel[i][axis],
                     document.planes[2].texel[i][axis])
  IN  document.mins[axis] * (kPositionCodeMaximum - code)
        + document.maxs[axis] * code

(* w, x, y, z without the dropped one, in ascending order.                 *)
RotationMeans(stored) ==
  LET largest   == stored[4] - (ByteMax - 3)
      Stored(c) == Cardinality(0 .. c \ {largest})
      completed == Completed([c \in 0 .. 3 |->
                                IF c = largest THEN 0
                                ELSE 2 * stored[Stored(c)] - ByteMax],
                             largest, 2 * ByteMax * ByteMax)
  IN  [real |-> completed.square[0], i |-> completed.square[1],
       j |-> completed.square[2], k |-> completed.square[3],
       length |-> completed.length]

(* The centroids lie behind one another, row after row.                    *)
CentroidMeans(document, label, coefficient) ==
  Colour(document.shCodebook,
         document.planes[6].texel[label * Coefficients(document) + coefficient])
=============================================================================
