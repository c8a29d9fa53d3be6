---------------------------- MODULE GaussianCloud ----------------------------
(***************************************************************************)
(* The canonical in-memory model every decoder produces and the writer     *)
(* consumes (gaussian-core): how many spherical-harmonics coefficients a   *)
(* degree means, which cloud shapes the shared validation gate accepts,    *)
(* and the checked size arithmetic behind the array lengths.               *)
(***************************************************************************)
EXTENDS Integers, FiniteSets

kMaxShDegree == 3

(* The per-Gaussian arrays; the rest coefficients form an array of their   *)
(* own because a Gaussian has a degree-dependent number of them.           *)
Column == {"positions", "scales", "rotations", "opacities", "dcCoefficients"}

CoefficientsPerGaussian(degree) == (degree + 1) * (degree + 1)

RestPerGaussian(degree) == CoefficientsPerGaussian(degree) - 1

NoDegree == -1

(* side is the square root of n rounded to the nearest integer.            *)
IsRoundedRoot(side, n) ==
  side * side - side < n /\ n <= side * side + side

(* The degree a coefficient count stands for, or NoDegree when the count   *)
(* is not a square.                                                        *)
InferShDegree(coefficientCount) ==
  IF \E side \in 1 .. coefficientCount :
        IsRoundedRoot(side, coefficientCount) /\ side * side = coefficientCount
  THEN (CHOOSE side \in 1 .. coefficientCount :
          IsRoundedRoot(side, coefficientCount)) - 1
  ELSE NoDegree
-----------------------------------------------------------------------------
(***************************************************************************)
(* The shared validation gate.  A cloud is a record with the number of     *)
(* Gaussians, the degree, the length of every array and, in "numeric",     *)
(* whether every value is finite and inside its range.                     *)
(***************************************************************************)
Array == Column \cup {"restCoefficients"}

\* Slip: the lengths of the per-Gaussian arrays are not compared.
ColumnLengthsMatch_Skipped(cloud) == TRUE
ColumnLengthsMatch(cloud) == \A k \in Column : cloud.length[k] = cloud.count

ShDegreeIsValid(cloud) ==
  /\ cloud.shDegree >= 0
  /\ InferShDegree(CoefficientsPerGaussian(cloud.shDegree)) = cloud.shDegree
  /\ cloud.shDegree <= kMaxShDegree

RestLengthMatches(cloud) ==
  cloud.length["restCoefficients"]
    = cloud.count * RestPerGaussian(cloud.shDegree)

ValidateGaussianCloud(cloud) ==
  /\ cloud.count # 0
  /\ ColumnLengthsMatch(cloud)
  /\ ShDegreeIsValid(cloud)
  /\ RestLengthMatches(cloud)
  /\ cloud.numeric
=============================================================================
