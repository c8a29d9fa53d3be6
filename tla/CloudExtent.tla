----------------------------- MODULE CloudExtent -----------------------------
(***************************************************************************)
(* The three-sigma bound of a cloud (gaussian-core), along one axis: the   *)
(* three axes are computed alike from the largest of the three scales.     *)
(* A finite float is an integer of magnitude at most FloatMax.             *)
(***************************************************************************)
EXTENDS Integers, FiniteSetsExt

CONSTANT FloatMax   \* the largest finite float

ASSUME FloatMaxAssumption == FloatMax \in Nat

Infinity == FloatMax + 1
IsFinite(x) == x \in -FloatMax .. FloatMax

(* A sum in float arithmetic.                                              *)
RoundToFloat(x) ==
  IF x > FloatMax THEN Infinity ELSE IF x < -FloatMax THEN -Infinity ELSE x

Radius(scale, g) == 3 * scale[g]

(* The function fails on a radius outside the float range; the bounds it   *)
(* then forms from radii and positions are not looked at again.            *)
ExtentOverflows(scale, count) ==
  count = 0 \/ \E g \in 0 .. count - 1 : Radius(scale, g) > FloatMax

ComputeCloudExtent(position, scale, count) ==
  [minimum |-> Min({FloatMax} \cup {RoundToFloat(position[g] - Radius(scale, g)) :
                                     g \in 0 .. count - 1}),
   maximum |-> Max({-FloatMax} \cup {RoundToFloat(position[g] + Radius(scale, g)) :
                                      g \in 0 .. count - 1})]
=============================================================================
