---------------------------- MODULE GaussianMath -----------------------------
(***************************************************************************)
(* What the decoders share of gaussian-core: the normalisation of a        *)
(* quaternion and the change of frame from RDF to RUB.                     *)
(*                                                                         *)
(* Numbers stay exact.  A quaternion component is a square with the        *)
(* component's sign, in units of its encoding's largest magnitude: its     *)
(* root is never needed.                                                   *)
(***************************************************************************)
EXTENDS Integers, Sequences, FiniteSetsExt

AbsoluteOf(n) == IF n < 0 THEN -n ELSE n
Signed(negative, magnitude) == IF negative = 1 THEN -magnitude ELSE magnitude

(* A negative radicand has no root, and is not finite.                     *)
Component(square) == [finite |-> TRUE, square |-> square]

Normalizable(q) == \A c \in DOMAIN q : q[c].finite

(* Kept as the squares of its components and their sum; of a zero          *)
(* quaternion it is the identity.                                          *)
NormalizeQuaternion(real, i, j, k) ==
  LET length == AbsoluteOf(real.square) + AbsoluteOf(i.square)
                  + AbsoluteOf(j.square) + AbsoluteOf(k.square)
  IN  IF length = 0 THEN [real |-> 1, i |-> 0, j |-> 0, k |-> 0, length |-> 1]
      ELSE [real |-> real.square, i |-> i.square, j |-> j.square,
            k |-> k.square, length |-> length]

IsNormalized(q) ==
  AbsoluteOf(q.real) + AbsoluteOf(q.i) + AbsoluteOf(q.j) + AbsoluteOf(q.k) = q.length

(* ---- RDF to RUB -------------------------------------------------------- *)

\* Slip: the signs of the second band are those of its odd functions.
kShFlipYZ_Band2 ==
  <<-1, -1, 1,  -1, -1, 1, -1, 1,  -1, 1, -1, -1, 1, -1, 1>>
(* One sign for each coefficient of the three bands.                       *)
kShFlipYZ ==
  <<-1, -1, 1,  -1, 1, 1, -1, 1,  -1, 1, -1, -1, 1, -1, 1>>

(* The conjugation by the flip: the scalar part is unchanged.              *)
FlipRotation(q) == [q EXCEPT !.j = -@, !.k = -@]

FlipYZAxes(cloud) ==
  LET count == Len(cloud.positions)
      rest  == cloud.restCoefficients
      each  == IF count = 0 THEN 0 ELSE Len(rest) \div count
      Flip(v, sign) == [channel \in DOMAIN v |-> sign * v[channel]]
  IN  [cloud EXCEPT
         !.positions = [g \in DOMAIN @ |-> <<@[g][1], -@[g][2], -@[g][3]>>],
         !.rotations = [g \in DOMAIN @ |-> FlipRotation(@[g])],
         !.restCoefficients =
            IF each \notin DOMAIN kShFlipYZ THEN @
            ELSE [n \in DOMAIN @ |-> Flip(@[n], kShFlipYZ[((n - 1) % each) + 1])]]
-----------------------------------------------------------------------------
(* Signed fractions, but for one component that is not negative and        *)
(* completes the quaternion to a unit one, if the others leave room for it.*)
Completed(stored, largest, one) ==
  LET Square(c) == IF c = largest THEN 0 ELSE stored[c] * stored[c]
      sum       == Square(0) + Square(1) + Square(2) + Square(3)
  IN  [square |-> [c \in 0 .. 3 |->
                     IF c = largest THEN Max({0, one - sum})
                     ELSE IF stored[c] < 0 THEN -stored[c] * stored[c]
                     ELSE stored[c] * stored[c]],
       length |-> Max({one, sum})]

(* What each of so many Gaussians has so much of, one behind the other.    *)
Interleaved(count, each, Of(_, _)) ==
  [n \in 1 .. count * each |->
     LET place == CHOOSE p \in (1 .. count) \X (1 .. each) :
                    n = (p[1] - 1) * each + p[2]
     IN  Of(place[1], place[2])]

(* A half turn about x takes the real spherical harmonic of band l and     *)
(* order m to itself times this sign: the polar factor is even in z when   *)
(* l + m is, the factor sin(m phi) of a negative order is odd in y.        *)
HalfTurnSign(coefficient) ==
  LET l == CHOOSE b \in 1 .. 3 : coefficient \in b * b .. (b + 1) * (b + 1) - 1
      m == coefficient - l * l - l
  IN  (IF (l + AbsoluteOf(m)) % 2 = 0 THEN 1 ELSE -1) * (IF m < 0 THEN -1 ELSE 1)
=============================================================================
