------------------------------ MODULE SpzValues ------------------------------
(***************************************************************************)
(* The bit arithmetic of GaussianSpzDecoder: float16 and fixed-point       *)
(* positions and the two rotation encodings.  Each is a sequence of shifts *)
(* and masks, written here as such over words of any width.                *)
(*                                                                         *)
(* A float is [finite, value, exponent], value * 2 to the exponent in a    *)
(* fixed unit.                                                             *)
(***************************************************************************)
EXTENDS GaussianMath

CONSTANTS
  ByteBits,           \* 8
  HalfMantissaBits,   \* 10, of a float16
  FloatMantissaBits,  \* 23, of a float32
  FloatBias,          \* 127
  FloatExponentMax    \* 255, the exponent of infinities and NaNs

ASSUME WidthsAssumption ==
  /\ ByteBits \in Nat \ {0} /\ (4 * ByteBits - 2) % 3 = 0
  /\ HalfMantissaBits \in 1 .. 2 * ByteBits - 2
  /\ FloatMantissaBits \in Nat /\ FloatMantissaBits >= HalfMantissaBits
  /\ FloatBias \in Nat /\ FloatExponentMax \in Nat

ShiftRight(word, n) == word \div 2^n
ShiftLeft(word, n)  == word * 2^n
LowBits(word, n)    == word % 2^n
SignBit(word, n)    == ShiftRight(word, n - 1) % 2

(* Two to four bytes, little-endian.                                       *)
Word(bytes) ==
  LET Placed(n) == IF n \in DOMAIN bytes
                   THEN ShiftLeft(bytes[n], ByteBits * (n - 1)) ELSE 0
  IN  Placed(1) + Placed(2) + Placed(3) + Placed(4)

(* ---- Positions --------------------------------------------------------- *)

HalfExponentBits == 2 * ByteBits - 1 - HalfMantissaBits
HalfExponentMax  == 2^HalfExponentBits - 1
HalfBias         == 2^(HalfExponentBits - 1) - 1

Rebias == FloatBias - HalfBias                    \* 112
Widen  == FloatMantissaBits - HalfMantissaBits    \* 13

(* Every finite float16, a subnormal included, is a normal float32.        *)
ASSUME RangesAssumption ==
  HalfMantissaBits <= Rebias /\ Rebias + HalfExponentMax <= FloatExponentMax

(* The float a bit pattern stands for, in units of the smallest float16    *)
(* divided by 2^FloatMantissaBits.                                         *)
FloatOf(bits) ==
  [finite   |-> bits.exponent # FloatExponentMax,
   value    |-> IF bits.exponent = FloatExponentMax \/ bits.exponent = 0 THEN 0
                ELSE Signed(bits.sign,
                       ShiftLeft(2^FloatMantissaBits + bits.mantissa,
                         bits.exponent - Rebias - 1 + HalfMantissaBits)),
   exponent |-> 0]

(* How often a subnormal mantissa is shifted until its leading bit is at   *)
(* the place of the implicit one.                                          *)
NormalizingShift(mantissa) ==
  Min({s \in 1 .. HalfMantissaBits :
         ShiftRight(ShiftLeft(mantissa, s), HalfMantissaBits) % 2 = 1})

\* Slip: a subnormal keeps the exponent of the smallest normal.
HalfToFloat_NotRebiased(half) ==
  LET sign     == SignBit(half, 2 * ByteBits)
      exponent == LowBits(ShiftRight(half, HalfMantissaBits), HalfExponentBits)
      mantissa == LowBits(half, HalfMantissaBits)
      Bits(e, m) == [sign |-> sign, exponent |-> e, mantissa |-> m]
  IN  FloatOf(
        CASE exponent = 0 /\ mantissa = 0 -> Bits(0, 0)
          [] exponent = 0 /\ mantissa # 0 ->
               Bits(Rebias + 1, ShiftLeft(mantissa, Widen))
          [] exponent = HalfExponentMax ->
               Bits(FloatExponentMax, ShiftLeft(mantissa, Widen))
          [] OTHER -> Bits(exponent + Rebias, ShiftLeft(mantissa, Widen)))
HalfToFloat(half) ==
  LET sign     == SignBit(half, 2 * ByteBits)
      exponent == LowBits(ShiftRight(half, HalfMantissaBits), HalfExponentBits)
      mantissa == LowBits(half, HalfMantissaBits)
      shift    == NormalizingShift(mantissa)
      Bits(e, m) == [sign |-> sign, exponent |-> e, mantissa |-> m]
  IN  FloatOf(
        CASE exponent = 0 /\ mantissa = 0 -> Bits(0, 0)
          [] exponent = 0 /\ mantissa # 0 ->
               Bits(Rebias + 1 - shift,
                    ShiftLeft(LowBits(ShiftLeft(mantissa, shift),
                                      HalfMantissaBits), Widen))
          [] exponent = HalfExponentMax ->
               Bits(FloatExponentMax, ShiftLeft(mantissa, Widen))
          [] OTHER -> Bits(exponent + Rebias, ShiftLeft(mantissa, Widen)))

(* A sign bit in the highest of the three bytes is extended.               *)
Fixed24ToFloat(fixed, fractionalBits) ==
  [finite   |-> TRUE,
   value    |-> IF SignBit(fixed, 3 * ByteBits) = 1
                THEN fixed - 2^(3 * ByteBits) ELSE fixed,
   exponent |-> -fractionalBits]

(* ---- Rotations --------------------------------------------------------- *)

(* A quaternion is a function over 0 .. 3 = x, y, z, w.                    *)

\* Slip: the radicand is not clamped.
Root_NotClamped(radicand) == [finite |-> radicand >= 0, square |-> radicand]
Root(radicand) == Component(Max({0, radicand}))

ByteMax == 2^ByteBits - 1

(* Units of 1/ByteMax^2.                                                   *)
UnpackRotationFirstThree(r) ==
  LET value(c) == 2 * r[c + 1] - ByteMax
      squaredNorm == value(0) * value(0) + value(1) * value(1) + value(2) * value(2)
  IN  [c \in 0 .. 3 |->
         IF c = 3 THEN Root(ByteMax * ByteMax - squaredNorm)
         ELSE Component(Signed(IF value(c) < 0 THEN 1 ELSE 0, value(c) * value(c)))]

FieldBits     == (4 * ByteBits - 2) \div 3     \* 10: a sign and a magnitude
MagnitudeBits == FieldBits - 1
MagnitudeMask == 2^MagnitudeBits - 1

(* One turn of the loop; the largest component has no field.               *)
TakeComponent(largest, state, c) ==
  IF c = largest THEN state
  ELSE LET magnitude == LowBits(state.packed, MagnitudeBits)
           negative  == ShiftRight(state.packed, MagnitudeBits) % 2
       IN  [packed |-> ShiftRight(state.packed, FieldBits),
            norm   |-> state.norm + magnitude * magnitude,
            q      |-> [state.q EXCEPT ![c] =
                          Component(Signed(negative, magnitude * magnitude))]]

(* Units of 1/(2 * MagnitudeMask^2), so that the loop's scale factor is 1. *)
UnpackRotationSmallestThree(word) ==
  LET largest == ShiftRight(word, 3 * FieldBits)
      Take(state, c) == TakeComponent(largest, state, c)
      first == [packed |-> word, norm |-> 0, q |-> [c \in 0 .. 3 |-> Component(0)]]
      last  == Take(Take(Take(Take(first, 3), 2), 1), 0)
  IN  [last.q EXCEPT ![largest] = Root(2 * MagnitudeMask * MagnitudeMask - last.norm)]

-----------------------------------------------------------------------------
(* What the words mean, by the format's description rather than by shifts. *)

HalfIsFinite(word) ==
  word % 2^(2 * ByteBits - 1) < HalfExponentMax * 2^HalfMantissaBits

(* Finite float16: the fields are mantissa and exponent of a binary        *)
(* fraction, with an implicit one unless the exponent is zero.             *)
HalfMeans(word) ==
  LET magnitude == word % 2^(2 * ByteBits - 1)
      mantissa  == magnitude % 2^HalfMantissaBits
      exponent  == magnitude \div 2^HalfMantissaBits
      units     == IF exponent = 0 THEN mantissa
                   ELSE (2^HalfMantissaBits + mantissa) * 2^(exponent - 1)
  IN  [finite |-> TRUE, exponent |-> 0,
       value |-> (IF word = magnitude THEN 1 ELSE -1) * units * 2^FloatMantissaBits]

(* Two's complement.                                                       *)
FixedMeans(word, fractionalBits) ==
  [finite |-> TRUE, exponent |-> -fractionalBits,
   value |-> CHOOSE n \in {word, word - 2^(3 * ByteBits)} :
               n \in -(2^(3 * ByteBits - 1)) .. 2^(3 * ByteBits - 1) - 1]

(* x, y, z, w; the fourth completes the quaternion.                        *)
Rotation(completed) ==
  [real |-> completed.square[3], i |-> completed.square[0],
   j |-> completed.square[1], k |-> completed.square[2],
   length |-> completed.length]

FirstThreeMeans(bytes) ==
  Rotation(Completed(
    [c \in 0 .. 3 |-> IF c = 3 THEN 0 ELSE 2 * bytes[c + 1] - ByteMax],
    3, ByteMax * ByteMax))

(* The component with the highest index is in the lowest bits.             *)
SmallestThreeMeans(word) ==
  LET largest  == word \div 2^(3 * FieldBits)
      Place(c) == Cardinality({d \in 0 .. 3 : d > c /\ d # largest})
      Field(c) == (word \div 2^(FieldBits * Place(c))) % 2^FieldBits
  IN  Rotation(Completed([c \in 0 .. 3 |->
                            IF Field(c) < 2^MagnitudeBits THEN Field(c)
                            ELSE 2^MagnitudeBits - Field(c)],
                         largest, 2 * MagnitudeMask * MagnitudeMask))
=============================================================================
