---------------------------- MODULE MCLayerWriter ----------------------------
(* Valid clouds of one and two Gaussians at degrees 0 and 1, with scales   *)
(* that fit and scales whose radius does not, positions up to the largest  *)
(* float; the same shapes with one array too short or too long; clouds     *)
(* with no Gaussian, a degree outside 0 .. 3 or a bad value; metadata.     *)
EXTENDS LayerWriter

Lengths(n, degree) ==
  [a \in Array |-> IF a = "restCoefficients"
                   THEN n * RestPerGaussian(degree) ELSE n]

Call(n, degree, length, position, scale) ==
  [metadataOnly |-> FALSE, hasOutput |-> TRUE, numeric |-> TRUE, count |-> n,
   shDegree |-> degree, length |-> length, position |-> position,
   scale |-> scale]

ValidCalls ==
  UNION {{Call(n, d, Lengths(n, d), p, s) :
            p \in [0 .. n - 1 -> {-3, FloatMax}], s \in [0 .. n - 1 -> {1, 2}]} :
         n \in 1 .. 2, d \in 0 .. 1}

PlainCall(n, degree, length) ==
  Call(n, degree, length, [h \in 0 .. length["positions"] - 1 |-> 0],
       [h \in 0 .. length["scales"] - 1 |-> 1])

ShortOrLong(n, d) ==
  {[Lengths(n, d) EXCEPT ![a] = m] : a \in Array, m \in 0 .. 3}

MetadataCall ==
  [PlainCall(2, 3, [a \in Array |-> 0]) EXCEPT !.metadataOnly = TRUE]

InvalidCalls ==
  UNION {{PlainCall(n, d, length) : length \in ShortOrLong(n, d)} :
         n \in 1 .. 2, d \in 0 .. 1}
  \cup {PlainCall(0, 0, Lengths(0, 0)), PlainCall(1, -1, Lengths(1, 0)),
        PlainCall(1, 4, Lengths(1, 4)),
        [PlainCall(1, 0, Lengths(1, 0)) EXCEPT !.numeric = FALSE],
        [PlainCall(1, 0, Lengths(1, 0)) EXCEPT !.hasOutput = FALSE],
        MetadataCall, [MetadataCall EXCEPT !.hasOutput = FALSE]}

MCCalls == ValidCalls \cup InvalidCalls
=============================================================================
