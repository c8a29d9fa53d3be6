----------------------------- MODULE LayerWriter -----------------------------
(***************************************************************************)
(* GaussianLayerWriter of gaussian-usd: authors a cloud, or the metadata   *)
(* of one, on an anonymous layer and hands the layer over only when every  *)
(* part is authored.  The cloud is consumed: each array is copied into a   *)
(* Vt array and released before the next one is copied.                    *)
(*                                                                         *)
(* Data abstraction: element e of the cloud's array k is the pair <<k, e>>.*)
(***************************************************************************)
EXTENDS GaussianCloud, CloudExtent

CONSTANT
  Calls       \* the calls made of the writer

(* A call's cloud has arrays of any length: the writer validates it.  A    *)
(* call for metadata only comes with none.                                 *)
IsCall(c) ==
  /\ c.metadataOnly \in BOOLEAN /\ c.hasOutput \in BOOLEAN
  /\ c.count \in Nat /\ c.shDegree \in Int /\ c.numeric \in BOOLEAN
  /\ c.length \in [Array -> Nat]
  /\ c.metadataOnly => c.length = [a \in Array |-> 0]
  /\ c.position \in [0 .. c.length["positions"] - 1 -> Int]
  /\ c.scale \in [0 .. c.length["scales"] - 1 -> Int]

ASSUME CallsAssumption == \A c \in Calls : IsCall(c)

VARIABLES
  call,       \* the arguments; never changes
  pc,         \* the step WriteToLayer or WriteMetadataToLayer is at
  error,      \* the diagnostic code of the failure, "" while there is none
  cloud,      \* the arrays of the caller's cloud; a released one is empty
  local,      \* the Vt arrays
  g, k,       \* loop variables: the Gaussian and the rest coefficient
  layer,      \* what is authored on the anonymous layer, by name
  outLayer    \* *outLayer: the authored layer, or NoLayer

vars == <<call, pc, error, cloud, local, g, k, layer, outLayer>>

NoLayer == <<>>
Empty   == <<>>

Required  == <<"positions", "scales", "rotations", "opacities">>
FullAttr  == {"gaussianCount", "shDegree", "positions", "scales", "rotations",
              "opacities", "coefficients", "extent"}
VtArray   == {"positions", "scales", "rotations", "opacities", "coefficients"}

count == call.count
per   == RestPerGaussian(call.shDegree)

(* A freshly sized Vt array has default elements until they are written.   *)
Default == <<"default", 0>>
Sized(n) == [e \in 0 .. n - 1 |-> Default]

Whole(a, n) == [e \in 0 .. n - 1 |-> <<a, e>>]

Author(values) ==
  layer' = [n \in DOMAIN layer \cup DOMAIN values |->
              IF n \in DOMAIN values THEN values[n] ELSE layer[n]]

Fail(code) == pc' = "failed" /\ error' = code

Init ==
  /\ call \in Calls
  /\ pc = IF call.metadataOnly THEN "metadata" ELSE "validate"
  /\ error = ""
  /\ cloud = [a \in Array |-> Whole(a, call.length[a])]
  /\ local = [a \in VtArray |-> Empty]
  /\ g = 0 /\ k = 0
  /\ layer = Empty
  /\ outLayer = NoLayer

CheckArguments ==
  /\ \/ /\ pc = "validate" /\ call.hasOutput /\ ValidateGaussianCloud(call)
        /\ pc' = "scaffold" /\ UNCHANGED error
     \/ /\ pc = "metadata" /\ call.hasOutput
        /\ pc' = "scaffold" /\ UNCHANGED error
     \/ /\ pc \in {"validate", "metadata"} /\ ~call.hasOutput
        /\ Fail("internalError")
     \/ /\ pc = "validate" /\ call.hasOutput /\ ~ValidateGaussianCloud(call)
        /\ Fail("cloudValidationFailed")
  /\ UNCHANGED <<call, cloud, local, g, k, layer, outLayer>>

(* Any USD call may refuse; a partly authored layer is dropped unseen.     *)
AuthorScaffold ==
  /\ pc = "scaffold"
  /\ \/ /\ Author([gaussianCount |-> call.count, shDegree |-> call.shDegree])
        /\ pc' = IF call.metadataOnly THEN "publish" ELSE "positions"
        /\ UNCHANGED error
     \/ /\ \E code \in {"stageCreationFailed", "scaffoldAuthoringFailed",
                        "attributeAuthoringFailed"} : Fail(code)
        /\ UNCHANGED layer
  /\ UNCHANGED <<call, cloud, local, g, k, outLayer>>

Release(arrays) == cloud' = [a \in Array |-> IF a \in arrays THEN Empty
                                             ELSE cloud[a]]

(* TakeVec3fArray: one block copy of the source's own length.              *)
TakeVec3fArray(a, next) ==
  /\ pc = a
  /\ local' = [local EXCEPT ![a] = cloud[a]]
  /\ Release({a})
  /\ pc' = next
  /\ UNCHANGED <<call, error, g, k, layer, outLayer>>

TakePositions == TakeVec3fArray("positions", "scales")
TakeScales    == TakeVec3fArray("scales", "sizeRotations")

SizeRotations ==
  /\ pc = "sizeRotations"
  /\ local' = [local EXCEPT !["rotations"] = Sized(count)]
  /\ g' = 0
  /\ pc' = "rotations"
  /\ UNCHANGED <<call, error, cloud, k, layer, outLayer>>

CopyRotation ==
  /\ pc = "rotations" /\ g < count
  /\ local' = [local EXCEPT !["rotations"][g] = cloud["rotations"][g]]
  /\ g' = g + 1
  /\ UNCHANGED <<call, pc, error, cloud, k, layer, outLayer>>

\* Slip: the rotations are copied and never released.
ReleaseRotations_Kept ==
  /\ pc = "rotations" /\ g = count
  /\ pc' = "opacities"
  /\ UNCHANGED <<call, error, cloud, local, g, k, layer, outLayer>>
ReleaseRotations ==
  /\ pc = "rotations" /\ g = count
  /\ Release({"rotations"})
  /\ pc' = "opacities"
  /\ UNCHANGED <<call, error, local, g, k, layer, outLayer>>

(* memcpy of gaussianCount floats, whatever the source's length is.        *)
TakeOpacities ==
  /\ pc = "opacities"
  /\ local' = [local EXCEPT !["opacities"] =
                 [e \in 0 .. count - 1 |-> cloud["opacities"][e]]]
  /\ Release({"opacities"})
  /\ pc' = "required"
  /\ UNCHANGED <<call, error, g, k, layer, outLayer>>

(* The four Set calls short-circuit at the first one that fails.           *)
AuthorRequired ==
  /\ pc = "required"
  /\ \E n \in 0 .. 4 :
       /\ Author([a \in {Required[m] : m \in 1 .. n} |-> local[a]])
       /\ IF n = 4 THEN pc' = "sizeCoefficients" /\ UNCHANGED error
                   ELSE Fail("attributeAuthoringFailed")
  /\ UNCHANGED <<call, cloud, local, g, k, outLayer>>

SizeCoefficients ==
  /\ pc = "sizeCoefficients"
  /\ local' = [local EXCEPT !["coefficients"] =
                 Sized(count * CoefficientsPerGaussian(call.shDegree))]
  /\ g' = 0
  /\ pc' = "dc"
  /\ UNCHANGED <<call, error, cloud, k, layer, outLayer>>

(* The DC term leads every Gaussian's block of coefficients ...            *)
CopyDc ==
  /\ pc = "dc" /\ g < count
  /\ local' = [local EXCEPT !["coefficients"][g * (per + 1)] =
                 cloud["dcCoefficients"][g]]
  /\ k' = 0
  /\ pc' = "rest"
  /\ UNCHANGED <<call, error, cloud, g, layer, outLayer>>

\* Slip: the rest terms are read at the stride they are written at.
CopyRest_OutputStride ==
  /\ pc = "rest" /\ k < per
  /\ LET e == g * (per + 1) + k
     IN local' = [local EXCEPT !["coefficients"][g * (per + 1) + 1 + k] =
                    IF e \in DOMAIN cloud["restCoefficients"]
                    THEN cloud["restCoefficients"][e] ELSE Default]
  /\ k' = k + 1
  /\ UNCHANGED <<call, pc, error, cloud, g, layer, outLayer>>
(* ... and the rest terms follow it, read at their own stride.             *)
CopyRest ==
  /\ pc = "rest" /\ k < per
  /\ local' = [local EXCEPT !["coefficients"][g * (per + 1) + 1 + k] =
                 cloud["restCoefficients"][g * per + k]]
  /\ k' = k + 1
  /\ UNCHANGED <<call, pc, error, cloud, g, layer, outLayer>>

NextGaussian ==
  /\ pc = "rest" /\ k = per
  /\ g' = g + 1
  /\ pc' = "dc"
  /\ UNCHANGED <<call, error, cloud, local, k, layer, outLayer>>

AuthorCoefficients ==
  /\ pc = "dc" /\ g = count
  /\ Release({"dcCoefficients", "restCoefficients"})
  /\ \/ /\ Author([coefficients |-> local["coefficients"]])
        /\ pc' = "extent" /\ UNCHANGED error
     \/ /\ Fail("attributeAuthoringFailed")
        /\ UNCHANGED layer
  /\ UNCHANGED <<call, local, g, k, outLayer>>

(* The values behind a Vt array of positions or scales.                    *)
ValuesOf(a, value) == [e \in DOMAIN local[a] |-> value[local[a][e][2]]]

\* Slip: the extent spans the centers, without the three-sigma radius.
AuthoredExtent_Centers ==
  ComputeCloudExtent(ValuesOf("positions", call.position),
                     [e \in DOMAIN local["scales"] |-> 0], count)
AuthoredExtent == ComputeCloudExtent(ValuesOf("positions", call.position),
                                     ValuesOf("scales", call.scale), count)

AuthorExtent ==
  LET overflows == ExtentOverflows(ValuesOf("scales", call.scale), count) IN
  /\ pc = "extent"
  /\ \/ /\ overflows /\ Fail("extentOverflow")
        /\ UNCHANGED layer
     \/ /\ ~overflows /\ Author([extent |-> AuthoredExtent])
        /\ pc' = "publish" /\ UNCHANGED error
     \/ /\ ~overflows /\ Fail("attributeAuthoringFailed")
        /\ UNCHANGED layer
  /\ UNCHANGED <<call, cloud, local, g, k, outLayer>>

Publish ==
  /\ pc = "publish"
  /\ outLayer' = layer
  /\ pc' = "done"
  /\ UNCHANGED <<call, error, cloud, local, g, k, layer>>

(* Sizing a Vt array or authoring may throw std::bad_alloc, which ends the *)
(* call and reaches the caller through the future.                         *)
Throw ==
  /\ pc \notin {"validate", "metadata", "done", "failed", "threw"}
  /\ pc' = "threw"
  /\ UNCHANGED <<call, error, cloud, local, g, k, layer, outLayer>>

Next ==
  \/ CheckArguments \/ AuthorScaffold
  \/ TakePositions \/ TakeScales
  \/ SizeRotations \/ CopyRotation \/ ReleaseRotations
  \/ TakeOpacities \/ AuthorRequired
  \/ SizeCoefficients \/ CopyDc \/ CopyRest \/ NextGaussian
  \/ AuthorCoefficients \/ AuthorExtent \/ Publish \/ Throw

Spec == Init /\ [][Next]_vars
-----------------------------------------------------------------------------
Steps == {"metadata", "validate", "scaffold", "positions", "scales",
          "sizeRotations", "rotations", "opacities", "required",
          "sizeCoefficients", "dc", "rest", "extent", "publish"}

(* The loops and the block copies are sized by gaussianCount, not by the   *)
(* arrays: no step reads past an array's end or from an array that was     *)
(* released already (GaussianLayerWriter.cpp:153-164,181-190,208).         *)
ReadsInBounds ==
  /\ pc = "rotations" /\ g < count => g \in DOMAIN cloud["rotations"]
  /\ pc = "opacities" => 0 .. count - 1 \subseteq DOMAIN cloud["opacities"]
  /\ pc = "dc" /\ g < count => g \in DOMAIN cloud["dcCoefficients"]
  /\ pc = "rest" /\ k < per =>
       g * per + k \in DOMAIN cloud["restCoefficients"]
  /\ pc = "extent" =>
       /\ DOMAIN local["positions"] = 0 .. count - 1
       /\ DOMAIN local["scales"] = 0 .. count - 1

(* The SH attribute holds, Gaussian by Gaussian, the DC term and then the  *)
(* rest terms of that Gaussian.                                            *)
Interleaved(attr) ==
  /\ DOMAIN attr = 0 .. count * (per + 1) - 1
  /\ \A h \in 0 .. count - 1 :
       /\ attr[h * (per + 1)] = <<"dcCoefficients", h>>
       /\ \A d \in 0 .. per - 1 :
            attr[h * (per + 1) + 1 + d] = <<"restCoefficients", h * per + d>>

(* The caller gets a layer exactly when the call succeeds, and that layer  *)
(* carries the count, the degree and, unless only metadata was asked for,  *)
(* every array of the cloud whole and the interleaved coefficients -       *)
(* although the cloud's own arrays are long gone                           *)
(* (GaussianLayerWriter.cpp:146-219).                                      *)
PublishedComplete ==
  /\ outLayer # NoLayer <=> pc = "done"
  /\ pc = "done" =>
       /\ DOMAIN outLayer = IF call.metadataOnly
                            THEN {"gaussianCount", "shDegree"} ELSE FullAttr
       /\ outLayer.gaussianCount = count /\ outLayer.shDegree = call.shDegree
       /\ ~call.metadataOnly =>
            /\ \A m \in 1 .. 4 :
                 outLayer[Required[m]] = Whole(Required[m], count)
            /\ Interleaved(outLayer.coefficients)

(* Elements held by the cloud and by the Vt arrays, which share their      *)
(* storage with the layer.                                                 *)
Held == (UNION {{<<"cloud", a, e>> : e \in DOMAIN cloud[a]} : a \in Array})
        \cup (UNION {{<<"local", a, e>> : e \in DOMAIN local[a]} : a \in VtArray})

(* The cloud and the authored arrays never coexist in full: beyond the     *)
(* cloud as it came in, no more than the elements of the SH attribute is   *)
(* held (GaussianLayerWriter.h:41-43, "each array is released once it has  *)
(* been copied").                                                          *)
BoundedPeak ==
  pc \in Steps \ {"metadata", "validate", "scaffold"} =>
    Cardinality(Held) <= count * (Cardinality(Column) + per) + count * (per + 1)

(* The authored extent is the bound of the authored arrays: it contains    *)
(* every Gaussian's three-sigma sphere.                                    *)
ExtentEnclosesCloud ==
  pc = "done" /\ ~call.metadataOnly =>
    \A h \in 0 .. count - 1 :
      /\ outLayer.extent.minimum
           <= RoundToFloat(call.position[h] - 3 * call.scale[h])
      /\ outLayer.extent.maximum
           >= RoundToFloat(call.position[h] + 3 * call.scale[h])

(* The documented promise that a bound leaving float range fails the call  *)
(* (GaussianMath.h:37-38).                                                 *)
ExtentIsFinite ==
  pc = "done" /\ ~call.metadataOnly =>
    IsFinite(outLayer.extent.minimum) /\ IsFinite(outLayer.extent.maximum)
=============================================================================
