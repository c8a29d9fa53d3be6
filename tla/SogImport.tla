------------------------------ MODULE SogImport ------------------------------
(***************************************************************************)
(* GaussianSogFileFormat::Read with the decoder and the writer it calls,   *)
(* for a bundled container: one file, of which SogReader is shown to hand  *)
(* out the whole of one version, or to fail.                               *)
(***************************************************************************)
EXTENDS SogValues, GaussianCloud, Diagnostics, Authoring

CONSTANTS
  Files,           \* what the file may be: a sequence of versions
  EditVersions,    \* what it may become while it is imported
  Requests         \* the calls the host makes

Versions == 1 .. Len(Files)
NoVersion == 0

ASSUME EditAssumption == EditVersions \subseteq Versions

(* A version with no problem is a document as SogReader checks it: its     *)
(* codebooks have an entry for each byte, every per-Gaussian plane a texel *)
(* for each Gaussian, and the image of the palette is exactly one palette  *)
(* wide and holds every centroid.                                          *)
IsDocument(v) ==
  /\ v.count \in Nat \ {0} /\ v.shBands \in 0 .. 3 /\ v.paletteCount \in Nat
  /\ {v.mins, v.maxs} \subseteq [1 .. 3 -> Int]
  /\ {v.scalesCodebook, v.sh0Codebook} \subseteq [0 .. ByteMax -> Int]
  /\ v.shBands # 0 => v.shCodebook \in [0 .. ByteMax -> Int]
  /\ DOMAIN v.planes = 1 .. IF v.shBands = 0 THEN 5 ELSE 7
  /\ \A p \in DOMAIN v.planes : LET texel == v.planes[p].texel IN
       \A t \in DOMAIN texel : texel[t] \in [1 .. 4 -> 0 .. ByteMax]
  /\ \A p \in DOMAIN v.planes \ {6} : 0 .. v.count - 1 \subseteq DOMAIN v.planes[p].texel
  /\ v.shBands # 0 =>
       /\ v.planes[6].width = kShCentroidsPerRow * Coefficients(v)
       /\ DOMAIN v.planes[6].texel # {}
       /\ v.paletteCount * Coefficients(v) <= Cardinality(DOMAIN v.planes[6].texel)

ASSUME DocumentAssumption ==
  /\ \A n \in Versions : Files[n].problem = NoProblem => IsDocument(Files[n])
  /\ \A r \in Requests : {r.metadataOnly, r.stats, r.changeBlock} \subseteq BOOLEAN

VARIABLES
  file, seen,        \* the file, and what it has been since the call began
  request,           \* the arguments of the current call
  metadata,          \* of a metadata-only read
  document,          \* the version the container reader handed out
  stage,             \* the next loop of Decode
  cloud,             \* the cloud decoded so far
  labelsOutOfRange,  \* labels without a centroid
  warned,            \* what TF_WARN has reported
  stats              \* GaussianImportStats

fileVars   == <<file, seen>>
decodeVars == <<metadata, document, stage, cloud, labelsOutOfRange>>
Document == Files[document]

vars == <<fileVars, request, pc, result, error, decodeVars, warned, stats,
          authorVars, layer, fault>>

Stages == <<"positions", "scales", "sh0", "rotations", "restCoefficients">>

EmptyCloud == [positions |-> <<>>, opacities |-> <<>>, scales |-> <<>>,
               dcCoefficients |-> <<>>, rotations |-> <<>>,
               restCoefficients |-> <<>>]
NoStats == [gaussianCount |-> 0, shDegree |-> 0, warningCount |-> 0,
            sourceBytes |-> 0, decodedBytes |-> 0, hasBounds |-> FALSE]

(* ---- The call ---------------------------------------------------------- *)

Init ==
  /\ file \in Versions /\ seen = {file}
  /\ request \in Requests
  /\ pc = "idle" /\ layer = None
  /\ result = "none" /\ error = "" /\ metadata = None /\ document = NoVersion
  /\ stage = 1 /\ cloud = EmptyCloud /\ labelsOutOfRange = 0
  /\ warned = {} /\ stats = NoStats
  /\ worker = "none" /\ generated = None /\ fault = FALSE

EditFile ==
  /\ file' \in IF pc = "idle" THEN Versions ELSE EditVersions
  /\ seen' = IF pc = "idle" THEN {file'} ELSE seen \cup {file'}
  /\ UNCHANGED <<request, pc, result, error, decodeVars, warned, stats,
                 authorVars, layer, fault>>

Call ==
  /\ pc = "idle"
  /\ request' \in Requests
  /\ pc' = (IF request'.metadataOnly THEN "metadata" ELSE "read")
  /\ result' = "none"
  /\ UNCHANGED <<fileVars, error, decodeVars, warned, stats, authorVars, layer,
                 fault>>

(* Read's locals end with it.                                              *)
LeaveRead ==
  /\ pc' = "idle"
  /\ error' = "" /\ metadata' = None /\ document' = NoVersion /\ stage' = 1
  /\ cloud' = EmptyCloud /\ labelsOutOfRange' = 0
  /\ warned' = {} /\ stats' = NoStats
  /\ worker' = "none" /\ generated' = None
  /\ seen' = {file} /\ fault' = FALSE
  /\ UNCHANGED <<file, request>>

(* DecodeMetadata: bands are degrees, and every degree is supported.       *)
ReadMetadata ==
  /\ pc = "metadata" /\ Files[file].headerProblem = NoProblem
  /\ metadata' = [gaussianCount |-> Files[file].count, shDegree |-> Files[file].shBands]
  /\ Continue("author")
  /\ UNCHANGED <<fileVars, request, document, stage, cloud, labelsOutOfRange,
                 warned, stats, authorVars, layer, fault>>

ReadDocument ==
  /\ pc = "read" /\ Files[file].problem = NoProblem
  /\ document' = file
  /\ Continue("check")
  /\ UNCHANGED <<fileVars, request, metadata, stage, cloud, labelsOutOfRange,
                 warned, stats, authorVars, layer, fault>>

(* The reader's two opens may find what is wrong with either version.      *)
ReaderFails ==
  /\ \E v \in seen :
       LET problem == IF pc = "metadata" THEN Files[v].headerProblem
                     ELSE Files[v].problem IN
       pc \in {"metadata", "read"} /\ problem # NoProblem /\ Fail(problem)
  /\ UNCHANGED <<fileVars, request, decodeVars, warned, stats, authorVars,
                 layer, fault>>

ReaderFaults ==
  /\ pc \in {"metadata", "read"}
  /\ \E code \in {"unreadableFile", "modelAllocationFailed"} : Fail(code)
  /\ fault' = TRUE
  /\ UNCHANGED <<fileVars, request, decodeVars, warned, stats, authorVars, layer>>

(* std::bad_alloc from the parser's tree or a warning's string.            *)
Throw ==
  /\ pc \in {"metadata", "read", "finish"}
  /\ pc' = "return" /\ result' = "threw" /\ fault' = TRUE
  /\ UNCHANGED <<fileVars, request, error, decodeVars, warned, stats,
                 authorVars, layer>>

Present(image) == DOMAIN image.texel # {}
DocumentDisagrees(d) ==
  \/ d.count = 0
  \/ \E p \in 1 .. IF d.shBands = 0 THEN 5 ELSE 7 :
       p \notin DOMAIN d.planes \/ ~Present(d.planes[p])
  \/ \E book \in {d.scalesCodebook, d.sh0Codebook} : DOMAIN book # 0 .. ByteMax
  \/ d.shBands # 0 /\ DOMAIN d.shCodebook # 0 .. ByteMax

CheckDocument ==
  /\ pc = "check"
  /\ IF DocumentDisagrees(Document) THEN Fail("internalError")
     ELSE Continue("allocate")
  /\ UNCHANGED <<fileVars, request, decodeVars, warned, stats, authorVars,
                 layer, fault>>

(* The five arrays and the table of linear scales.                         *)
Allocate ==
  /\ pc = "allocate"
  /\ \/ Continue("stages") /\ UNCHANGED fault
     \/ Fail("modelAllocationFailed") /\ fault' = TRUE
  /\ UNCHANGED <<fileVars, request, decodeVars, warned, stats, authorVars, layer>>

(* ---- Decode ------------------------------------------------------------ *)

Each(d, Decoded(_)) == [g \in 1 .. d.count |-> Decoded(g - 1)]
Some(d, Fails(_)) == \E i \in 0 .. d.count - 1 : Fails(i)

(* What a loop fills, by the names of the arrays.                          *)
DecodedStage(name, d) ==
  LET Scale(i) == [axis \in 1 .. 3 |->
                     LinearScales(d)[Gaussian(d, "scales", i)[axis]]]
      Rotation(i) == LET q == UnpackRotation(Gaussian(d, "quats", i))
                     IN  NormalizeQuaternion(q[0], q[1], q[2], q[3])
      Position(i) == [axis \in 1 .. 3 |-> NormalizedPosition(d, i, axis)]
      Dc(i)       == Colour(d.sh0Codebook, Gaussian(d, "sh0", i))
      Opacity(i)  == Gaussian(d, "sh0", i)[4]
  IN  CASE name = "positions" -> [positions |-> Each(d, Position)]
        [] name = "scales"    -> [scales |-> Each(d, Scale)]
        [] name = "sh0"       -> [dcCoefficients |-> Each(d, Dc),
                                  opacities |-> Each(d, Opacity)]
        [] name = "rotations" -> [rotations |-> Each(d, Rotation)]
        [] OTHER -> [restCoefficients |->
             [n \in 1 .. d.count * Coefficients(d) |->
                RestCoefficient(d, (n - 1) \div Coefficients(d),
                                (n - 1) % Coefficients(d))]]

StageProblem(name, d) ==
  LET BadPosition(i) == \E axis \in 1 .. 3 : ~PositionIsFinite(d, i, axis)
      BadScale(i) == \E axis \in 1 .. 3 :
        ~ExponentialIsFinite(LinearScales(d)[Gaussian(d, "scales", i)[axis]])
      BadRotation(i) == Gaussian(d, "quats", i)[4] < kQuaternionTagBase
      BadQuaternion(i) ==
        ~BadRotation(i) /\ ~Normalizable(UnpackRotation(Gaussian(d, "quats", i)))
  IN  CASE name = "positions" -> Check(Some(d, BadPosition), "malformedMetadata")
        [] name = "scales"    -> Check(Some(d, BadScale), "invalidCodebook")
        [] name = "rotations" ->
             FirstFailure(<<Check(Some(d, BadRotation), "malformedRotation"),
                            Check(Some(d, BadQuaternion), "internalError")>>)
        [] OTHER -> NoProblem

Filled(c, decoded) ==
  [name \in DOMAIN c |-> IF name \in DOMAIN decoded THEN decoded[name] ELSE c[name]]

OutOfRange(d) == Cardinality({i \in 0 .. d.count - 1 : IsOutOfRange(d, i)})

(* One loop over the Gaussians after the other; the last is left out of a  *)
(* cloud without bands, and allocates what it fills.                       *)
DecodeStage ==
  /\ pc = "stages" /\ stage <= Len(Stages)
  /\ LET name    == Stages[stage]
         skipped == name = "restCoefficients" /\ Document.shBands = 0
         problem == StageProblem(name, Document)
         decoded == DecodedStage(name, Document)
     IN  \/ /\ name = "restCoefficients" /\ ~skipped
            /\ Fail("modelAllocationFailed") /\ fault' = TRUE
            /\ UNCHANGED <<stage, cloud, labelsOutOfRange>>
         \/ /\ problem # NoProblem
            /\ Fail(problem)
            /\ UNCHANGED <<stage, cloud, labelsOutOfRange, fault>>
         \/ /\ problem = NoProblem
            /\ stage' = stage + 1 /\ Continue("stages") /\ UNCHANGED fault
            /\ cloud' = IF skipped THEN cloud ELSE Filled(cloud, decoded)
            /\ labelsOutOfRange' =
                 IF name = "restCoefficients" /\ ~skipped THEN OutOfRange(Document)
                 ELSE labelsOutOfRange
  /\ UNCHANGED <<fileVars, request, metadata, document, warned, stats,
                 authorVars, layer>>

IsValidCloud(c, d) ==
  ValidateGaussianCloud(
    [count |-> d.count, shDegree |-> d.shBands,
     length |-> [name \in Array |-> Len(c[name])],
     numeric |-> /\ \A g \in DOMAIN c.scales, axis \in 1 .. 3 :
                      /\ ExponentialIsFinite(c.scales[g][axis])
                      /\ ExponentialIsPositive(c.scales[g][axis])
                 /\ \A g \in DOMAIN c.rotations : IsNormalized(c.rotations[g])
                 /\ \A g \in DOMAIN c.opacities : c.opacities[g] \in 0 .. ByteMax])

ConvertFrame ==
  /\ pc = "stages" /\ stage > Len(Stages)
  /\ cloud' = FlipYZAxes(cloud)
  /\ IF IsValidCloud(cloud', Document) THEN Continue("finish")
     ELSE Fail("cloudValidationFailed")
  /\ UNCHANGED <<fileVars, request, metadata, document, stage, labelsOutOfRange,
                 warned, stats, authorVars, layer, fault>>

Warnings == IF labelsOutOfRange # 0 THEN {"shLabelsOutOfRange"} ELSE {}

(* In floats.                                                              *)
ComputeDecodedByteSize(c) ==
  3 * Len(c.positions) + 3 * Len(c.scales) + 4 * Len(c.rotations)
    + Len(c.opacities) + 3 * Len(c.dcCoefficients) + 3 * Len(c.restCoefficients)

(* Three times the largest scale must be a float.                          *)
ExtentOverflows(c) ==
  \E g \in DOMAIN c.scales, axis \in 1 .. 3 : c.scales[g][axis] > kLogWide

\* Slip: the result is moved to the caller before it is measured.
FinishDecode_Moved ==
  /\ pc = "finish"
  /\ warned' = Warnings
  /\ stats' = IF ~request.stats THEN stats
              ELSE [gaussianCount |-> Document.count,
                    shDegree |-> Document.shBands,
                    warningCount |-> Cardinality(Warnings),
                    sourceBytes |-> Document.size,
                    decodedBytes |-> ComputeDecodedByteSize(EmptyCloud),
                    hasBounds |-> ~ExtentOverflows(cloud)]
  /\ Continue("author")
  /\ UNCHANGED <<fileVars, request, decodeVars, authorVars, layer, fault>>
(* The decoder warns and measures, the file format reports and bounds; the *)
(* source size is what the reader read, not that of another open.          *)
FinishDecode ==
  /\ pc = "finish"
  /\ warned' = Warnings
  /\ stats' = IF ~request.stats THEN stats
              ELSE [gaussianCount |-> Document.count,
                    shDegree |-> Document.shBands,
                    warningCount |-> Cardinality(Warnings),
                    sourceBytes |-> Document.size,
                    decodedBytes |-> ComputeDecodedByteSize(cloud),
                    hasBounds |-> ~ExtentOverflows(cloud)]
  /\ Continue("author")
  /\ UNCHANGED <<fileVars, request, decodeVars, authorVars, layer, fault>>

StartWorker == Spawn /\ UNCHANGED <<fileVars, request, decodeVars, warned, stats>>

(* What the writer publishes; LayerWriter shows that it is the whole cloud.*)
Header(m) ==
  [kind |-> "metadata", count |-> m.gaussianCount, shDegree |-> m.shDegree]
Full(c, d) ==
  [kind |-> "full", count |-> d.count, shDegree |-> d.shBands, cloud |-> c]

WriterProblem ==
  IF request.metadataOnly
  THEN Check(Observes(request.changeBlock), "scaffoldAuthoringFailed")
  ELSE FirstFailure(<<
    Check(~IsValidCloud(cloud, Document), "cloudValidationFailed"),
    Check(Observes(request.changeBlock), "scaffoldAuthoringFailed"),
    Check(ExtentOverflows(cloud), "extentOverflow")>>)

WorkerAuthors ==
  /\ Author(WriterProblem, IF request.metadataOnly THEN Header(metadata)
                           ELSE Full(cloud, Document))
  /\ UNCHANGED <<fileVars, request, decodeVars, warned, stats>>

WorkerThrows ==
  EndByException /\ UNCHANGED <<fileVars, request, decodeVars, warned, stats>>

Join == Get /\ UNCHANGED <<fileVars, request, decodeVars, warned, stats>>

TransferContent == Transfer /\ LeaveRead

Return == pc = "return" /\ LeaveRead /\ UNCHANGED <<result, layer>>

Caller ==
  \/ ReadMetadata \/ ReadDocument \/ ReaderFails \/ ReaderFaults \/ Throw
  \/ CheckDocument \/ Allocate \/ DecodeStage \/ ConvertFrame \/ FinishDecode
  \/ StartWorker \/ Join \/ TransferContent \/ Return

Worker == WorkerThrows \/ WorkerAuthors

Next == EditFile \/ Call \/ Caller \/ Worker

(* Both threads run on; nobody has to call, or to edit the file.           *)
Spec == Init /\ [][Next]_vars /\ WF_vars(Caller) /\ WF_vars(Worker)
-----------------------------------------------------------------------------
(* What a container must be to be imported: every position within the      *)
(* range of a float, every scale that is used a positive one with an       *)
(* extent, every rotation tagged.  What no Gaussian uses does not matter.  *)
Importable(version, r) ==
  LET v == Files[version] IN
  IF r.metadataOnly THEN v.headerProblem = NoProblem
  ELSE /\ v.problem = NoProblem
       /\ \A i \in 0 .. v.count - 1, axis \in 1 .. 3 :
            /\ v.maxs[axis] - v.mins[axis] \in -kFloatLimit .. kFloatLimit
            /\ AbsoluteOf(PositionMeans(v, i, axis)) <= kLogMax * kPositionCodeMaximum
            /\ v.scalesCodebook[v.planes[3].texel[i][axis]] \in kLogMin .. kLogWide
            /\ v.planes[4].texel[i][4] \in ByteMax - 3 .. ByteMax

(* The layer a version stands for, in the frame of the model: a half turn  *)
(* about x away from that of the file.                                     *)
Content(version, r) ==
  LET v == Files[version]
      Texels(p) == v.planes[p].texel
      Label0(i) == WordOf(Texels(7)[i][1], Texels(7)[i][2])
      InFrame(means) == [means EXCEPT !.j = -@, !.k = -@]
      Rest(g, c) ==
        IF Label0(g - 1) \notin 0 .. v.paletteCount - 1 THEN <<0, 0, 0>>
        ELSE LET colour == CentroidMeans(v, Label0(g - 1), c - 1)
             IN  [channel \in 1 .. 3 |-> HalfTurnSign(c) * colour[channel]]
      OfEach(Means(_)) == [g \in 1 .. v.count |-> Means(g - 1)]
  IN  IF r.metadataOnly
      THEN [kind |-> "metadata", count |-> v.count, shDegree |-> v.shBands]
      ELSE [kind |-> "full", count |-> v.count, shDegree |-> v.shBands,
            cloud |->
              [positions |-> OfEach(LAMBDA i :
                 [axis \in 1 .. 3 |-> (IF axis = 1 THEN 1 ELSE -1)
                                        * PositionMeans(v, i, axis)]),
               opacities |-> OfEach(LAMBDA i : Texels(5)[i][4]),
               scales |-> OfEach(LAMBDA i : Colour(v.scalesCodebook, Texels(3)[i])),
               dcCoefficients |-> OfEach(LAMBDA i : Colour(v.sh0Codebook, Texels(5)[i])),
               rotations |-> OfEach(LAMBDA i : InFrame(RotationMeans(Texels(4)[i]))),
               restCoefficients |-> Interleaved(v.count, Coefficients(v), Rest)]]

Readings(versions) == versions    \* SogReader hands out one version

Promise ==
  INSTANCE ImportSpec WITH Version <- Versions, Request <- Requests,
                           calling <- pc # "idle"

(* Whatever happens to the file meanwhile, a call replaces the layer by    *)
(* exactly what one version of the file stands for - every code joined,    *)
(* every palette label looked up, every axis turned - or fails for a       *)
(* reason and leaves the layer as it was (GaussianSogFileFormat.cpp:       *)
(* 273-276, GaussianSogDecoder.cpp:178-338).                               *)
ImplementsPromise == Promise!Spec

(* The statistics describe what is authored, and their source size is that *)
(* of the very version it was decoded from (GaussianSogDecoder.cpp:350-361,*)
(* GaussianSogFileFormat.cpp:320-325).                                     *)
StatsDescribeLayer ==
  pc = "transfer" /\ ~request.metadataOnly /\ request.stats =>
    /\ stats.gaussianCount = generated.count
    /\ stats.shDegree = generated.shDegree
    /\ stats.decodedBytes
         = generated.count * (3 + 3 + 4 + 1 + 3 + 3 * RestPerGaussian(generated.shDegree))
    /\ stats.warningCount = Cardinality(warned)
    /\ stats.hasBounds
    /\ \E v \in seen : stats.sourceBytes = Files[v].size /\ generated = Content(v, request)

(* A Gaussian without its higher bands is never passed over in silence:    *)
(* one warning when there is one, none when there is none (GaussianSog-    *)
(* Diagnostics.h:77-82).                                                   *)
DegradedIffWarned ==
  pc = "transfer" /\ ~request.metadataOnly =>
    (warned # {} <=>
       /\ Document.shBands # 0
       /\ \E i \in 0 .. Document.count - 1 :
            LET label == Document.planes[7].texel[i] IN
            label[1] + label[2] * (ByteMax + 1) \notin 0 .. Document.paletteCount - 1)

=============================================================================
