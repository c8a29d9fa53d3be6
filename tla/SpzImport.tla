------------------------------ MODULE SpzImport ------------------------------
(***************************************************************************)
(* GaussianSpzFileFormat::Read with the decoder and the writer it calls.   *)
(* The container reader is the one step SpzReader shows it to be: it hands *)
(* out the whole of one version of the file, or fails.                     *)
(*                                                                         *)
(* Data abstraction: the bytes of positions and rotations have values; of  *)
(* the other streams every byte is told apart by its place in the format,  *)
(* and decodes to itself.                                                  *)
(***************************************************************************)
EXTENDS SpzFormat, SpzValues, GaussianCloud, Diagnostics, Authoring

CONSTANTS
  Versions,        \* what the file may be
  EditVersions,    \* what it may become while it is imported
  Requests         \* the calls the host makes

ASSUME EditAssumption == EditVersions \subseteq Versions

Words(n) == 0 .. 2^(ByteBits * n) - 1
IsHeader(h) ==
  /\ h.version \in 1 .. 3 /\ h.pointCount \in Nat \ {0}
  /\ h.shDegree \in 0 .. kSpecMaxShDegree
  /\ h.fractionalBits \in Words(1) /\ h.antialiased \in BOOLEAN

(* A version with no problem is one whose header, or all of it, SpzReader  *)
(* hands out; an internal error the reader has of a refused call alone.    *)
IsVersion(v) ==
  /\ v.size \in Nat /\ v.extensionBytes \in Nat
  /\ {v.problem, v.headerProblem} \cap {"internalError", "cloudValidationFailed"} = {}
  /\ NoProblem \in {v.problem, v.headerProblem} => IsHeader(v.header)
  /\ v.problem = NoProblem =>
       /\ v.position \in [0 .. v.header.pointCount - 1 ->
                            [0 .. 2 -> Words(BytesPerPosition(v.header) \div 3)]]
       /\ v.rotation \in [0 .. v.header.pointCount - 1 ->
                            Words(BytesPerRotation(v.header))]

ASSUME VersionsAssumption ==
  /\ \A v \in Versions : IsVersion(v)
  /\ \A r \in Requests : {r.metadataOnly, r.stats, r.changeBlock} \subseteq BOOLEAN

VARIABLES
  file, seen,      \* the file, and what it has been since the call began
  request,         \* the arguments of the current call
  header,          \* of a metadata-only read
  document,        \* what the container reader handed out
  array,           \* the next array to decode
  cloud,           \* the cloud decoded so far
  warned,          \* what TF_WARN has reported
  stats            \* GaussianImportStats

fileVars   == <<file, seen>>
decodeVars == <<header, document, array, cloud>>
vars == <<fileVars, request, pc, result, error, decodeVars, warned, stats,
          authorVars, layer, fault>>

(* In the order Decode allocates and fills them.                           *)
Arrays == <<"positions", "opacities", "scales", "dcCoefficients", "rotations",
            "restCoefficients">>

EmptyCloud == [positions |-> <<>>, opacities |-> <<>>, scales |-> <<>>,
               dcCoefficients |-> <<>>, rotations |-> <<>>,
               restCoefficients |-> <<>>]
NoStats == [gaussianCount |-> 0, shDegree |-> 0, warningCount |-> 0,
            sourceBytes |-> 0, decodedBytes |-> 0, hasBounds |-> FALSE]

(* ---- The file ---------------------------------------------------------- *)

StreamWidth(h) ==
  [positions |-> BytesPerPosition(h), alphas |-> 1, colors |-> 3, scales |-> 3,
   rotations |-> BytesPerRotation(h), sh |-> 3 * ShDimensions(h)]

(* A byte of Gaussian g; its value matters in two streams.                 *)
ByteOf(word, n) == (word \div 2^(ByteBits * n)) % 2^ByteBits
StoredByte(v, stream, g, n) ==
  LET width == BytesPerPosition(v.header) \div 3 IN
  [stream |-> stream, gaussian |-> g, byte |-> n,
   value  |-> CASE stream = "positions" ->
                     ByteOf(v.position[g][n \div width], n % width)
                [] stream = "rotations" -> ByteOf(v.rotation[g], n)
                [] OTHER -> 0]

(* The streams lie behind one another, the Gaussians of each in order.     *)
StreamStart(h) ==
  LET colors == BytesPerPosition(h) + 1 IN
  [positions |-> 0, alphas |-> BytesPerPosition(h), colors |-> colors,
   scales |-> colors + 3, rotations |-> colors + 6,
   sh |-> colors + 6 + BytesPerRotation(h)]
PayloadSize(h) == h.pointCount * (StreamStart(h).sh + StreamWidth(h).sh)
PayloadByte(v, n) ==
  LET count  == v.header.pointCount
      start  == StreamStart(v.header)
      width  == StreamWidth(v.header)
      stream == CHOOSE s \in DOMAIN start :
                  n \in count * start[s] .. count * (start[s] + width[s]) - 1
      within == n - count * start[stream]
  IN  StoredByte(v, stream, within \div width[stream], within % width[stream])

(* ---- The call ---------------------------------------------------------- *)

Init ==
  /\ file \in Versions /\ seen = {file}
  /\ request \in Requests
  /\ pc = "idle" /\ layer = None
  /\ result = "none" /\ error = "" /\ header = None /\ document = None
  /\ array = 1 /\ cloud = EmptyCloud /\ warned = {} /\ stats = NoStats
  /\ worker = "none" /\ generated = None /\ fault = FALSE

EditFile ==
  /\ file' \in IF pc = "idle" THEN Versions ELSE EditVersions
  /\ seen' = IF pc = "idle" THEN {file'} ELSE seen \cup {file'}
  /\ UNCHANGED <<request, pc, result, error, decodeVars, warned, stats,
                 authorVars, layer, fault>>

Call ==
  /\ pc = "idle"
  /\ request' \in Requests
  /\ pc' = (IF request'.metadataOnly THEN "metadata" ELSE "read")
  /\ result' = "none"
  /\ UNCHANGED <<fileVars, error, decodeVars, warned, stats, authorVars, layer,
                 fault>>

(* Read's locals end with it.                                              *)
LeaveRead ==
  /\ pc' = "idle"
  /\ error' = "" /\ header' = None /\ document' = None /\ array' = 1
  /\ cloud' = EmptyCloud /\ warned' = {} /\ stats' = NoStats
  /\ worker' = "none" /\ generated' = None
  /\ seen' = {file} /\ fault' = FALSE
  /\ UNCHANGED <<file, request>>

CheckSupportedShDegree(h) ==
  Check(h.shDegree > kMaxShDegree, "unsupportedShDegree")

(* DecodeMetadata.                                                         *)
ReadHeader ==
  /\ pc = "metadata" /\ file.headerProblem = NoProblem
  /\ header' = file.header
  /\ IF CheckSupportedShDegree(file.header) # NoProblem
     THEN Fail(CheckSupportedShDegree(file.header)) ELSE Continue("author")
  /\ UNCHANGED <<fileVars, request, document, array, cloud, warned, stats,
                 authorVars, layer, fault>>

ReadDocument ==
  /\ pc = "read" /\ file.problem = NoProblem
  /\ document' = file
  /\ Continue("check")
  /\ UNCHANGED <<fileVars, request, header, array, cloud, warned, stats,
                 authorVars, layer, fault>>

(* The reader's two opens may find what is wrong with either version.      *)
ReaderFails ==
  /\ \E v \in seen :
       LET problem == IF pc = "metadata" THEN v.headerProblem ELSE v.problem IN
       pc \in {"metadata", "read"} /\ problem # NoProblem /\ Fail(problem)
  /\ UNCHANGED <<fileVars, request, decodeVars, warned, stats, authorVars,
                 layer, fault>>

ReaderFaults ==
  /\ pc \in {"metadata", "read"}
  /\ Fail("internalError") /\ fault' = TRUE
  /\ UNCHANGED <<fileVars, request, decodeVars, warned, stats, authorVars, layer>>

(* std::bad_alloc from a buffer of the reader or a warning's string.       *)
Throw ==
  /\ \/ pc \in {"metadata", "read"}
     \/ pc = "arrays" /\ array > Len(Arrays)
  /\ pc' = "return" /\ result' = "threw" /\ fault' = TRUE
  /\ UNCHANGED <<fileVars, request, error, decodeVars, warned, stats,
                 authorVars, layer>>

SpansDisagree(h, spans, length) ==
  \/ spans[1].size # h.pointCount * BytesPerPosition(h)
  \/ spans[2].size # h.pointCount
  \/ spans[3].size # h.pointCount * 3
  \/ spans[4].size # h.pointCount * 3
  \/ spans[5].size # h.pointCount * BytesPerRotation(h)
  \/ spans[6].size # h.pointCount * 3 * ShDimensions(h)
  \/ spans[6].offset + spans[6].size # length

CheckDocument ==
  LET h       == document.header
      problem == FirstFailure(<<
                   CheckSupportedShDegree(h),
                   Check(SpansDisagree(h, Slices(h), PayloadSize(h)),
                         "internalError")>>)
  IN
  /\ pc = "check"
  /\ IF problem # NoProblem THEN Fail(problem) ELSE Continue("arrays")
  /\ UNCHANGED <<fileVars, request, decodeVars, warned, stats, authorVars,
                 layer, fault>>

(* ---- Decode ------------------------------------------------------------ *)

(* The n bytes at an offset into a span.                                   *)
Bytes(d, span, offset, n) ==
  [m \in 1 .. n |-> PayloadByte(d, span.offset + offset + m - 1)]
Values(bytes) == [n \in DOMAIN bytes |-> bytes[n].value]

DecodedPositions(d) ==
  LET h     == d.header
      width == BytesPerPosition(h) \div 3
      At(i, axis) == Word(Values(Bytes(d, Slices(h)[1],
                            i * BytesPerPosition(h) + axis * width, width)))
  IN  [g \in 1 .. h.pointCount |-> [axis \in 1 .. 3 |->
         IF h.version = 1 THEN HalfToFloat(At(g - 1, axis - 1))
         ELSE Fixed24ToFloat(At(g - 1, axis - 1), h.fractionalBits)]]

DecodedRotations(d) ==
  LET h      == d.header
      stride == BytesPerRotation(h)
      At(i)  == Values(Bytes(d, Slices(h)[5], i * stride, stride))
  IN  [g \in 1 .. h.pointCount |->
         IF h.version >= 3 THEN UnpackRotationSmallestThree(Word(At(g - 1)))
         ELSE UnpackRotationFirstThree(At(g - 1))]

DecodedRest(d) ==
  LET restDims == ShDimensions(d.header) IN
  [n \in 1 .. d.header.pointCount * restDims |->
     LET i           == (n - 1) \div restDims
         coefficient == (n - 1) % restDims
     IN  Bytes(d, Slices(d.header)[6], (i * restDims + coefficient) * 3, 3)]

(* n consecutive bytes per Gaussian.                                       *)
DecodedBytes(d, span, n) ==
  [g \in 1 .. d.header.pointCount |->
     Bytes(d, Slices(d.header)[span], (g - 1) * n, n)]

DecodedArray(name, d) ==
  CASE name = "positions" -> DecodedPositions(d)
    [] name = "opacities" -> DecodedBytes(d, 2, 1)
    [] name = "scales"    -> DecodedBytes(d, 4, 3)
    [] name = "dcCoefficients" -> DecodedBytes(d, 3, 3)
    [] name = "rotations" ->
         LET q == DecodedRotations(d)
         IN  [g \in DOMAIN q |-> NormalizeQuaternion(q[g][3], q[g][0], q[g][1], q[g][2])]
    [] OTHER -> DecodedRest(d)

ArrayProblem(name, d) ==
  CASE name = "positions" ->
         Check(/\ d.header.version = 1
               /\ \E g \in 1 .. d.header.pointCount, axis \in 1 .. 3 :
                    ~DecodedPositions(d)[g][axis].finite,
               "nonFinitePosition")
    [] name = "rotations" ->
         Check(\E g \in 1 .. d.header.pointCount :
                 ~Normalizable(DecodedRotations(d)[g]),
               "internalError")
    [] OTHER -> NoProblem

(* A cloud of degree 0 has no rest and allocates none.                     *)
DecodeArray ==
  /\ pc = "arrays" /\ array <= Len(Arrays)
  /\ LET name    == Arrays[array]
         problem == ArrayProblem(name, document)
     IN  \/ /\ name = "restCoefficients" => ShDimensions(document.header) # 0
            /\ Fail("modelAllocationFailed")
            /\ fault' = TRUE /\ UNCHANGED <<array, cloud>>
         \/ /\ problem # NoProblem
            /\ Fail(problem) /\ UNCHANGED <<array, cloud, fault>>
         \/ /\ problem = NoProblem
            /\ cloud' = [cloud EXCEPT ![name] = DecodedArray(name, document)]
            /\ array' = array + 1 /\ Continue("arrays") /\ UNCHANGED fault
  /\ UNCHANGED <<fileVars, request, header, document, warned, stats, authorVars,
                 layer>>

Gate(c, h) ==
  ValidateGaussianCloud(
    [count |-> h.pointCount, shDegree |-> h.shDegree,
     length |-> [name \in Array |-> Len(c[name])],
     numeric |-> /\ \A g \in DOMAIN c.positions, axis \in 1 .. 3 :
                      c.positions[g][axis].finite
                 /\ \A g \in DOMAIN c.rotations : IsNormalized(c.rotations[g])])

FinishDecode ==
  /\ pc = "arrays" /\ array > Len(Arrays)
  /\ IF Gate(cloud, document.header)
     THEN Continue(IF request.stats THEN "size" ELSE "warn")
     ELSE Fail("cloudValidationFailed")
  /\ UNCHANGED <<fileVars, request, decodeVars, warned, stats, authorVars,
                 layer, fault>>

Warnings(d) ==
  (IF d.extensionBytes > 0 THEN {"extensionsIgnored"} ELSE {})
    \cup (IF d.header.antialiased THEN {"antialiasedFlagIgnored"} ELSE {})

(* In floats.                                                              *)
ComputeDecodedByteSize(c) ==
  3 * Len(c.positions) + 3 * Len(c.scales) + 4 * Len(c.rotations)
    + Len(c.opacities) + 3 * Len(c.dcCoefficients) + 3 * Len(c.restCoefficients)

\* Slip: the result is moved to the caller before it is measured.
MeasureSource_Moved ==
  /\ pc = "size"
  /\ stats' = [NoStats EXCEPT !.gaussianCount = document.header.pointCount,
                              !.shDegree = document.header.shDegree,
                              !.sourceBytes = file.size,
                              !.decodedBytes = ComputeDecodedByteSize(EmptyCloud)]
  /\ Continue("warn")
  /\ UNCHANGED <<fileVars, request, decodeVars, warned, authorVars, layer, fault>>
(* FileSizeOf opens the file once more.                                    *)
MeasureSource ==
  /\ pc = "size"
  /\ stats' = [NoStats EXCEPT !.gaussianCount = document.header.pointCount,
                              !.shDegree = document.header.shDegree,
                              !.sourceBytes = file.size,
                              !.decodedBytes = ComputeDecodedByteSize(cloud)]
  /\ Continue("warn")
  /\ UNCHANGED <<fileVars, request, decodeVars, warned, authorVars, layer, fault>>

(* ComputeCloudExtent fails on an empty cloud only: e^(255/16 - 10), the   *)
(* largest scale there is, has a radius far inside float range.            *)
Warn ==
  /\ pc = "warn"
  /\ warned' = Warnings(document)
  /\ stats' = IF request.stats
              THEN [stats EXCEPT !.warningCount = Cardinality(Warnings(document)),
                                 !.hasBounds = Len(cloud.positions) # 0]
              ELSE stats
  /\ Continue("author")
  /\ UNCHANGED <<fileVars, request, decodeVars, authorVars, layer, fault>>

StartWorker == Spawn /\ UNCHANGED <<fileVars, request, decodeVars, warned, stats>>

(* What the writer publishes; LayerWriter shows that it is the whole cloud.*)
Metadata(h) == [kind |-> "metadata", count |-> h.pointCount, shDegree |-> h.shDegree]
Full(c, h)  == [kind |-> "full", count |-> h.pointCount, shDegree |-> h.shDegree,
                cloud |-> c]

WriterProblem ==
  FirstFailure(<<
    Check(~request.metadataOnly /\ ~Gate(cloud, document.header),
          "cloudValidationFailed"),
    Check(Observes(request.changeBlock), "scaffoldAuthoringFailed")>>)

WorkerAuthors ==
  /\ Author(WriterProblem, IF request.metadataOnly THEN Metadata(header)
                           ELSE Full(cloud, document.header))
  /\ UNCHANGED <<fileVars, request, decodeVars, warned, stats>>

WorkerThrows ==
  EndByException /\ UNCHANGED <<fileVars, request, decodeVars, warned, stats>>

Join == Get /\ UNCHANGED <<fileVars, request, decodeVars, warned, stats>>

TransferContent == Transfer /\ LeaveRead

Return == pc = "return" /\ LeaveRead /\ UNCHANGED <<result, layer>>

Caller ==
  \/ ReadHeader \/ ReadDocument \/ ReaderFails \/ ReaderFaults \/ Throw
  \/ CheckDocument \/ DecodeArray \/ FinishDecode \/ MeasureSource \/ Warn
  \/ StartWorker \/ Join \/ TransferContent \/ Return

Worker == WorkerThrows \/ WorkerAuthors

Next == EditFile \/ Call \/ Caller \/ Worker

(* Both threads run on; nobody has to call, or to edit the file.           *)
Spec == Init /\ [][Next]_vars /\ WF_vars(Caller) /\ WF_vars(Worker)
-----------------------------------------------------------------------------
(* What a file must be to be imported: a container of a supported degree,  *)
(* whose float16 positions, if it has such, are finite.                    *)
Importable(v, r) ==
  /\ v.header.shDegree <= kMaxShDegree
  /\ IF r.metadataOnly THEN v.headerProblem = NoProblem
     ELSE /\ v.problem = NoProblem
          /\ v.header.version = 1 =>
               \A g \in DOMAIN v.position : \A axis \in 0 .. 2 :
                 HalfIsFinite(v.position[g][axis])

(* The layer a version stands for: every value where the format places it, *)
(* in the meaning the format gives it.                                     *)
Content(v, r) ==
  LET h     == v.header
      count == h.pointCount
      Bytewise(stream, from, n, g) ==
        [m \in 1 .. n |-> StoredByte(v, stream, g, from + m - 1)]
      Position(word) == IF h.version = 1 THEN HalfMeans(word)
                        ELSE FixedMeans(word, h.fractionalBits)
      Turn(word) == IF h.version = 3 THEN SmallestThreeMeans(word)
                    ELSE FirstThreeMeans([n \in 1 .. 3 |-> ByteOf(word, n - 1)])
      Rest(g, c) == Bytewise("sh", 3 * (c - 1), 3, g - 1)
  IN  IF r.metadataOnly
      THEN [kind |-> "metadata", count |-> count, shDegree |-> h.shDegree]
      ELSE [kind |-> "full", count |-> count, shDegree |-> h.shDegree,
            cloud |->
              [positions |-> [g \in 1 .. count |-> [axis \in 1 .. 3 |->
                                Position(v.position[g - 1][axis - 1])]],
               opacities |-> [g \in 1 .. count |-> Bytewise("alphas", 0, 1, g - 1)],
               scales |-> [g \in 1 .. count |-> Bytewise("scales", 0, 3, g - 1)],
               dcCoefficients |->
                 [g \in 1 .. count |-> Bytewise("colors", 0, 3, g - 1)],
               rotations |-> [g \in 1 .. count |-> Turn(v.rotation[g - 1])],
               restCoefficients |-> Interleaved(count, ShDimensions(h), Rest)]]

Readings(versions) == versions    \* the container is read in one open

Promise ==
  INSTANCE ImportSpec WITH Version <- Versions, Request <- Requests,
                           calling <- pc # "idle"

(* Whatever happens to the file meanwhile, a call replaces the layer by    *)
(* exactly what one version of the file stands for - every byte at its     *)
(* place, every number with its value - or fails for a reason and leaves   *)
(* the layer as it was (GaussianSpzFileFormat.cpp:104-107).                *)
ImplementsPromise == Promise!Spec

(* What the decoder calls unreachable is (GaussianSpzDecoder.cpp:234-235,  *)
(* 357-359): no file, however it was made, ends in an internal error or is *)
(* stopped by the shared gate.                                             *)
NoInternalFailure ==
  pc = "return" /\ ~fault =>
    error \notin {"internalError", "cloudValidationFailed"}

(* The statistics describe what is authored: collected from the decoder's  *)
(* result before it is moved away, from the file format's warnings after;  *)
(* the source size comes from an open of its own and is that of a file     *)
(* that was there during the call.                                         *)
StatsDescribeLayer ==
  pc = "transfer" /\ ~request.metadataOnly /\ request.stats =>
    /\ stats.gaussianCount = generated.count
    /\ stats.shDegree = generated.shDegree
    /\ stats.decodedBytes
         = generated.count * (3 + 3 + 4 + 1 + 3 + 3 * RestPerGaussian(generated.shDegree))
    /\ stats.warningCount = Cardinality(warned)
    /\ stats.hasBounds
    /\ stats.sourceBytes \in {v.size : v \in seen}

(* Every call returns, also when the worker ends by an exception.          *)
CallReturns == (pc # "idle") ~> (pc = "idle")
=============================================================================
