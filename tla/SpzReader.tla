------------------------------ MODULE SpzReader ------------------------------
(***************************************************************************)
(* SpzReader of the gaussian-spz plugin: CanRead, ReadHeader and Read over *)
(* a gzip member that is inflated piece by piece.  A call opens the file   *)
(* up to twice, and it may be replaced in between.                         *)
(*                                                                         *)
(* Data abstraction: a version of the file is its size and, in file order, *)
(* the end of the gzip header (offset) with the byte that makes it invalid *)
(* (badAt, 0 if none), a DEFLATE stream that yields total bytes at a fixed *)
(* ratio and breaks at byte corruptAt (unless it has ended), and whether  *)
(* the checksums in the trailer match.                                     *)
(***************************************************************************)
EXTENDS SpzFormat, Diagnostics

CONSTANTS
  Versions,               \* what the file may be
  EditVersions,           \* what it may become while it is read
  kMaxGaussianCount,      \* the shared import limit
  kMaxPointCount,         \* the format's limit
  kMaxDeflateExpansion,   \* bytes one compressed byte can yield
  kPrefixLimit,           \* bytes of a first, bounded read
  kCanReadRetryLimit,     \* bytes of CanRead's second read
  kMaxSpzFileBytes,       \* bytes of an unbounded read
  MaxExtensionBytes,      \* bytes of extension records kept
  ScratchBytes            \* bytes inflated per iteration behind the payload

ASSUME LimitsAssumption ==
  /\ kMaxGaussianCount \in Nat /\ kMaxPointCount \in Nat
  /\ kMaxDeflateExpansion \in Nat \ {0}
  /\ kPrefixLimit \in Nat \ {0, 1}       \* it holds the gzip signature
  /\ kMaxSpzFileBytes \in Nat
  /\ kCanReadRetryLimit \in Nat \ {0}
  /\ MaxExtensionBytes \in Nat /\ ScratchBytes \in Nat \ {0}

kHeaderSize  == 16
kTrailerSize == 8
kMagicSize   == 4

HeaderFields == [magic : BOOLEAN, version : Nat, pointCount : Nat,
                 shDegree : Nat, extensions : BOOLEAN]

IsVersion(v) ==
  /\ v.opens \in BOOLEAN /\ v.signature \in {"gzip", "ngsp", "unknown"}
  /\ v.size \in Nat /\ v.offset \in Nat /\ v.badAt \in 0 .. v.offset
  /\ v.total \in Nat /\ v.corruptAt \in Nat
  /\ v.ratio \in 1 .. kMaxDeflateExpansion
  /\ v.header \in HeaderFields
  /\ v.crcMatches \in BOOLEAN /\ v.lengthMatches \in BOOLEAN

ASSUME VersionsAssumption == \A v \in Versions : IsVersion(v)
ASSUME EditAssumption == EditVersions \subseteq Versions

VARIABLES
  file, seen,     \* the file, and what it has been since the call began
  operation,      \* the method called
  pc, result,     \* where the call is; what it returns
  error,          \* its diagnostic
  data,           \* the bytes loaded: [version, length, last]
  position,       \* bytes inflated so far
  finished,       \* the inflator has seen the end of the stream
  header,         \* the header handed out
  payload,        \* bytes of the payload buffer that are filled
  extensions,     \* bytes of extension records kept
  undeclared,     \* bytes that follow the payload and should not
  spans,          \* the spans of the document
  fault           \* an allocation was refused

fileVars == <<file, seen>>
inflator == <<position, finished>>
document == <<header, payload, extensions, undeclared, spans>>
vars == <<fileVars, operation, pc, result, error, data, inflator, document,
          fault>>

None == <<>>

Least(a, b) == IF a <= b THEN a ELSE b
CeilDiv(a, b) == (a + b - 1) \div b

(* ---- The gzip member --------------------------------------------------- *)

(* The whole file, or the prefix a bounded read asks for; last when no     *)
(* further load can follow.                                                *)
Load(v, limit, last) ==
  [version |-> v, length |-> Least(v.size, limit), last |-> last]
IsWhole(d) == d.length = d.version.size

Signature(d) ==
  IF \/ d.length >= 4
     \/ d.length >= 2 /\ d.version.signature = "gzip"
  THEN d.version.signature ELSE "unknown"

(* Framing as far as it is loaded: a prefix that ends too early is         *)
(* inconclusive, a file that does is malformed.                            *)
ParseGzipHeader(d, complete) ==
  IF d.version.badAt \in 1 .. d.length THEN "malformed"
  ELSE IF d.length >= d.version.offset THEN "ok"
  ELSE IF complete THEN "malformed" ELSE "needMore"

CompressedSize(v) == CeilDiv(v.total, v.ratio) + 1    \* with its terminator
Input(d) == d.length - d.version.offset

(* Bytes the loaded part of the stream can yield.                          *)
Reachable(d) == Least(d.version.total, d.version.ratio * Input(d))

(* The stream's end is found by a pump that has room left, and may be      *)
(* found by one that fills its buffer with the last byte.                  *)
Pump(d, from, room) ==
  LET to    == Least(from + room, Reachable(d))
      ended == to = d.version.total /\ Input(d) >= CompressedSize(d.version)
  IN  IF d.version.corruptAt < to
      THEN [produced |-> 0, status |-> {"corrupt"}]
      ELSE [produced |-> to - from,
            status |-> IF ended /\ to - from < room THEN {"end"}
                       ELSE IF ended THEN {"end", "progress"}
                       ELSE {"progress"}]

(* ---- The header -------------------------------------------------------- *)

ValidateHeader(h) ==
  FirstFailure(<<
    Check(~h.magic, "notSpzContainer"),
    Check(h.version \notin 1 .. 3, "unsupportedVersion"),
    Check(h.pointCount = 0, "emptyPointSet"),
    Check(h.pointCount > kMaxPointCount, "invalidPointCount"),
    Check(h.pointCount > kMaxGaussianCount, "importLimitExceeded"),
    Check(h.shDegree > kSpecMaxShDegree, "invalidShDegree")>>)

\* Slip: the trailer is counted as compressed data, and nothing is expanded.
Plausible_NoExpansion(h, compressed) ==
  kHeaderSize + ExpectedPayloadBytes(h) <= compressed
(* No stream of this size can hold the payload the header declares.        *)
Plausible(h, compressed) ==
  kHeaderSize + ExpectedPayloadBytes(h) <= compressed * kMaxDeflateExpansion

PlaintextProblem(d) ==
  IF d.length < 8 \/ d.version.header.version < 4
  THEN "malformedContainer" ELSE "unsupportedVersion"

(* ---- The calls --------------------------------------------------------- *)

Operations == {"CanRead", "ReadHeader", "Read"}

Init ==
  /\ file \in Versions /\ seen = {file}
  /\ operation \in Operations
  /\ pc = "idle" /\ result = "none" /\ error = ""
  /\ data = None /\ position = 0 /\ finished = FALSE
  /\ header = None /\ payload = 0 /\ extensions = 0 /\ undeclared = 0
  /\ spans = None /\ fault = FALSE

EditFile ==
  /\ file' \in IF pc = "idle" THEN Versions ELSE EditVersions
  /\ seen' = IF pc = "idle" THEN {file'} ELSE seen \cup {file'}
  /\ UNCHANGED <<operation, pc, result, error, data, inflator, document, fault>>

Call ==
  /\ pc = "idle"
  /\ operation' \in Operations
  /\ pc' = IF operation' = "Read" THEN "probe" ELSE "prefix"
  /\ UNCHANGED <<fileVars, result, error, data, inflator, document, fault>>

Continue(next) == pc' = next /\ UNCHANGED <<result, error>>
\* Slip: the call returns without a result.
Fail_NoResult(code) == pc' = "return" /\ UNCHANGED result /\ error' = code
Fail(code) ==
  /\ pc' = "return" /\ result' = "false"
  /\ error' = IF operation = "CanRead" THEN "" ELSE code
Succeed == pc' = "return" /\ result' = "true" /\ UNCHANGED error

(* The size is asked for first: an oversized file is refused unread.       *)
ProbeSize ==
  /\ pc = "probe"
  /\ IF ~file.opens THEN Fail("unreadableFile")
     ELSE IF file.size > kMaxSpzFileBytes THEN Fail("importLimitExceeded")
     ELSE Continue("load")
  /\ UNCHANGED <<fileVars, operation, data, inflator, document, fault>>

(* What a load reads at most; "load" follows a probe or a short prefix.    *)
Limit == CASE pc = "prefix" -> kPrefixLimit
           [] pc = "retry"  -> kCanReadRetryLimit
           [] OTHER         -> kMaxSpzFileBytes

(* Except by CanRead, which wants only a prefix, the size is looked at     *)
(* again: the bytes must be the whole file.  A second load goes straight   *)
(* to the framing.                                                         *)
\* Slip: the size is not looked at again after the second open.
LoadFile_NotRechecked ==
  /\ pc \in {"prefix", "load", "retry"}
  /\ IF ~file.opens THEN Fail("unreadableFile") /\ UNCHANGED data
     ELSE /\ data' = Load(file, Limit, pc # "prefix")
          /\ Continue(IF pc = "prefix" \/ operation = "Read"
                      THEN "signature" ELSE "framing")
  /\ UNCHANGED <<fileVars, operation, inflator, document, fault>>
LoadFile ==
  /\ pc \in {"prefix", "load", "retry"}
  /\ IF ~file.opens THEN Fail("unreadableFile") /\ UNCHANGED data
     ELSE IF operation # "CanRead" /\ file.size > kMaxSpzFileBytes
     THEN Fail("importLimitExceeded") /\ UNCHANGED data
     ELSE /\ data' = Load(file, Limit, pc # "prefix")
          /\ Continue(IF pc = "prefix" \/ operation = "Read"
                      THEN "signature" ELSE "framing")
  /\ UNCHANGED <<fileVars, operation, inflator, document, fault>>

LoadFails ==
  /\ pc \in {"probe", "prefix", "load", "retry"}
  /\ Fail("unreadableFile") /\ fault' = TRUE
  /\ UNCHANGED <<fileVars, operation, data, inflator, document>>

(* Sizing a buffer may throw: CanRead declines, the others let it escape.  *)
Throw ==
  /\ \/ pc \in {"prefix", "load", "retry"}
     \/ pc = "drain" /\ header.extensions
  /\ pc' = "return" /\ fault' = TRUE
  /\ result' = IF operation = "CanRead" THEN "false" ELSE "threw"
  /\ UNCHANGED <<fileVars, operation, error, data, inflator, document>>

(* CanRead looks further once, if the file goes on behind the prefix.      *)
\* Slip: an inconclusive prefix is a refusal.
Decline_NoRetry == Fail("")
Decline ==
  IF ~data.last /\ ~IsWhole(data) THEN Continue("retry") ELSE Fail("")

CheckSignature ==
  /\ pc = "signature"
  /\ CASE Signature(data) = "gzip"    -> Continue("framing")
       [] Signature(data) = "unknown" -> Fail("notSpzContainer")
       [] OTHER -> IF operation = "CanRead" THEN Succeed
                   ELSE Fail(PlaintextProblem(data))
  /\ UNCHANGED <<fileVars, operation, data, inflator, document, fault>>

CheckFraming ==
  LET framing == ParseGzipHeader(data, operation = "Read" \/ IsWhole(data)) IN
  /\ pc = "framing"
  /\ IF operation = "CanRead"
     THEN IF framing = "ok" THEN Continue("magic") ELSE Decline
     ELSE CASE framing = "malformed" -> Fail("malformedContainer")
            [] framing = "needMore"  -> Continue("load")
            [] OTHER -> IF /\ operation = "Read"
                           /\ data.length < data.version.offset + kTrailerSize
                        THEN Fail("truncatedContainer") ELSE Continue("header")
  /\ UNCHANGED <<fileVars, operation, data, inflator, document, fault>>

InflatorFails ==
  /\ pc \in {"magic", "header"}
  /\ IF operation = "CanRead" THEN Decline ELSE Fail("internalError")
  /\ fault' = TRUE
  /\ UNCHANGED <<fileVars, operation, data, inflator, document>>

PumpMagic ==
  LET pump == Pump(data, 0, kMagicSize) IN
  /\ pc = "magic"
  /\ IF pump.produced = kMagicSize /\ data.version.header.magic
     THEN Succeed ELSE Decline
  /\ UNCHANGED <<fileVars, operation, data, inflator, document, fault>>

PumpHeader ==
  LET pump == Pump(data, 0, kHeaderSize) IN
  /\ pc = "header"
  /\ \E status \in pump.status :
       IF pump.produced = kHeaderSize
       THEN /\ position' = kHeaderSize /\ finished' = (status = "end")
            /\ Continue("validate")
       ELSE /\ UNCHANGED inflator
            /\ CASE status = "corrupt" -> Fail("corruptContainer")
                 [] status = "end"     -> Fail("malformedContainer")
                 [] OTHER -> IF operation = "ReadHeader" /\ ~IsWhole(data)
                             THEN Continue("load")
                             ELSE Fail("truncatedContainer")
  /\ UNCHANGED <<fileVars, operation, data, document, fault>>

(* Read goes on with the payload, ReadHeader is done.                      *)
ValidateHeaderBytes ==
  LET h          == data.version.header
      fileSize   == IF operation = "Read" THEN data.length
                    ELSE data.version.size
      compressed == fileSize - data.version.offset - kTrailerSize
      problem    == FirstFailure(<<
                      ValidateHeader(h),
                      Check(compressed < 0, "truncatedContainer"),
                      Check(~Plausible(h, compressed), "truncatedContainer")>>)
  IN
  /\ pc = "validate"
  /\ header' = h
  /\ IF problem # NoProblem THEN Fail(problem)
     ELSE IF operation = "Read" THEN Continue("allocate") ELSE Succeed
  /\ UNCHANGED <<fileVars, operation, data, inflator, payload, extensions,
                 undeclared, spans, fault>>

AllocatePayload ==
  /\ pc = "allocate"
  /\ \/ Continue("payload") /\ UNCHANGED fault
     \/ Fail("modelAllocationFailed") /\ fault' = TRUE
  /\ UNCHANGED <<fileVars, operation, data, inflator, document>>

PumpPayload ==
  LET expected == ExpectedPayloadBytes(header)
      pump     == Pump(data, position, expected)
  IN
  /\ pc = "payload"
  /\ \E status \in pump.status :
       IF pump.produced = expected
       THEN /\ position' = position + expected /\ finished' = (status = "end")
            /\ payload' = expected
            /\ Continue("drain")
       ELSE /\ UNCHANGED <<inflator, payload>>
            /\ Fail(IF status = "corrupt" THEN "corruptContainer"
                    ELSE "truncatedContainer")
  /\ UNCHANGED <<fileVars, operation, data, header, extensions, undeclared,
                 spans, fault>>

(* One iteration of the loop behind the payload: the bytes are extension   *)
(* records, kept up to a limit, or have no business there.  A pump that    *)
(* brings nothing while the stream goes on ends the loop.                  *)
\* Slip: every piece alone is compared with the limit.
DrainStream_LimitPerPiece ==
  LET pump == Pump(data, position, ScratchBytes) IN
  /\ pc = "drain" /\ ~finished
  /\ \E status \in pump.status :
       LET problem == FirstFailure(<<
             Check(status = "corrupt", "corruptContainer"),
             Check(header.extensions /\ pump.produced > MaxExtensionBytes,
                   "importLimitExceeded"),
             Check(status = "progress" /\ pump.produced = 0,
                   "truncatedContainer")>>)
       IN  IF problem # NoProblem THEN Fail(problem) /\ UNCHANGED <<inflator, document>>
           ELSE /\ position' = position + pump.produced
                /\ finished' = (status = "end")
                /\ IF header.extensions
                   THEN /\ extensions' = extensions + pump.produced
                        /\ UNCHANGED undeclared
                   ELSE /\ undeclared' = undeclared + pump.produced
                        /\ UNCHANGED extensions
                /\ Continue("drain") /\ UNCHANGED <<header, payload, spans>>
  /\ UNCHANGED <<fileVars, operation, data, fault>>
\* Slip: a pump that brings nothing is tried again.
DrainStream_Again ==
  LET pump == Pump(data, position, ScratchBytes) IN
  /\ pc = "drain" /\ ~finished
  /\ pump.status = {"progress"} /\ pump.produced = 0
  /\ UNCHANGED vars
DrainStream ==
  LET pump == Pump(data, position, ScratchBytes) IN
  /\ pc = "drain" /\ ~finished
  /\ \E status \in pump.status :
       LET problem == FirstFailure(<<
             Check(status = "corrupt", "corruptContainer"),
             Check(header.extensions
                     /\ pump.produced > MaxExtensionBytes - extensions,
                   "importLimitExceeded"),
             Check(status = "progress" /\ pump.produced = 0,
                   "truncatedContainer")>>)
       IN  IF problem # NoProblem THEN Fail(problem) /\ UNCHANGED <<inflator, document>>
           ELSE /\ position' = position + pump.produced
                /\ finished' = (status = "end")
                /\ IF header.extensions
                   THEN /\ extensions' = extensions + pump.produced
                        /\ UNCHANGED undeclared
                   ELSE /\ undeclared' = undeclared + pump.produced
                        /\ UNCHANGED extensions
                /\ Continue("drain") /\ UNCHANGED <<header, payload, spans>>
  /\ UNCHANGED <<fileVars, operation, data, fault>>

\* Slip: bytes behind the gzip member go unnoticed.
TrailerProblem_NoTrailing(d) ==
  LET trailer == d.version.offset + CompressedSize(d.version) IN
  FirstFailure(<<
    Check(undeclared # 0, "trailingData"),
    Check(d.length < trailer + kTrailerSize, "truncatedContainer"),
    Check(~d.version.crcMatches, "corruptContainer"),
    Check(~d.version.lengthMatches, "corruptContainer")>>)
TrailerProblem(d) ==
  LET trailer == d.version.offset + CompressedSize(d.version) IN
  FirstFailure(<<
    Check(undeclared # 0, "trailingData"),
    Check(d.length < trailer + kTrailerSize, "truncatedContainer"),
    Check(~d.version.crcMatches, "corruptContainer"),
    Check(~d.version.lengthMatches, "corruptContainer"),
    Check(d.length > trailer + kTrailerSize, "trailingData")>>)

CheckTrailer ==
  /\ pc = "drain" /\ finished
  /\ IF TrailerProblem(data) # NoProblem THEN Fail(TrailerProblem(data))
     ELSE Continue("slice")
  /\ UNCHANGED <<fileVars, operation, data, inflator, document, fault>>

SliceStreams ==
  /\ pc = "slice"
  /\ spans' = Slices(header)
  /\ Succeed
  /\ UNCHANGED <<fileVars, operation, data, inflator, header, payload,
                 extensions, undeclared, fault>>

Return ==
  /\ pc = "return"
  /\ pc' = "idle" /\ result' = "none" /\ error' = ""
  /\ data' = None /\ position' = 0 /\ finished' = FALSE
  /\ header' = None /\ payload' = 0 /\ extensions' = 0 /\ undeclared' = 0
  /\ spans' = None /\ fault' = FALSE /\ seen' = {file}
  /\ UNCHANGED <<file, operation>>

Step ==
  \/ ProbeSize \/ LoadFile \/ LoadFails \/ Throw \/ CheckSignature
  \/ CheckFraming \/ InflatorFails \/ PumpMagic \/ PumpHeader \/ ValidateHeaderBytes
  \/ AllocatePayload \/ PumpPayload \/ DrainStream \/ CheckTrailer
  \/ SliceStreams \/ Return

Next == EditFile \/ Call \/ Step

(* The called method runs on; nobody has to call, or to edit the file.     *)
Spec == Init /\ [][Next]_vars /\ WF_vars(Step)
-----------------------------------------------------------------------------
Phases == {"idle", "probe", "prefix", "load", "retry", "signature", "framing",
           "magic", "header", "validate", "allocate", "payload", "drain",
           "slice", "return"}

(* Types; what a phase may rely on has been produced before it.            *)
TypeOK ==
  /\ file \in Versions /\ seen \subseteq Versions /\ file \in seen
  /\ operation \in Operations /\ pc \in Phases
  /\ result \in {"none", "true", "false", "threw"}
  /\ result # "none" <=> pc = "return"
  /\ finished \in BOOLEAN /\ fault \in BOOLEAN
  /\ data # None => /\ data.version \in seen
                    /\ data.length \in 0 .. data.version.size
                    /\ data.last \in BOOLEAN
  /\ position \in Nat /\ payload \in Nat /\ extensions \in Nat
  /\ undeclared \in Nat
  /\ pc \in {"probe", "allocate", "payload", "drain", "slice"} =>
       operation = "Read"
  /\ pc \in {"retry", "magic"} => operation = "CanRead"
  /\ pc = "prefix" => operation # "Read"
  /\ pc \in {"load", "header", "validate"} => operation # "CanRead"
  /\ pc \in {"signature", "framing", "magic", "header", "validate",
             "allocate", "payload", "drain", "slice"} => data # None

(* ---- What is a container ----------------------------------------------- *)

ValidHeaderOf(v) ==
  /\ v.header.magic /\ v.header.version \in 1 .. 3
  /\ v.header.pointCount \in 1 .. Least(kMaxPointCount, kMaxGaussianCount)
  /\ v.header.shDegree \in 0 .. kSpecMaxShDegree

(* Bytes of the stream behind the declared attribute streams.              *)
Surplus(v) == v.total - kHeaderSize - ExpectedPayloadBytes(v.header)

(* A file is an SPZ container when it is exactly one gzip member, intact,  *)
(* of the header, its attribute streams and, where announced, extensions.  *)
IsContainer(v) ==
  /\ v.opens /\ v.signature = "gzip" /\ v.badAt = 0
  /\ v.size = v.offset + CompressedSize(v) + kTrailerSize
  /\ v.size <= kMaxSpzFileBytes
  /\ v.corruptAt >= v.total /\ v.crcMatches /\ v.lengthMatches
  /\ ValidHeaderOf(v)
  /\ Surplus(v) \in 0 .. IF v.header.extensions THEN MaxExtensionBytes ELSE 0

Returned(op) == pc = "return" /\ operation = op
Undisturbed  == seen = {file} /\ ~fault

(* Left alone, Read accepts a file exactly when it is a container, and     *)
(* every refusal says why (SpzReader.cpp:628-841).                         *)
ReadAcceptsContainers ==
  Returned("Read") /\ Undisturbed =>
    /\ result = "true" <=> IsContainer(file)
    /\ result = "false" <=> error # ""

(* Whatever happens to the file between the two opens: a document that is  *)
(* handed out is the whole of a container that was there during the call,  *)
(* and its spans tile the payload (SpzReader.cpp:651-671,825-840).         *)
DocumentIsOneContainer ==
  Returned("Read") /\ result = "true" =>
    \E v \in seen :
      /\ IsContainer(v)
      /\ header = v.header
      /\ payload = ExpectedPayloadBytes(v.header)
      /\ extensions = Surplus(v) /\ undeclared = 0
      /\ spans[1].offset = 0 /\ spans[6].offset + spans[6].size = payload
      /\ \A n \in 1 .. 5 : spans[n].offset + spans[n].size = spans[n + 1].offset

(* What Read accepts, the metadata-only path accepts with the same header, *)
(* although it reads a prefix and looks at the attribute streams never     *)
(* (SpzReader.cpp:576-626).                                                *)
HeaderReadAgrees ==
  Returned("ReadHeader") /\ Undisturbed =>
    /\ IsContainer(file) => result = "true"
    /\ result = "true" => header = file.header /\ ValidHeaderOf(file)

(* Routing claims every container whose magic lies within its bound, and   *)
(* no file that Read would say is not SPZ (SpzReader.cpp:537-574).         *)
RoutingAgrees ==
  Returned("CanRead") /\ Undisturbed =>
    /\ IsContainer(file)
         /\ file.offset + CeilDiv(kMagicSize, file.ratio)
              <= Least(kCanReadRetryLimit, file.size)
       => result = "true"
    /\ result = "true" => file.signature = "ngsp" \/ file.header.magic

(* Memory is bounded by the limits, whatever the file declares and however *)
(* it changes: bytes loaded, payload and extension records.                *)
BoundedMemory ==
  /\ data # None =>
       \/ data.length <= kPrefixLimit
       \/ operation = "CanRead" /\ data.length <= kCanReadRetryLimit
       \/ operation # "CanRead" /\ data.length <= kMaxSpzFileBytes
  /\ pc \in {"allocate", "payload", "drain", "slice"} =>
       ExpectedPayloadBytes(header) <= kMaxDeflateExpansion * data.length
  /\ extensions <= MaxExtensionBytes

(* Every call returns: the loop behind the payload ends, on any stream.    *)
CallReturns == (pc # "idle") ~> (pc = "idle")
=============================================================================
