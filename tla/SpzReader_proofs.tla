--------------------------- MODULE SpzReader_proofs ---------------------------
(***************************************************************************)
(* A document that SpzReader::Read hands out is the whole of one container *)
(* that was there during the call, and what a call holds is bounded, for   *)
(* every file, every sequence of replacements and every value of the       *)
(* limits. On a file left alone, the three methods accept exactly what     *)
(* they should, and agree with each other.                                 *)
(***************************************************************************)
EXTENDS SpzReader, WellFoundedInduction, TLAPS

(* ---- Chains of early returns ------------------------------------------ *)

LEMMA NatOrder == \A a, b \in Nat : a <= b \/ b < a
OBVIOUS

LEMMA FirstFailureIsNone ==
  ASSUME NEW codes, DOMAIN codes \subseteq Nat, FirstFailure(codes) = NoProblem
  PROVE  \A n \in DOMAIN codes : codes[n] = NoProblem
<1>. DEFINE failing == {n \in DOMAIN codes : codes[n] # NoProblem}
<1>. SUFFICES ASSUME failing # {} PROVE FALSE
  OBVIOUS
<1>0. failing \subseteq Nat
  OBVIOUS
<1>. DEFINE Less == {ss \in Nat \X Nat : ss[1] < ss[2]}
<1>1. IsWellFoundedOn(Less, Nat)
  BY NatLessThanWellFounded DEF OpToRel
<1>2. \E x \in failing : \A y \in failing : x <= y
  <2>1. \E x \in failing : \A y \in failing : ~(<<y, x>> \in Less)
    <3>. HIDE DEF failing, Less
    <3>. QED  BY <1>0, <1>1, WFMin
  <2>2. \A x, y \in Nat : y < x => <<y, x>> \in Less
    OBVIOUS
  <2>3. PICK x \in failing : \A y \in failing : ~(<<y, x>> \in Less)
    BY <2>1
  <2>. SUFFICES ASSUME NEW y \in failing PROVE x <= y
    OBVIOUS
  <2>4. x \in Nat /\ y \in Nat
    BY <1>0
  <2>5. <<y, x>> \notin Less
    BY <2>3
  <2>. HIDE DEF failing, Less
  <2>6. ~(y < x)
    BY <2>2, <2>4, <2>5
  <2>. QED  BY <2>4, <2>6, NatOrder, Zenon
<1>3. (CHOOSE n \in failing : \A m \in failing : n <= m) \in failing
  BY <1>2
<1>. QED  BY <1>3 DEF FirstFailure

LEMMA ThreePass ==
  ASSUME NEW a, NEW b, NEW c,
         FirstFailure(<<a, b, c>>) = NoProblem
  PROVE  a = NoProblem /\ b = NoProblem /\ c = NoProblem
<1>. DEFINE codes == <<a, b, c>>
<1>1. DOMAIN codes = 1 .. 3
  OBVIOUS
<1>2. \A n \in 1 .. 3 : codes[n] = NoProblem
  <2>1. 1 .. 3 \subseteq Nat
    OBVIOUS
  <2>. HIDE DEF codes
  <2>2. FirstFailure(codes) = NoProblem
    BY DEF codes
  <2>. QED  BY <1>1, <2>1, <2>2, FirstFailureIsNone, Zenon
<1>3. 1 \in 1 .. 3 /\ 2 \in 1 .. 3 /\ 3 \in 1 .. 3
  OBVIOUS
<1>. QED  BY <1>2, <1>3

LEMMA FivePass ==
  ASSUME NEW a, NEW b, NEW c, NEW d, NEW e,
         FirstFailure(<<a, b, c, d, e>>) = NoProblem
  PROVE  a = NoProblem /\ b = NoProblem /\ c = NoProblem /\ d = NoProblem /\ e = NoProblem
<1>. DEFINE codes == <<a, b, c, d, e>>
<1>1. DOMAIN codes = 1 .. 5
  OBVIOUS
<1>2. \A n \in 1 .. 5 : codes[n] = NoProblem
  <2>1. 1 .. 5 \subseteq Nat
    OBVIOUS
  <2>. HIDE DEF codes
  <2>2. FirstFailure(codes) = NoProblem
    BY DEF codes
  <2>. QED  BY <1>1, <2>1, <2>2, FirstFailureIsNone, Zenon
<1>3. 1 \in 1 .. 5 /\ 2 \in 1 .. 5 /\ 3 \in 1 .. 5 /\ 4 \in 1 .. 5 /\ 5 \in 1 .. 5
  OBVIOUS
<1>. QED  BY <1>2, <1>3

LEMMA SixPass ==
  ASSUME NEW a, NEW b, NEW c, NEW d, NEW e, NEW f,
         FirstFailure(<<a, b, c, d, e, f>>) = NoProblem
  PROVE  a = NoProblem /\ b = NoProblem /\ c = NoProblem /\ d = NoProblem /\ e = NoProblem /\ f = NoProblem
<1>. DEFINE codes == <<a, b, c, d, e, f>>
<1>1. DOMAIN codes = 1 .. 6
  OBVIOUS
<1>2. \A n \in 1 .. 6 : codes[n] = NoProblem
  <2>1. 1 .. 6 \subseteq Nat
    OBVIOUS
  <2>. HIDE DEF codes
  <2>2. FirstFailure(codes) = NoProblem
    BY DEF codes
  <2>. QED  BY <1>1, <2>1, <2>2, FirstFailureIsNone, Zenon
<1>3. 1 \in 1 .. 6 /\ 2 \in 1 .. 6 /\ 3 \in 1 .. 6 /\ 4 \in 1 .. 6 /\ 5 \in 1 .. 6 /\ 6 \in 1 .. 6
  OBVIOUS
<1>. QED  BY <1>2, <1>3

(* ---- Sizes ------------------------------------------------------------ *)

LEMMA LeastFacts ==
  ASSUME NEW a \in Int, NEW b \in Int
  PROVE  /\ Least(a, b) \in Int /\ Least(a, b) <= a /\ Least(a, b) <= b
         /\ Least(a, b) = a \/ Least(a, b) = b
BY DEF Least

LEMMA ProductIsNat ==
  ASSUME NEW a \in Nat, NEW b \in Nat
  PROVE  a * b \in Nat
OBVIOUS

LEMMA ProductGrows ==
  ASSUME NEW a \in Int, NEW b \in Nat, NEW k \in Nat, a <= b
  PROVE  a * k <= k * b
<1>1. PICK d \in Nat : b = a + d
  <2>1. b - a \in Nat /\ b = a + (b - a)
    OBVIOUS
  <2>. QED  BY <2>1
<1>2. k * b = a * k + k * d
  BY <1>1
<1>3. k * d \in Nat /\ a * k \in Int
  OBVIOUS
<1>. QED  BY <1>2, <1>3

LEMMA StreamFacts ==
  ASSUME NEW h \in HeaderFields
  PROVE  /\ BytesPerPosition(h) \in Nat /\ BytesPerRotation(h) \in Nat
         /\ ShDimensions(h) \in Nat
         /\ ExpectedPayloadBytes(h) \in Nat
<1>1. h.shDegree \in Nat /\ h.version \in Nat /\ h.pointCount \in Nat
  BY DEF HeaderFields
<1>2. BytesPerPosition(h) \in Nat /\ BytesPerRotation(h) \in Nat
  BY <1>1 DEF BytesPerPosition, BytesPerRotation
<1>3. ShDimensions(h) \in Nat
  <2>1. (h.shDegree + 1) * (h.shDegree + 1) = h.shDegree * h.shDegree + 2 * h.shDegree + 1
    BY <1>1
  <2>2. h.shDegree * h.shDegree \in Nat
    BY <1>1
  <2>. QED  BY <1>1, <2>1, <2>2 DEF ShDimensions
<1>4. ExpectedPayloadBytes(h) \in Nat
  <2>. DEFINE per == BytesPerPosition(h) + 1 + 3 + 3 + BytesPerRotation(h)
                       + 3 * ShDimensions(h)
  <2>1. per \in Nat
    BY <1>2, <1>3
  <2>2. ExpectedPayloadBytes(h) = per * h.pointCount
    BY DEF ExpectedPayloadBytes
  <2>. HIDE DEF per
  <2>. QED  BY <1>1, <2>1, <2>2
<1>. QED  BY <1>2, <1>3, <1>4

(* The six slices lie behind one another and end with the payload.        *)
LEMMA SlicesTilePayload ==
  ASSUME NEW h \in HeaderFields
  PROVE  LET s == Slices(h) IN
         /\ s[1].offset = 0
         /\ s[6].offset + s[6].size = ExpectedPayloadBytes(h)
         /\ \A n \in 1 .. 5 : s[n].offset + s[n].size = s[n + 1].offset
<1>. DEFINE p == h.pointCount
            size == StreamBytes(h)
            s == Slices(h)
<1>1. p \in Nat
  BY DEF HeaderFields
<1>2. /\ size.positions = p * BytesPerPosition(h) /\ size.alphas = p
      /\ size.colors = p * 3 /\ size.scales = p * 3
      /\ size.rotations = p * BytesPerRotation(h)
      /\ size.sh = p * 3 * ShDimensions(h)
  BY DEF StreamBytes
<1>3. /\ size.positions \in Nat /\ size.alphas \in Nat /\ size.colors \in Nat
      /\ size.scales \in Nat /\ size.rotations \in Nat /\ size.sh \in Nat
  <2>1. p * 3 \in Nat
    BY <1>1
  <2>. QED  BY <1>1, <1>2, <2>1, StreamFacts, ProductIsNat
<1>4. size.positions + size.alphas + size.colors + size.scales + size.rotations
        + size.sh = ExpectedPayloadBytes(h)
  <2>. DEFINE bp == BytesPerPosition(h)
              br == BytesPerRotation(h)
              sd == ShDimensions(h)
  <2>1. bp \in Nat /\ br \in Nat /\ sd \in Nat
    BY StreamFacts
  <2>2. ExpectedPayloadBytes(h) = (bp + 1 + 3 + 3 + br + 3 * sd) * p
    BY DEF ExpectedPayloadBytes
  <2>. HIDE DEF p, bp, br, sd
  <2>3. (bp + 1 + 3 + 3 + br + 3 * sd) * p
          = p * bp + p + p * 3 + p * 3 + p * br + p * 3 * sd
    BY <1>1, <2>1
  <2>. QED  BY <1>2, <2>2, <2>3 DEF p, bp, br, sd
<1>5. /\ s[1] = [offset |-> 0, size |-> size.positions]
      /\ s[2] = [offset |-> size.positions, size |-> size.alphas]
      /\ s[3] = [offset |-> size.positions + size.alphas, size |-> size.colors]
      /\ s[4] = [offset |-> size.positions + size.alphas + size.colors,
                 size |-> size.scales]
      /\ s[5] = [offset |-> size.positions + size.alphas + size.colors
                              + size.scales, size |-> size.rotations]
      /\ s[6] = [offset |-> size.positions + size.alphas + size.colors
                              + size.scales + size.rotations, size |-> size.sh]
  BY DEF Slices
<1>6. \A n \in 1 .. 5 : n = 1 \/ n = 2 \/ n = 3 \/ n = 4 \/ n = 5
  OBVIOUS
<1>. HIDE DEF s, size
<1>7. \A n \in 1 .. 5 : s[n].offset + s[n].size = s[n + 1].offset
  BY <1>3, <1>5, <1>6
<1>8. s[1].offset = 0 /\ s[6].offset + s[6].size = ExpectedPayloadBytes(h)
  BY <1>3, <1>4, <1>5
<1>. QED  BY <1>7, <1>8 DEF s

(* ---- What one pump brings --------------------------------------------- *)

LEMMA RecordIsSome ==
  ASSUME NEW v, NEW n, NEW b
  PROVE  [version |-> v, length |-> n, last |-> b] # None
<1>1. "length" \in DOMAIN [version |-> v, length |-> n, last |-> b]
  OBVIOUS
<1>2. "length" \notin DOMAIN None
  BY DEF None
<1>. QED  BY <1>1, <1>2, Zenon

LEMMA VersionFacts ==
  ASSUME NEW v, IsVersion(v)
  PROVE  /\ v.total \in Nat /\ v.offset \in Nat /\ v.corruptAt \in Nat
         /\ v.ratio \in Nat \ {0} /\ v.size \in Nat
         /\ v.badAt \in 0 .. v.offset /\ v.header \in HeaderFields
         /\ CompressedSize(v) \in Int
<1>1. /\ v.total \in Nat /\ v.offset \in Nat /\ v.corruptAt \in Nat
      /\ v.ratio \in Nat \ {0} /\ v.size \in Nat
      /\ v.badAt \in 0 .. v.offset /\ v.header \in HeaderFields
  BY LimitsAssumption DEF IsVersion
<1>2. CompressedSize(v) \in Int
  BY <1>1 DEF CompressedSize, CeilDiv
<1>. QED  BY <1>1, <1>2

LEMMA ReachableIsNat ==
  ASSUME NEW d, IsVersion(d.version), d.length \in Nat,
         d.version.offset <= d.length
  PROVE  /\ Reachable(d) \in Nat /\ Reachable(d) <= d.version.total
         /\ Input(d) \in Nat
<1>1. Input(d) \in Nat
  BY VersionFacts DEF Input
<1>2. d.version.ratio * Input(d) \in Nat
  BY <1>1, VersionFacts, ProductIsNat
<1>. HIDE DEF Input
<1>. QED  BY <1>1, <1>2, VersionFacts DEF Reachable, Least

(* A pump stays within its room and within what is loaded; it reports the  *)
(* end only where the stream ends, intact and wholly loaded.               *)
LEMMA PumpFacts ==
  ASSUME NEW d, IsVersion(d.version), d.length \in Nat,
         d.version.offset <= d.length,
         NEW from \in Nat, from <= Reachable(d), NEW room \in Nat,
         NEW status \in Pump(d, from, room).status
  PROVE  /\ Pump(d, from, room).produced \in 0 .. room
         /\ from + Pump(d, from, room).produced <= Reachable(d)
         /\ status = "end" =>
              /\ from + Pump(d, from, room).produced = d.version.total
              /\ Input(d) >= CompressedSize(d.version)
              /\ d.version.corruptAt >= d.version.total
<1>. DEFINE to == Least(from + room, Reachable(d))
            ended == to = d.version.total /\ Input(d) >= CompressedSize(d.version)
<1>1. Reachable(d) \in Nat
  BY ReachableIsNat
<1>2. to \in Nat /\ from <= to /\ to <= from + room /\ to <= Reachable(d)
  BY <1>1 DEF Least
<1>3. d.version.corruptAt \in Nat /\ d.version.total \in Nat
  BY VersionFacts
<1>4. CASE d.version.corruptAt < to
  <2>1. Pump(d, from, room) = [produced |-> 0, status |-> {"corrupt"}]
    BY <1>4 DEF Pump
  <2>. QED  BY <2>1
<1>5. CASE ~(d.version.corruptAt < to)
  <2>1. Pump(d, from, room) =
          [produced |-> to - from,
           status |-> IF ended /\ to - from < room THEN {"end"}
                      ELSE IF ended THEN {"end", "progress"}
                      ELSE {"progress"}]
    BY <1>5 DEF Pump
  <2>2. status = "end" => ended
    BY <2>1
  <2>3. Pump(d, from, room).produced = to - from
    BY <2>1
  <2>4. ended => to = d.version.total /\ Input(d) >= CompressedSize(d.version)
    OBVIOUS
  <2>. HIDE DEF to, ended
  <2>5. from + (to - from) = to
    BY <1>2
  <2>. QED  BY <1>1, <1>2, <1>3, <1>5, <2>2, <2>3, <2>4, <2>5
<1>. QED  BY <1>4, <1>5

(* ---- What the header checks leave ------------------------------------- *)

LEMMA ValidateHeaderIsValid ==
  ASSUME NEW v, IsVersion(v), ValidateHeader(v.header) = NoProblem
  PROVE  ValidHeaderOf(v)
<1>. DEFINE c1 == Check(~v.header.magic, "notSpzContainer")
            c2 == Check(v.header.version \notin 1 .. 3, "unsupportedVersion")
            c3 == Check(v.header.pointCount = 0, "emptyPointSet")
            c4 == Check(v.header.pointCount > kMaxPointCount, "invalidPointCount")
            c5 == Check(v.header.pointCount > kMaxGaussianCount, "importLimitExceeded")
            c6 == Check(v.header.shDegree > kSpecMaxShDegree, "invalidShDegree")
<1>1. /\ c1 = NoProblem /\ c2 = NoProblem /\ c3 = NoProblem
      /\ c4 = NoProblem /\ c5 = NoProblem /\ c6 = NoProblem
  <2>1. FirstFailure(<<c1, c2, c3, c4, c5, c6>>) = NoProblem
    BY Zenon DEF ValidateHeader
  <2>. HIDE DEF c1, c2, c3, c4, c5, c6
  <2>. QED  BY <2>1, SixPass
<1>2. v.header.pointCount \in Nat /\ v.header.shDegree \in Nat
  BY VersionFacts DEF HeaderFields
<1>3. v.header.magic
  BY <1>1, "notSpzContainer" # "", Zenon DEF Check, NoProblem
<1>4. /\ v.header.version \in 1 .. 3 /\ v.header.pointCount # 0
      /\ ~(v.header.pointCount > kMaxPointCount)
      /\ ~(v.header.pointCount > kMaxGaussianCount)
      /\ ~(v.header.shDegree > kSpecMaxShDegree)
  <2>1. "unsupportedVersion" # NoProblem /\ "emptyPointSet" # NoProblem /\ "invalidPointCount" # NoProblem
        /\ "importLimitExceeded" # NoProblem /\ "invalidShDegree" # NoProblem
    BY DEF NoProblem
  <2>. QED  BY <1>1, <2>1, Zenon DEF Check
<1>5. v.header.pointCount \in 1 .. Least(kMaxPointCount, kMaxGaussianCount)
  BY <1>2, <1>4, LimitsAssumption DEF Least
<1>6. v.header.shDegree \in 0 .. kSpecMaxShDegree
  BY <1>2, <1>4 DEF kSpecMaxShDegree
<1>. QED  BY <1>3, <1>4, <1>5, <1>6 DEF ValidHeaderOf

(* ---- The inductive invariant ------------------------------------------- *)

Opened   == {"signature", "framing", "header", "validate", "allocate",
             "payload", "drain", "slice"}
Framed   == {"header", "validate", "allocate", "payload", "drain", "slice"}
Inflated == {"validate", "allocate", "payload", "drain", "slice"}
Headed   == {"allocate", "payload", "drain", "slice"}

(* A reading call holds the whole file it opened, as it was then.          *)
Loaded ==
  operation = "Read" /\ data # None =>
    /\ data.version.opens /\ data.length = data.version.size
    /\ data.version.size <= kMaxSpzFileBytes

(* Past the framing, the gzip header is intact and a trailer fits.         *)
FramingChecked ==
  operation = "Read" =>
    /\ pc \in Opened \ {"signature"} => data.version.signature = "gzip"
    /\ pc \in Framed => /\ data.version.badAt = 0
                        /\ data.version.offset + kTrailerSize <= data.length

(* The inflator stands within what is loaded, at the end of the stream     *)
(* once it has reported that end.                                          *)
InflatorTracks ==
  /\ operation = "Read" /\ pc \in Inflated =>
       /\ position <= Reachable(data)
       /\ finished => /\ position = data.version.total
                      /\ Input(data) >= CompressedSize(data.version)
                      /\ data.version.corruptAt >= data.version.total
  /\ pc \in {"validate", "allocate", "payload"} => position = kHeaderSize

HeaderChecked ==
  pc \in Headed => header = data.version.header /\ ValidHeaderOf(data.version)

(* Every inflated byte is accounted for.                                   *)
BytesAccounted ==
  /\ pc \in {"drain", "slice"} =>
       /\ payload = ExpectedPayloadBytes(header)
       /\ position = kHeaderSize + payload + extensions + undeclared
       /\ header.extensions => undeclared = 0
       /\ ~header.extensions => extensions = 0
  /\ pc \notin {"drain", "slice", "return"} => extensions = 0 /\ undeclared = 0

TrailerChecked ==
  pc = "slice" =>
    /\ finished /\ undeclared = 0
    /\ data.length = data.version.offset + CompressedSize(data.version)
                       + kTrailerSize
    /\ data.version.crcMatches /\ data.version.lengthMatches

Idle == pc \in {"idle", "probe", "prefix"} => data = None

IInv ==
  /\ TypeOK /\ BoundedMemory /\ Idle /\ Loaded /\ FramingChecked
  /\ InflatorTracks /\ HeaderChecked /\ BytesAccounted /\ TrailerChecked
  /\ DocumentIsOneContainer

LEMMA DataFacts ==
  ASSUME TypeOK, data # None
  PROVE  IsVersion(data.version) /\ data.length \in Nat
<1>1. data.version \in Versions
  BY DEF TypeOK
<1>2. data.version.size \in Nat
  BY <1>1, VersionsAssumption, VersionFacts
<1>3. data.length \in Nat
  BY <1>2 DEF TypeOK
<1>. QED  BY <1>1, <1>3, VersionsAssumption

(* Whatever ends a call without a document keeps the invariant.            *)
LEMMA Returning ==
  ASSUME IInv, pc' = "return", result' \in {"true", "false", "threw"},
         operation = "Read" => result' # "true",
         UNCHANGED <<fileVars, operation, data, extensions, undeclared>>,
         position' \in Nat, payload' \in Nat, finished' \in BOOLEAN,
         fault' \in BOOLEAN
  PROVE  IInv'
<1>1. TypeOK'
  BY DEF IInv, TypeOK, Phases, Operations, fileVars
<1>2. BoundedMemory'
  BY DEF IInv, BoundedMemory
<1>3. Idle' /\ Loaded' /\ FramingChecked'
  BY DEF IInv, Idle, Loaded, FramingChecked, Opened, Framed
<1>4. InflatorTracks' /\ HeaderChecked'
  BY DEF InflatorTracks, HeaderChecked, Inflated, Headed
<1>5. BytesAccounted' /\ TrailerChecked'
  BY DEF BytesAccounted, TrailerChecked
<1>6. DocumentIsOneContainer'
  BY DEF DocumentIsOneContainer, Returned
<1>. QED  BY <1>1, <1>2, <1>3, <1>4, <1>5, <1>6 DEF IInv

(* A file edit changes nothing a call has loaded, and forgets no version.  *)
LEMMA EditFileKeeps == IInv /\ EditFile => IInv'
<1>. SUFFICES ASSUME IInv, EditFile PROVE IInv'
  OBVIOUS
<1>0. UNCHANGED <<operation, pc, result, data, position, finished, header,
                  payload, extensions, undeclared, spans, fault>>
  BY DEF EditFile, inflator, document
<1>1. file' \in Versions /\ file' \in seen' /\ seen' \subseteq Versions
  BY EditAssumption DEF EditFile, IInv, TypeOK
<1>2. pc # "idle" => seen \subseteq seen'
  BY DEF EditFile
<1>3. TypeOK'
  BY <1>0, <1>1, <1>2 DEF IInv, TypeOK, Idle
<1>4. BoundedMemory' /\ Idle' /\ Loaded'
  BY <1>0 DEF IInv, BoundedMemory, Idle, Loaded
<1>5. FramingChecked' /\ HeaderChecked' /\ BytesAccounted' /\ TrailerChecked'
  BY <1>0 DEF IInv, FramingChecked, HeaderChecked, BytesAccounted, TrailerChecked
<1>6. InflatorTracks'
  BY <1>0 DEF IInv, InflatorTracks
<1>7. DocumentIsOneContainer'
  BY <1>0, <1>2 DEF IInv, DocumentIsOneContainer, Returned
<1>. QED  BY <1>3, <1>4, <1>5, <1>6, <1>7 DEF IInv

(* From here on, one lemma per action: it keeps the invariant.             *)
LEMMA CallKeeps == IInv /\ Call => IInv'
<1>. SUFFICES ASSUME IInv, Call PROVE IInv'
  OBVIOUS
<1>0. /\ UNCHANGED <<file, seen, result, data, position, finished, header,
                     payload, extensions, undeclared, spans, fault>>
      /\ pc = "idle" /\ operation' \in Operations
      /\ pc' = IF operation' = "Read" THEN "probe" ELSE "prefix"
  BY DEF Call, fileVars, inflator, document
<1>1. data' = None
  BY <1>0 DEF IInv, Idle
<1>2. TypeOK'
  BY <1>0, <1>1 DEF IInv, TypeOK, Phases
<1>3. BoundedMemory' /\ Idle' /\ Loaded'
  BY <1>0, <1>1 DEF IInv, BoundedMemory, Idle, Loaded
<1>4. FramingChecked' /\ InflatorTracks' /\ HeaderChecked'
  BY <1>0 DEF FramingChecked, InflatorTracks, HeaderChecked, Opened, Framed,
              Inflated, Headed
<1>5. BytesAccounted' /\ TrailerChecked'
  BY <1>0 DEF IInv, BytesAccounted, TrailerChecked
<1>6. DocumentIsOneContainer'
  BY <1>0 DEF DocumentIsOneContainer, Returned
<1>. QED  BY <1>2, <1>3, <1>4, <1>5, <1>6 DEF IInv

LEMMA ProbeSizeKeeps == IInv /\ ProbeSize => IInv'
<1>. SUFFICES ASSUME IInv, ProbeSize PROVE IInv'
  OBVIOUS
<1>0. /\ UNCHANGED <<fileVars, file, seen, operation, data, position, finished, header,
                     payload, extensions, undeclared, spans, fault>>
      /\ pc = "probe"
  BY DEF ProbeSize, fileVars, inflator, document
<1>1. \/ pc' = "return" /\ result' = "false"
      \/ pc' = "load" /\ result' = result
  BY DEF ProbeSize, Fail, Continue
<1>2. CASE pc' = "return" /\ result' = "false"
  BY <1>0, <1>2, Returning DEF IInv, TypeOK
<1>3. CASE pc' = "load" /\ result' = result
  <2>1. operation = "Read" /\ data = None
    BY <1>0 DEF IInv, TypeOK, Idle
  <2>2. TypeOK'
    BY <1>0, <1>3, <2>1 DEF IInv, TypeOK, Phases
  <2>3. BoundedMemory' /\ Idle' /\ Loaded'
    BY <1>0, <1>3, <2>1 DEF IInv, BoundedMemory, Idle, Loaded
  <2>4. FramingChecked' /\ InflatorTracks' /\ HeaderChecked'
    BY <1>0, <1>3 DEF FramingChecked, InflatorTracks, HeaderChecked, Opened, Framed,
                Inflated, Headed
  <2>5. BytesAccounted' /\ TrailerChecked'
    BY <1>0, <1>3 DEF IInv, BytesAccounted, TrailerChecked
  <2>6. DocumentIsOneContainer'
    BY <1>0, <1>3 DEF DocumentIsOneContainer, Returned
  <2>. QED  BY <2>2, <2>3, <2>4, <2>5, <2>6 DEF IInv
<1>. QED  BY <1>1, <1>2, <1>3

(* What is loaded for a call is bounded, and is all of the file for Read.  *)
LEMMA LoadFileKeeps == IInv /\ LoadFile => IInv'
<1>. SUFFICES ASSUME IInv, LoadFile PROVE IInv'
  OBVIOUS
<1>0. /\ UNCHANGED <<fileVars, file, seen, operation, position, finished, header,
                     payload, extensions, undeclared, spans, fault>>
      /\ pc \in {"prefix", "load", "retry"}
  BY DEF LoadFile, fileVars, inflator, document
<1>1. \/ pc' = "return" /\ result' = "false" /\ data' = data
      \/ /\ file.opens
         /\ operation # "CanRead" => ~(file.size > kMaxSpzFileBytes)
         /\ data' = Load(file, Limit, pc # "prefix") /\ result' = result
         /\ pc' = IF pc = "prefix" \/ operation = "Read"
                  THEN "signature" ELSE "framing"
  BY DEF LoadFile, Fail, Continue
<1>2. CASE pc' = "return" /\ result' = "false" /\ data' = data
  BY <1>0, <1>2, Returning DEF IInv, TypeOK
<1>3. CASE /\ file.opens
           /\ operation # "CanRead" => ~(file.size > kMaxSpzFileBytes)
           /\ data' = Load(file, Limit, pc # "prefix") /\ result' = result
           /\ pc' = IF pc = "prefix" \/ operation = "Read"
                    THEN "signature" ELSE "framing"
  <2>1. file \in Versions /\ file \in seen /\ file.size \in Nat
    BY VersionsAssumption, VersionFacts DEF IInv, TypeOK
  <2>2. Limit \in Nat
    BY LimitsAssumption DEF Limit
  <2>3. /\ data'.version = file
        /\ data'.length = Least(file.size, Limit)
        /\ data'.last = (pc # "prefix")
    BY <1>3 DEF Load
  <2>4. /\ data'.length \in 0 .. file.size /\ data'.length <= Limit
        /\ data'.length = file.size \/ data'.length = Limit
    BY <2>1, <2>2, <2>3 DEF Least
  <2>5. data' # None
    BY <1>3, RecordIsSome DEF Load
  <2>6. pc' \in {"signature", "framing"}
    BY <1>3
  <2>7. TypeOK'
    BY <1>0, <1>3, <2>1, <2>3, <2>4, <2>5, <2>6 DEF IInv, TypeOK, Phases
  <2>8. BoundedMemory'
    <3>1. CASE pc = "prefix"
      BY <1>0, <1>3, <2>4, <2>6, <3>1 DEF IInv, BoundedMemory, Limit
    <3>2. CASE pc = "retry"
      BY <1>0, <1>3, <2>4, <2>6, <3>2 DEF IInv, TypeOK, BoundedMemory, Limit
    <3>3. CASE pc = "load"
      BY <1>0, <1>3, <2>4, <2>6, <3>3 DEF IInv, TypeOK, BoundedMemory, Limit
    <3>. QED  BY <1>0, <3>1, <3>2, <3>3
  <2>9. Idle'
    BY <2>6 DEF Idle
  <2>10. Loaded'
    <3>1. operation = "Read" => pc = "load"
      BY <1>0 DEF IInv, TypeOK
    <3>2. operation = "Read" => Limit = kMaxSpzFileBytes
      BY <3>1 DEF Limit
    <3>3. kMaxSpzFileBytes \in Nat
      BY LimitsAssumption
    <3>. QED  BY <1>0, <1>3, <2>1, <2>3, <2>4, <3>2, <3>3 DEF Loaded
  <2>11. FramingChecked'
    BY <1>0, <1>3, <2>6 DEF FramingChecked, Opened, Framed
  <2>12. InflatorTracks' /\ HeaderChecked'
    BY <2>6 DEF InflatorTracks, HeaderChecked, Inflated, Headed
  <2>13. BytesAccounted' /\ TrailerChecked'
    BY <1>0, <2>6 DEF IInv, BytesAccounted, TrailerChecked
  <2>14. DocumentIsOneContainer'
    BY <2>6 DEF DocumentIsOneContainer, Returned
  <2>. QED  BY <2>7, <2>8, <2>9, <2>10, <2>11, <2>12, <2>13, <2>14 DEF IInv
<1>. QED  BY <1>1, <1>2, <1>3

LEMMA FaultsKeep == IInv /\ (LoadFails \/ Throw) => IInv'
<1>. SUFFICES ASSUME IInv, LoadFails \/ Throw PROVE IInv'
  OBVIOUS
<1>1. /\ UNCHANGED <<fileVars, operation, data, position, finished, payload,
                     extensions, undeclared>>
      /\ pc' = "return" /\ fault' = TRUE /\ result' \in {"false", "threw"}
  BY DEF LoadFails, Throw, Fail, inflator, document
<1>. QED  BY <1>1, Returning DEF IInv, TypeOK

LEMMA CheckSignatureKeeps == IInv /\ CheckSignature => IInv'
<1>. SUFFICES ASSUME IInv, CheckSignature PROVE IInv'
  OBVIOUS
<1>0. /\ UNCHANGED <<fileVars, file, seen, operation, data, position, finished, header,
                     payload, extensions, undeclared, spans, fault>>
      /\ pc = "signature"
  BY DEF CheckSignature, fileVars, inflator, document
<1>1. \/ pc' = "return" /\ result' = "false"
      \/ pc' = "return" /\ result' = "true" /\ operation = "CanRead"
      \/ pc' = "framing" /\ result' = result /\ Signature(data) = "gzip"
  BY DEF CheckSignature, Fail, Continue, Succeed
<1>2. CASE pc' = "return" /\ result' \in {"true", "false"}
           /\ (result' = "true" => operation = "CanRead")
  BY <1>0, <1>2, Returning DEF IInv, TypeOK
<1>3. CASE pc' = "framing" /\ result' = result /\ Signature(data) = "gzip"
  <2>1. data.version.signature = "gzip"
    BY <1>3 DEF Signature
  <2>2. TypeOK'
    BY <1>0, <1>3 DEF IInv, TypeOK, Phases
  <2>3. BoundedMemory' /\ Idle' /\ Loaded'
    BY <1>0, <1>3 DEF IInv, BoundedMemory, Idle, Loaded
  <2>4. FramingChecked'
    BY <1>0, <1>3, <2>1 DEF FramingChecked, Framed
  <2>5. InflatorTracks' /\ HeaderChecked'
    BY <1>3 DEF InflatorTracks, HeaderChecked, Inflated, Headed
  <2>6. BytesAccounted' /\ TrailerChecked'
    BY <1>0, <1>3 DEF IInv, BytesAccounted, TrailerChecked
  <2>7. DocumentIsOneContainer'
    BY <1>3 DEF DocumentIsOneContainer, Returned
  <2>. QED  BY <2>2, <2>3, <2>4, <2>5, <2>6, <2>7 DEF IInv
<1>. QED  BY <1>1, <1>2, <1>3

(* A call returns from CanRead, or looks again.                            *)
LEMMA DeclineKeeps ==
  ASSUME IInv, operation = "CanRead", data # None,
         \/ pc' = "retry" /\ result' = result
         \/ pc' = "return" /\ result' \in {"true", "false"},
         UNCHANGED <<file, seen, operation, data, position, finished,
                     payload, extensions, undeclared>>,
         pc \in {"framing", "magic"}, fault' \in BOOLEAN
  PROVE  IInv'
<1>1. CASE pc' = "return"
  BY <1>1, Returning DEF IInv, TypeOK, fileVars
<1>2. CASE pc' = "retry" /\ result' = result
  <2>1. TypeOK'
    BY <1>2 DEF IInv, TypeOK, Phases
  <2>2. BoundedMemory' /\ Idle' /\ Loaded'
    BY <1>2 DEF IInv, BoundedMemory, Idle, Loaded
  <2>3. FramingChecked' /\ InflatorTracks' /\ HeaderChecked'
    BY <1>2 DEF FramingChecked, InflatorTracks, HeaderChecked, Opened, Framed,
                Inflated, Headed
  <2>4. BytesAccounted' /\ TrailerChecked'
    BY <1>2 DEF IInv, BytesAccounted, TrailerChecked
  <2>5. DocumentIsOneContainer'
    BY <1>2 DEF DocumentIsOneContainer, Returned
  <2>. QED  BY <2>1, <2>2, <2>3, <2>4, <2>5 DEF IInv
<1>. QED  BY <1>1, <1>2

LEMMA CheckFramingKeeps == IInv /\ CheckFraming => IInv'
<1>. SUFFICES ASSUME IInv, CheckFraming PROVE IInv'
  OBVIOUS
<1>. DEFINE framing == ParseGzipHeader(data, operation = "Read" \/ IsWhole(data))
<1>0. /\ UNCHANGED <<fileVars, file, seen, operation, data, position, finished, header,
                     payload, extensions, undeclared, spans, fault>>
      /\ pc = "framing"
  BY DEF CheckFraming, fileVars, inflator, document
<1>a. data # None
  BY <1>0 DEF IInv, TypeOK
<1>1. CASE operation = "CanRead"
  <2>1. \/ pc' = "retry" /\ result' = result
        \/ pc' = "return" /\ result' = "false"
        \/ pc' = "magic" /\ result' = result
    BY <1>1 DEF CheckFraming, Decline, Continue, Fail
  <2>2. CASE pc' = "magic" /\ result' = result
    <3>1. TypeOK'
      BY <1>0, <1>1, <2>2 DEF IInv, TypeOK, Phases
    <3>2. BoundedMemory' /\ Idle' /\ Loaded'
      BY <1>0, <2>2 DEF IInv, BoundedMemory, Idle, Loaded
    <3>3. FramingChecked' /\ InflatorTracks' /\ HeaderChecked'
      BY <1>0, <2>2 DEF FramingChecked, InflatorTracks, HeaderChecked, Opened,
                  Framed, Inflated, Headed
    <3>4. BytesAccounted' /\ TrailerChecked'
      BY <1>0, <2>2 DEF IInv, BytesAccounted, TrailerChecked
    <3>5. DocumentIsOneContainer'
      BY <2>2 DEF DocumentIsOneContainer, Returned
    <3>. QED  BY <3>1, <3>2, <3>3, <3>4, <3>5 DEF IInv
  <2>3. fault' \in BOOLEAN
    BY <1>0 DEF IInv, TypeOK
  <2>. QED  BY <1>0, <1>1, <1>a, <2>1, <2>2, <2>3, DeclineKeeps
<1>2. CASE operation # "CanRead"
  <2>1. \/ pc' = "return" /\ result' = "false"
        \/ /\ pc' = "load" /\ result' = result /\ framing = "needMore"
        \/ /\ pc' = "header" /\ result' = result
           /\ framing \notin {"malformed", "needMore"}
           /\ operation = "Read" =>
                ~(data.length < data.version.offset + kTrailerSize)
    BY <1>2 DEF CheckFraming, Continue, Fail
  <2>2. CASE pc' = "return" /\ result' = "false"
    BY <1>0, <2>2, Returning DEF IInv, TypeOK
  <2>3. CASE pc' = "load" /\ result' = result /\ framing = "needMore"
    <3>1. operation # "Read"
      BY <2>3 DEF ParseGzipHeader
    <3>2. TypeOK'
      BY <1>0, <1>2, <2>3 DEF IInv, TypeOK, Phases
    <3>3. BoundedMemory' /\ Idle' /\ Loaded'
      BY <1>0, <2>3 DEF IInv, BoundedMemory, Idle, Loaded
    <3>4. FramingChecked' /\ InflatorTracks' /\ HeaderChecked'
      BY <1>0, <2>3 DEF FramingChecked, InflatorTracks, HeaderChecked, Opened,
                  Framed, Inflated, Headed
    <3>5. BytesAccounted' /\ TrailerChecked'
      BY <1>0, <2>3 DEF IInv, BytesAccounted, TrailerChecked
    <3>6. DocumentIsOneContainer'
      BY <2>3 DEF DocumentIsOneContainer, Returned
    <3>. QED  BY <3>2, <3>3, <3>4, <3>5, <3>6 DEF IInv
  <2>4. CASE /\ pc' = "header" /\ result' = result
             /\ framing \notin {"malformed", "needMore"}
             /\ operation = "Read" =>
                  ~(data.length < data.version.offset + kTrailerSize)
    <3>1. /\ data.version.badAt \notin 1 .. data.length
          /\ data.length >= data.version.offset
      BY <2>4 DEF ParseGzipHeader
    <3>2. /\ data.version.badAt \in 0 .. data.version.offset
          /\ data.version.offset \in Nat /\ data.length \in Nat
      BY <1>a, DataFacts, VersionFacts DEF IInv
    <3>3. data.version.badAt = 0
      BY <3>1, <3>2
    <3>4. operation = "Read" => data.version.offset + kTrailerSize <= data.length
      BY <2>4, <3>2 DEF kTrailerSize
    <3>5. TypeOK'
      BY <1>0, <1>2, <2>4 DEF IInv, TypeOK, Phases
    <3>6. BoundedMemory' /\ Idle' /\ Loaded'
      BY <1>0, <2>4 DEF IInv, BoundedMemory, Idle, Loaded
    <3>7. FramingChecked'
      BY <1>0, <2>4, <3>3, <3>4 DEF IInv, FramingChecked, Opened, Framed
    <3>8. InflatorTracks' /\ HeaderChecked'
      BY <2>4 DEF InflatorTracks, HeaderChecked, Inflated, Headed
    <3>9. BytesAccounted' /\ TrailerChecked'
      BY <1>0, <2>4 DEF IInv, BytesAccounted, TrailerChecked
    <3>10. DocumentIsOneContainer'
      BY <2>4 DEF DocumentIsOneContainer, Returned
    <3>. QED  BY <3>5, <3>6, <3>7, <3>8, <3>9, <3>10 DEF IInv
  <2>. QED  BY <2>1, <2>2, <2>3, <2>4
<1>. QED  BY <1>1, <1>2

LEMMA InflatorFailsKeeps == IInv /\ InflatorFails => IInv'
<1>. SUFFICES ASSUME IInv, InflatorFails PROVE IInv'
  OBVIOUS
<1>0. /\ UNCHANGED <<fileVars, file, seen, operation, data, position, finished,
                     payload, extensions, undeclared>>
      /\ pc \in {"magic", "header"} /\ fault' = TRUE
  BY DEF InflatorFails, fileVars, inflator, document
<1>1. CASE operation = "CanRead"
  <2>1. \/ pc' = "retry" /\ result' = result
        \/ pc' = "return" /\ result' \in {"true", "false"}
    BY <1>1 DEF InflatorFails, Decline, Continue, Fail
  <2>2. pc = "magic" /\ data # None
    BY <1>0, <1>1 DEF IInv, TypeOK
  <2>. QED  BY <1>0, <1>1, <2>1, <2>2, DeclineKeeps
<1>2. CASE operation # "CanRead"
  <2>1. pc' = "return" /\ result' = "false"
    BY <1>2 DEF InflatorFails, Fail
  <2>. QED  BY <1>0, <2>1, Returning DEF IInv, TypeOK
<1>. QED  BY <1>1, <1>2

LEMMA PumpMagicKeeps == IInv /\ PumpMagic => IInv'
<1>. SUFFICES ASSUME IInv, PumpMagic PROVE IInv'
  OBVIOUS
<1>1. /\ UNCHANGED <<file, seen, operation, data, position, finished,
                     payload, extensions, undeclared>>
      /\ pc = "magic" /\ fault' = fault
  BY DEF PumpMagic, fileVars, inflator, document
<1>2. \/ pc' = "retry" /\ result' = result
      \/ pc' = "return" /\ result' \in {"true", "false"}
  BY DEF PumpMagic, Succeed, Decline, Continue, Fail
<1>3. operation = "CanRead" /\ data # None /\ fault' \in BOOLEAN
  BY <1>1 DEF IInv, TypeOK
<1>. QED  BY <1>1, <1>2, <1>3, DeclineKeeps

LEMMA PumpHeaderKeeps == IInv /\ PumpHeader => IInv'
<1>. SUFFICES ASSUME IInv, PumpHeader PROVE IInv'
  OBVIOUS
<1>. DEFINE pump == Pump(data, 0, kHeaderSize)
<1>0. /\ UNCHANGED <<fileVars, file, seen, operation, data, header, payload,
                     extensions, undeclared, spans, fault>>
      /\ pc = "header"
  BY DEF PumpHeader, fileVars, document
<1>a. data # None /\ operation # "CanRead"
  BY <1>0 DEF IInv, TypeOK
<1>1. PICK status \in pump.status :
        \/ /\ pump.produced = kHeaderSize
           /\ position' = kHeaderSize /\ finished' = (status = "end")
           /\ pc' = "validate" /\ result' = result
        \/ /\ position' = position /\ finished' = finished
           /\ \/ pc' = "return" /\ result' = "false"
              \/ pc' = "load" /\ result' = result /\ operation = "ReadHeader"
  BY DEF PumpHeader, Continue, Fail, inflator
<1>2. CASE pc' = "return" /\ result' = "false" /\ position' = position
           /\ finished' = finished
  BY <1>0, <1>2, Returning DEF IInv, TypeOK
<1>3. CASE pc' = "load" /\ result' = result /\ operation = "ReadHeader"
           /\ position' = position /\ finished' = finished
  <2>1. TypeOK'
    BY <1>0, <1>3 DEF IInv, TypeOK, Phases
  <2>2. BoundedMemory' /\ Idle' /\ Loaded'
    BY <1>0, <1>3 DEF IInv, BoundedMemory, Idle, Loaded
  <2>3. FramingChecked' /\ InflatorTracks' /\ HeaderChecked'
    BY <1>0, <1>3 DEF FramingChecked, InflatorTracks, HeaderChecked, Opened,
                Framed, Inflated, Headed
  <2>4. BytesAccounted' /\ TrailerChecked'
    BY <1>0, <1>3 DEF IInv, BytesAccounted, TrailerChecked
  <2>5. DocumentIsOneContainer'
    BY <1>3 DEF DocumentIsOneContainer, Returned
  <2>. QED  BY <2>1, <2>2, <2>3, <2>4, <2>5 DEF IInv
<1>4. CASE /\ pump.produced = kHeaderSize
           /\ position' = kHeaderSize /\ finished' = (status = "end")
           /\ pc' = "validate" /\ result' = result
  <2>. HIDE DEF pump
  <2>0. kHeaderSize \in Nat
    BY DEF kHeaderSize
  <2>1. TypeOK'
    BY <1>0, <1>a, <1>4, <2>0 DEF IInv, TypeOK, Phases
  <2>2. BoundedMemory' /\ Idle' /\ Loaded'
    BY <1>0, <1>4 DEF IInv, BoundedMemory, Idle, Loaded
  <2>3. FramingChecked'
    BY <1>0, <1>4 DEF IInv, FramingChecked, Opened, Framed
  <2>4. HeaderChecked'
    BY <1>4 DEF HeaderChecked, Headed
  <2>5. operation = "Read" =>
          /\ kHeaderSize <= Reachable(data)
          /\ status = "end" => /\ kHeaderSize = data.version.total
                               /\ Input(data) >= CompressedSize(data.version)
                               /\ data.version.corruptAt >= data.version.total
    <3>. SUFFICES ASSUME operation = "Read" PROVE
          /\ kHeaderSize <= Reachable(data)
          /\ status = "end" => /\ kHeaderSize = data.version.total
                               /\ Input(data) >= CompressedSize(data.version)
                               /\ data.version.corruptAt >= data.version.total
      OBVIOUS
    <3>1. IsVersion(data.version) /\ data.length \in Nat
      BY <1>a, DataFacts DEF IInv
    <3>2. data.version.offset \in Nat
      BY <3>1, VersionFacts
    <3>3. data.version.offset <= data.length
      BY <1>0, <3>1, <3>2 DEF IInv, FramingChecked, Framed, kTrailerSize
    <3>4. Reachable(data) \in Nat
      BY <3>1, <3>3, ReachableIsNat
    <3>5. status \in Pump(data, 0, kHeaderSize).status
      BY DEF pump
    <3>6. /\ 0 + Pump(data, 0, kHeaderSize).produced <= Reachable(data)
          /\ status = "end" =>
               /\ 0 + Pump(data, 0, kHeaderSize).produced = data.version.total
               /\ Input(data) >= CompressedSize(data.version)
               /\ data.version.corruptAt >= data.version.total
      BY <2>0, <3>1, <3>3, <3>4, <3>5, PumpFacts
    <3>7. Pump(data, 0, kHeaderSize).produced = kHeaderSize
      BY <1>4 DEF pump
    <3>8. 0 + kHeaderSize = kHeaderSize
      BY DEF kHeaderSize
    <3>. QED  BY <3>6, <3>7, <3>8
  <2>6. InflatorTracks'
    BY <1>0, <1>4, <2>5 DEF InflatorTracks, Reachable, Input
  <2>7. BytesAccounted' /\ TrailerChecked'
    BY <1>0, <1>4 DEF IInv, BytesAccounted, TrailerChecked
  <2>8. DocumentIsOneContainer'
    BY <1>4 DEF DocumentIsOneContainer, Returned
  <2>. QED  BY <2>1, <2>2, <2>3, <2>4, <2>6, <2>7, <2>8 DEF IInv
<1>. QED  BY <1>1, <1>2, <1>3, <1>4

(* A header that no stream of this size could back never reaches the      *)
(* allocation.                                                             *)
LEMMA ExpansionBounds ==
  ASSUME NEW h \in HeaderFields, NEW n \in Nat, NEW offset \in Nat,
         ~(n - offset - kTrailerSize < 0),
         Plausible(h, n - offset - kTrailerSize)
  PROVE  ExpectedPayloadBytes(h) <= kMaxDeflateExpansion * n
<1>. DEFINE compressed == n - offset - kTrailerSize
<1>1. compressed \in Nat /\ compressed <= n
  BY DEF kTrailerSize
<1>2. kMaxDeflateExpansion \in Nat
  BY LimitsAssumption
<1>3. kHeaderSize + ExpectedPayloadBytes(h) <= compressed * kMaxDeflateExpansion
  BY DEF Plausible
<1>. HIDE DEF compressed
<1>4. compressed * kMaxDeflateExpansion <= kMaxDeflateExpansion * n
  BY <1>1, <1>2, ProductGrows
<1>5. /\ compressed * kMaxDeflateExpansion \in Nat
      /\ kMaxDeflateExpansion * n \in Nat
  BY <1>1, <1>2, ProductIsNat
<1>6. ExpectedPayloadBytes(h) \in Nat
  BY StreamFacts
<1>. QED  BY <1>3, <1>4, <1>5, <1>6 DEF kHeaderSize

LEMMA ValidateHeaderBytesKeeps == IInv /\ ValidateHeaderBytes => IInv'
<1>. SUFFICES ASSUME IInv, ValidateHeaderBytes PROVE IInv'
  OBVIOUS
<1>. DEFINE v == data.version
            h == data.version.header
            fileSize   == IF operation = "Read" THEN data.length
                          ELSE data.version.size
            compressed == fileSize - data.version.offset - kTrailerSize
            c2 == Check(compressed < 0, "truncatedContainer")
            c3 == Check(~Plausible(h, compressed), "truncatedContainer")
            problem == FirstFailure(<<ValidateHeader(h), c2, c3>>)
<1>0. /\ UNCHANGED <<fileVars, file, seen, operation, data, position, finished, payload,
                     extensions, undeclared, spans, fault>>
      /\ pc = "validate" /\ header' = data.version.header
  BY DEF ValidateHeaderBytes, fileVars, inflator
<1>a. data # None /\ operation # "CanRead"
  BY <1>0 DEF IInv, TypeOK
<1>1. \/ pc' = "return" /\ result' = "false"
      \/ pc' = "return" /\ result' = "true" /\ operation # "Read"
      \/ /\ pc' = "allocate" /\ result' = result /\ operation = "Read"
         /\ problem = NoProblem
  BY DEF ValidateHeaderBytes, Continue, Fail, Succeed
<1>2. CASE pc' = "return" /\ result' \in {"true", "false"}
           /\ (operation = "Read" => result' # "true")
  BY <1>0, <1>2, Returning DEF IInv, TypeOK
<1>3. CASE /\ pc' = "allocate" /\ result' = result /\ operation = "Read"
           /\ problem = NoProblem
  <2>1. ValidateHeader(h) = NoProblem /\ c2 = NoProblem /\ c3 = NoProblem
    <3>1. FirstFailure(<<ValidateHeader(h), c2, c3>>) = NoProblem
      BY <1>3
    <3>. HIDE DEF h, c2, c3
    <3>. QED  BY <3>1, ThreePass
  <2>2. IsVersion(v) /\ data.length \in Nat
    BY <1>a, DataFacts DEF IInv
  <2>3. ValidHeaderOf(v)
    BY <2>1, <2>2, ValidateHeaderIsValid
  <2>4. ~(compressed < 0) /\ Plausible(h, compressed)
    <3>1. "truncatedContainer" # NoProblem
      BY DEF NoProblem
    <3>. QED  BY <2>1, <3>1, Zenon DEF Check
  <2>5. compressed = data.length - v.offset - kTrailerSize
    BY <1>3
  <2>6. v.offset \in Nat /\ h \in HeaderFields
    BY <2>2, VersionFacts
  <2>7. ExpectedPayloadBytes(h) <= kMaxDeflateExpansion * data.length
    <3>. HIDE DEF h, v, compressed
    <3>. QED  BY <2>2, <2>4, <2>5, <2>6, ExpansionBounds
  <2>. HIDE DEF c2, c3, problem, compressed, fileSize
  <2>8. ExpectedPayloadBytes(header)' = ExpectedPayloadBytes(h)
    BY <1>0 DEF ExpectedPayloadBytes, BytesPerPosition, BytesPerRotation, ShDimensions
  <2>9. TypeOK'
    BY <1>0, <1>3 DEF IInv, TypeOK, Phases
  <2>10. BoundedMemory'
    <3>1. /\ data' # None =>
               \/ data'.length <= kPrefixLimit
               \/ operation' = "CanRead" /\ data'.length <= kCanReadRetryLimit
               \/ operation' # "CanRead" /\ data'.length <= kMaxSpzFileBytes
          /\ extensions' <= MaxExtensionBytes
      BY <1>0 DEF IInv, BoundedMemory
    <3>2. (ExpectedPayloadBytes(header) <= kMaxDeflateExpansion * data.length)'
      BY <1>0, <2>7, <2>8, Zenon
    <3>. QED  BY <3>1, <3>2, Zenon DEF BoundedMemory
  <2>11. Idle' /\ Loaded'
    BY <1>0, <1>3 DEF IInv, Idle, Loaded
  <2>12. FramingChecked'
    BY <1>0, <1>3 DEF IInv, FramingChecked, Opened, Framed
  <2>13. InflatorTracks'
    BY <1>0, <1>3 DEF IInv, InflatorTracks, Inflated, Reachable, Input
  <2>14. HeaderChecked'
    BY <1>0, <2>3 DEF HeaderChecked, ValidHeaderOf
  <2>15. BytesAccounted' /\ TrailerChecked'
    BY <1>0, <1>3 DEF IInv, BytesAccounted, TrailerChecked
  <2>16. DocumentIsOneContainer'
    BY <1>3 DEF DocumentIsOneContainer, Returned
  <2>. QED  BY <2>9, <2>10, <2>11, <2>12, <2>13, <2>14, <2>15, <2>16 DEF IInv
<1>. QED  BY <1>1, <1>2, <1>3

LEMMA AllocatePayloadKeeps == IInv /\ AllocatePayload => IInv'
<1>. SUFFICES ASSUME IInv, AllocatePayload PROVE IInv'
  OBVIOUS
<1>0. /\ UNCHANGED <<fileVars, file, seen, operation, data, position, finished, header,
                     payload, extensions, undeclared, spans>>
      /\ pc = "allocate"
  BY DEF AllocatePayload, fileVars, inflator, document
<1>1. \/ pc' = "return" /\ result' = "false" /\ fault' = TRUE
      \/ pc' = "payload" /\ result' = result /\ fault' = fault
  BY DEF AllocatePayload, Continue, Fail
<1>2. CASE pc' = "return" /\ result' = "false" /\ fault' = TRUE
  BY <1>0, <1>2, Returning DEF IInv, TypeOK
<1>3. CASE pc' = "payload" /\ result' = result /\ fault' = fault
  <2>1. TypeOK'
    BY <1>0, <1>3 DEF IInv, TypeOK, Phases
  <2>2. BoundedMemory' /\ Idle' /\ Loaded'
    BY <1>0, <1>3 DEF IInv, BoundedMemory, Idle, Loaded
  <2>3. FramingChecked'
    BY <1>0, <1>3 DEF IInv, FramingChecked, Opened, Framed
  <2>4. InflatorTracks' /\ HeaderChecked'
    BY <1>0, <1>3 DEF IInv, InflatorTracks, HeaderChecked, Inflated, Headed
  <2>5. BytesAccounted' /\ TrailerChecked'
    BY <1>0, <1>3 DEF IInv, BytesAccounted, TrailerChecked
  <2>6. DocumentIsOneContainer'
    BY <1>3 DEF DocumentIsOneContainer, Returned
  <2>. QED  BY <2>1, <2>2, <2>3, <2>4, <2>5, <2>6 DEF IInv
<1>. QED  BY <1>1, <1>2, <1>3

(* What a pump of an opened stream leaves, for the two that follow.        *)
LEMMA PumpTracks ==
  ASSUME IInv, pc \in {"payload", "drain"}, NEW room \in Nat,
         NEW status \in Pump(data, position, room).status
  PROVE  /\ Pump(data, position, room).produced \in 0 .. room
         /\ position + Pump(data, position, room).produced <= Reachable(data)
         /\ status = "end" =>
              /\ position + Pump(data, position, room).produced = data.version.total
              /\ Input(data) >= CompressedSize(data.version)
              /\ data.version.corruptAt >= data.version.total
<1>1. operation = "Read" /\ data # None /\ position \in Nat
  BY DEF IInv, TypeOK
<1>2. IsVersion(data.version) /\ data.length \in Nat
  BY <1>1, DataFacts DEF IInv
<1>3. data.version.offset \in Nat
  BY <1>2, VersionFacts
<1>4. data.version.offset <= data.length
  BY <1>1, <1>2, <1>3 DEF IInv, FramingChecked, Framed, kTrailerSize
<1>5. position <= Reachable(data)
  BY <1>1 DEF IInv, InflatorTracks, Inflated
<1>. QED  BY <1>1, <1>2, <1>4, <1>5, PumpFacts

LEMMA HeaderIsTyped ==
  ASSUME IInv, pc \in Headed
  PROVE  header \in HeaderFields /\ ExpectedPayloadBytes(header) \in Nat
<1>1. IsVersion(data.version) /\ header = data.version.header
  BY DataFacts DEF IInv, HeaderChecked, TypeOK, Headed
<1>. QED  BY <1>1, VersionFacts, StreamFacts

LEMMA PumpPayloadKeeps == IInv /\ PumpPayload => IInv'
<1>. SUFFICES ASSUME IInv, PumpPayload PROVE IInv'
  OBVIOUS
<1>. DEFINE expected == ExpectedPayloadBytes(header)
            pump     == Pump(data, position, expected)
<1>0. /\ UNCHANGED <<fileVars, file, seen, operation, data, header, extensions,
                     undeclared, spans, fault>>
      /\ pc = "payload"
  BY DEF PumpPayload, fileVars
<1>a. /\ operation = "Read" /\ data # None /\ position \in Nat
      /\ extensions = 0 /\ undeclared = 0 /\ position = kHeaderSize
  BY <1>0 DEF IInv, TypeOK, BytesAccounted, InflatorTracks
<1>b. header \in HeaderFields /\ expected \in Nat
  BY <1>0, HeaderIsTyped DEF Headed
<1>1. PICK status \in pump.status :
        \/ /\ pump.produced = expected
           /\ position' = position + expected /\ finished' = (status = "end")
           /\ payload' = expected /\ pc' = "drain" /\ result' = result
        \/ /\ position' = position /\ finished' = finished /\ payload' = payload
           /\ pc' = "return" /\ result' = "false"
  BY DEF PumpPayload, Continue, Fail, inflator
<1>2. CASE /\ position' = position /\ finished' = finished /\ payload' = payload
           /\ pc' = "return" /\ result' = "false"
  BY <1>0, <1>2, Returning DEF IInv, TypeOK
<1>3. CASE /\ pump.produced = expected
           /\ position' = position + expected /\ finished' = (status = "end")
           /\ payload' = expected /\ pc' = "drain" /\ result' = result
  <2>1. /\ position + expected <= Reachable(data)
        /\ status = "end" =>
             /\ position + expected = data.version.total
             /\ Input(data) >= CompressedSize(data.version)
             /\ data.version.corruptAt >= data.version.total
    <3>1. /\ position + pump.produced <= Reachable(data)
          /\ status = "end" =>
               /\ position + pump.produced = data.version.total
               /\ Input(data) >= CompressedSize(data.version)
               /\ data.version.corruptAt >= data.version.total
      BY <1>0, <1>1, <1>b, PumpTracks
    <3>. HIDE DEF pump, expected
    <3>. QED  BY <1>3, <3>1
  <2>2. expected' = expected
    BY <1>0 DEF ExpectedPayloadBytes, BytesPerPosition, BytesPerRotation, ShDimensions
  <2>3. ExpectedPayloadBytes(header)' = expected
    BY <2>2
  <2>4. /\ Reachable(data)' = Reachable(data) /\ Input(data)' = Input(data)
        /\ CompressedSize(data.version)' = CompressedSize(data.version)
    BY <1>0 DEF Reachable, Input, CompressedSize
  <2>5. TypeOK'
    <3>. HIDE DEF pump, expected
    <3>. QED  BY <1>0, <1>3, <1>a, <1>b DEF IInv, TypeOK, Phases
  <2>6. BoundedMemory' /\ Idle' /\ Loaded'
    BY <1>0, <1>3 DEF IInv, BoundedMemory, Idle, Loaded
  <2>7. FramingChecked'
    BY <1>0, <1>3 DEF IInv, FramingChecked, Opened, Framed
  <2>8. InflatorTracks'
    <3>. HIDE DEF pump, expected
    <3>. QED  BY <1>0, <1>3, <2>1, <2>4 DEF InflatorTracks
  <2>9. HeaderChecked'
    BY <1>0, <1>3 DEF IInv, HeaderChecked, Headed
  <2>10. BytesAccounted'
    <3>. HIDE DEF pump, expected
    <3>1. payload' = ExpectedPayloadBytes(header)'
      BY <1>3, <2>3
    <3>2. position' = kHeaderSize + payload' + extensions' + undeclared'
      BY <1>0, <1>3, <1>a, <1>b
    <3>. QED  BY <1>0, <1>3, <1>a, <3>1, <3>2 DEF BytesAccounted
  <2>11. TrailerChecked' /\ DocumentIsOneContainer'
    BY <1>3 DEF TrailerChecked, DocumentIsOneContainer, Returned
  <2>. QED  BY <2>5, <2>6, <2>7, <2>8, <2>9, <2>10, <2>11 DEF IInv
<1>. QED  BY <1>1, <1>2, <1>3

(* Each piece is kept only while the records stay within their limit, or  *)
(* is counted as having no business there.                                 *)
LEMMA DrainStreamKeeps == IInv /\ DrainStream => IInv'
<1>. SUFFICES ASSUME IInv, DrainStream PROVE IInv'
  OBVIOUS
<1>. DEFINE pump == Pump(data, position, ScratchBytes)
            piece == pump.produced
            c1(s) == Check(s = "corrupt", "corruptContainer")
            c2 == Check(header.extensions
                          /\ pump.produced > MaxExtensionBytes - extensions,
                        "importLimitExceeded")
            c3(s) == Check(s = "progress" /\ pump.produced = 0,
                           "truncatedContainer")
<1>0. /\ UNCHANGED <<fileVars, file, seen, operation, data, fault>>
      /\ pc = "drain" /\ ~finished
  BY DEF DrainStream, fileVars
<1>1. PICK status \in pump.status :
        \/ /\ pc' = "return" /\ result' = "false"
           /\ UNCHANGED <<position, finished, payload, extensions, undeclared>>
        \/ /\ FirstFailure(<<c1(status), c2, c3(status)>>) = NoProblem
           /\ position' = position + piece /\ finished' = (status = "end")
           /\ IF header.extensions
              THEN extensions' = extensions + piece /\ undeclared' = undeclared
              ELSE undeclared' = undeclared + piece /\ extensions' = extensions
           /\ pc' = "drain" /\ result' = result
           /\ UNCHANGED <<header, payload, spans>>
  BY DEF DrainStream, Continue, Fail, inflator, document
<1>2. CASE /\ pc' = "return" /\ result' = "false"
           /\ UNCHANGED <<position, finished, payload, extensions, undeclared>>
  BY <1>0, <1>2, Returning DEF IInv, TypeOK
<1>3. CASE /\ FirstFailure(<<c1(status), c2, c3(status)>>) = NoProblem
           /\ position' = position + piece /\ finished' = (status = "end")
           /\ IF header.extensions
              THEN extensions' = extensions + piece /\ undeclared' = undeclared
              ELSE undeclared' = undeclared + piece /\ extensions' = extensions
           /\ pc' = "drain" /\ result' = result
           /\ UNCHANGED <<header, payload, spans>>
  <2>1. c2 = NoProblem
    <3>. DEFINE f == c1(status)
                g == c3(status)
    <3>1. FirstFailure(<<f, c2, g>>) = NoProblem
      BY <1>3
    <3>. HIDE DEF f, c2, g
    <3>. QED  BY <3>1, ThreePass
  <2>2. ~(header.extensions /\ piece > MaxExtensionBytes - extensions)
    <3>1. "importLimitExceeded" # NoProblem
      BY DEF NoProblem
    <3>. QED  BY <2>1, <3>1, Zenon DEF Check
  <2>3. /\ operation = "Read" /\ data # None /\ position \in Nat
        /\ extensions \in Nat /\ undeclared \in Nat /\ payload \in Nat
    BY <1>0 DEF IInv, TypeOK
  <2>4. /\ ScratchBytes \in Nat /\ MaxExtensionBytes \in Nat
    BY LimitsAssumption
  <2>5. /\ piece \in 0 .. ScratchBytes
        /\ position + piece <= Reachable(data)
        /\ status = "end" =>
             /\ position + piece = data.version.total
             /\ Input(data) >= CompressedSize(data.version)
             /\ data.version.corruptAt >= data.version.total
    BY <1>0, <1>1, <2>4, PumpTracks
  <2>. HIDE DEF c1, c2, c3
  <2>6. piece \in Nat
    <3>. HIDE DEF piece
    <3>. QED  BY <2>4, <2>5
  <2>. HIDE DEF piece, pump
  <2>7. /\ position' \in Nat /\ extensions' \in Nat /\ undeclared' \in Nat
        /\ extensions' + undeclared' = extensions + undeclared + piece
    BY <1>3, <2>3, <2>6
  <2>8. extensions' <= MaxExtensionBytes
    <3>1. extensions <= MaxExtensionBytes
      BY DEF IInv, BoundedMemory
    <3>2. CASE header.extensions
      <4>1. ~(piece > MaxExtensionBytes - extensions)
        BY <2>2, <3>2
      <4>. QED  BY <1>3, <2>3, <2>4, <2>6, <3>2, <4>1
    <3>3. CASE ~header.extensions
      BY <1>3, <3>1, <3>3
    <3>. QED  BY <3>2, <3>3
  <2>9. ExpectedPayloadBytes(header)' = ExpectedPayloadBytes(header)
    BY <1>3 DEF ExpectedPayloadBytes, BytesPerPosition, BytesPerRotation, ShDimensions
  <2>10. /\ Reachable(data)' = Reachable(data) /\ Input(data)' = Input(data)
         /\ CompressedSize(data.version)' = CompressedSize(data.version)
    BY <1>0 DEF Reachable, Input, CompressedSize
  <2>11. TypeOK'
    BY <1>0, <1>3, <2>7 DEF IInv, TypeOK, Phases
  <2>12. BoundedMemory'
    BY <1>0, <1>3, <2>8, <2>9 DEF IInv, BoundedMemory
  <2>13. Idle' /\ Loaded'
    BY <1>0, <1>3 DEF IInv, Idle, Loaded
  <2>14. FramingChecked'
    BY <1>0, <1>3 DEF IInv, FramingChecked, Opened, Framed
  <2>15. InflatorTracks'
    BY <1>0, <1>3, <2>5, <2>10 DEF InflatorTracks
  <2>16. HeaderChecked'
    BY <1>0, <1>3 DEF IInv, HeaderChecked, Headed
  <2>17. BytesAccounted'
    <3>1. /\ payload = ExpectedPayloadBytes(header)
          /\ position = kHeaderSize + payload + extensions + undeclared
          /\ header.extensions => undeclared = 0
          /\ ~header.extensions => extensions = 0
      BY <1>0 DEF IInv, BytesAccounted
    <3>2. payload' = ExpectedPayloadBytes(header)'
      BY <1>3, <2>9, <3>1
    <3>3. position' = kHeaderSize + payload' + extensions' + undeclared'
      BY <1>3, <2>3, <2>6, <2>7, <3>1 DEF kHeaderSize
    <3>4. /\ header'.extensions => undeclared' = 0
          /\ ~header'.extensions => extensions' = 0
      BY <1>3, <3>1
    <3>. QED  BY <1>3, <3>2, <3>3, <3>4 DEF BytesAccounted
  <2>18. TrailerChecked' /\ DocumentIsOneContainer'
    BY <1>3 DEF TrailerChecked, DocumentIsOneContainer, Returned
  <2>. QED  BY <2>11, <2>12, <2>13, <2>14, <2>15, <2>16, <2>17, <2>18 DEF IInv
<1>. QED  BY <1>1, <1>2, <1>3

LEMMA TrailerIsIntact ==
  ASSUME NEW d, IsVersion(d.version), d.length \in Nat,
         TrailerProblem(d) = NoProblem
  PROVE  /\ undeclared = 0
         /\ d.length = d.version.offset + CompressedSize(d.version) + kTrailerSize
         /\ d.version.crcMatches /\ d.version.lengthMatches
<1>. DEFINE trailer == d.version.offset + CompressedSize(d.version)
            c1 == Check(undeclared # 0, "trailingData")
            c2 == Check(d.length < trailer + kTrailerSize, "truncatedContainer")
            c3 == Check(~d.version.crcMatches, "corruptContainer")
            c4 == Check(~d.version.lengthMatches, "corruptContainer")
            c5 == Check(d.length > trailer + kTrailerSize, "trailingData")
<1>1. /\ c1 = NoProblem /\ c2 = NoProblem /\ c3 = NoProblem /\ c4 = NoProblem
      /\ c5 = NoProblem
  <2>1. FirstFailure(<<c1, c2, c3, c4, c5>>) = NoProblem
    BY Zenon DEF TrailerProblem
  <2>. HIDE DEF c1, c2, c3, c4, c5
  <2>. QED  BY <2>1, FivePass
<1>2. /\ "trailingData" # NoProblem /\ "truncatedContainer" # NoProblem
      /\ "corruptContainer" # NoProblem
  BY DEF NoProblem
<1>3. /\ undeclared = 0 /\ ~(d.length < trailer + kTrailerSize)
      /\ d.version.crcMatches /\ d.version.lengthMatches
      /\ ~(d.length > trailer + kTrailerSize)
  BY <1>1, <1>2, Zenon DEF Check
<1>4. trailer \in Int
  BY VersionFacts
<1>. HIDE DEF trailer, c1, c2, c3, c4, c5
<1>5. d.length = trailer + kTrailerSize
  BY <1>3, <1>4 DEF kTrailerSize
<1>. QED  BY <1>3, <1>5 DEF trailer

LEMMA CheckTrailerKeeps == IInv /\ CheckTrailer => IInv'
<1>. SUFFICES ASSUME IInv, CheckTrailer PROVE IInv'
  OBVIOUS
<1>0. /\ UNCHANGED <<fileVars, file, seen, operation, data, position, finished, header,
                     payload, extensions, undeclared, spans, fault>>
      /\ pc = "drain" /\ finished
  BY DEF CheckTrailer, fileVars, inflator, document
<1>1. \/ pc' = "return" /\ result' = "false"
      \/ pc' = "slice" /\ result' = result /\ TrailerProblem(data) = NoProblem
  BY DEF CheckTrailer, Continue, Fail
<1>2. CASE pc' = "return" /\ result' = "false"
  BY <1>0, <1>2, Returning DEF IInv, TypeOK
<1>3. CASE pc' = "slice" /\ result' = result /\ TrailerProblem(data) = NoProblem
  <2>1. IsVersion(data.version) /\ data.length \in Nat
    BY <1>0, DataFacts DEF IInv, TypeOK
  <2>2. /\ undeclared = 0
        /\ data.length = data.version.offset + CompressedSize(data.version)
                           + kTrailerSize
        /\ data.version.crcMatches /\ data.version.lengthMatches
    BY <1>3, <2>1, TrailerIsIntact
  <2>3. TypeOK'
    BY <1>0, <1>3 DEF IInv, TypeOK, Phases
  <2>4. BoundedMemory' /\ Idle' /\ Loaded'
    BY <1>0, <1>3 DEF IInv, BoundedMemory, Idle, Loaded
  <2>5. FramingChecked'
    BY <1>0, <1>3 DEF IInv, FramingChecked, Opened, Framed
  <2>6. InflatorTracks' /\ HeaderChecked'
    BY <1>0, <1>3 DEF IInv, InflatorTracks, HeaderChecked, Inflated, Headed
  <2>7. BytesAccounted'
    BY <1>0, <1>3 DEF IInv, BytesAccounted
  <2>8. TrailerChecked'
    BY <1>0, <1>3, <2>2 DEF TrailerChecked, CompressedSize
  <2>9. DocumentIsOneContainer'
    BY <1>3 DEF DocumentIsOneContainer, Returned
  <2>. QED  BY <2>3, <2>4, <2>5, <2>6, <2>7, <2>8, <2>9 DEF IInv
<1>. QED  BY <1>1, <1>2, <1>3

(* All that has been checked on the way makes the file a container.        *)
LEMMA SlicedIsContainer ==
  ASSUME IInv, pc = "slice"
  PROVE  /\ data.version \in seen /\ IsContainer(data.version)
         /\ header = data.version.header /\ header \in HeaderFields
         /\ payload = ExpectedPayloadBytes(header)
         /\ extensions = Surplus(data.version) /\ undeclared = 0
<1>1. operation = "Read" /\ data # None /\ data.version \in seen
  BY DEF IInv, TypeOK
<1>2. IsVersion(data.version)
  BY <1>1, DataFacts DEF IInv
<1>3. /\ header = data.version.header /\ ValidHeaderOf(data.version)
      /\ header \in HeaderFields /\ ExpectedPayloadBytes(header) \in Nat
  BY HeaderIsTyped DEF IInv, HeaderChecked, Headed
<1>4. /\ data.version.opens /\ data.version.size <= kMaxSpzFileBytes
      /\ data.length = data.version.size
  BY <1>1 DEF IInv, Loaded
<1>5. data.version.signature = "gzip" /\ data.version.badAt = 0
  BY <1>1 DEF IInv, FramingChecked, Opened, Framed
<1>6. /\ finished /\ undeclared = 0
      /\ data.version.size = data.version.offset + CompressedSize(data.version)
                               + kTrailerSize
      /\ data.version.crcMatches /\ data.version.lengthMatches
  BY <1>4 DEF IInv, TrailerChecked
<1>7. position = data.version.total /\ data.version.corruptAt >= data.version.total
  BY <1>1, <1>6 DEF IInv, InflatorTracks, Inflated
<1>8. /\ payload = ExpectedPayloadBytes(header)
      /\ position = kHeaderSize + payload + extensions + undeclared
      /\ ~header.extensions => extensions = 0
  BY DEF IInv, BytesAccounted
<1>9. extensions \in Nat /\ extensions <= MaxExtensionBytes
  BY DEF IInv, TypeOK, BoundedMemory
<1>10. extensions = Surplus(data.version)
  <2>1. Surplus(data.version) = position - kHeaderSize - ExpectedPayloadBytes(header)
    BY <1>3, <1>7 DEF Surplus
  <2>2. position = kHeaderSize + ExpectedPayloadBytes(header) + extensions
    BY <1>3, <1>6, <1>8, <1>9 DEF kHeaderSize
  <2>. QED  BY <1>3, <1>9, <2>1, <2>2 DEF kHeaderSize
<1>11. extensions \in 0 .. IF header.extensions THEN MaxExtensionBytes ELSE 0
  BY <1>8, <1>9, LimitsAssumption
<1>12. Surplus(data.version)
         \in 0 .. IF data.version.header.extensions THEN MaxExtensionBytes ELSE 0
  BY <1>3, <1>10, <1>11
<1>13. IsContainer(data.version)
  BY <1>3, <1>4, <1>5, <1>6, <1>7, <1>12 DEF IsContainer
<1>. QED  BY <1>1, <1>3, <1>6, <1>8, <1>10, <1>13

LEMMA SliceStreamsKeeps == IInv /\ SliceStreams => IInv'
<1>. SUFFICES ASSUME IInv, SliceStreams PROVE IInv'
  OBVIOUS
<1>0. /\ UNCHANGED <<fileVars, file, seen, operation, data, position, finished, header,
                     payload, extensions, undeclared, fault>>
      /\ pc = "slice" /\ pc' = "return" /\ result' = "true"
      /\ spans' = Slices(header)
  BY DEF SliceStreams, Succeed, fileVars, inflator
<1>. DEFINE v == data.version
<1>1. /\ v \in seen /\ IsContainer(v) /\ header = v.header
      /\ header \in HeaderFields
      /\ payload = ExpectedPayloadBytes(header)
      /\ extensions = Surplus(v) /\ undeclared = 0
  BY <1>0, SlicedIsContainer
<1>2. /\ spans'[1].offset = 0
      /\ spans'[6].offset + spans'[6].size = payload
      /\ \A n \in 1 .. 5 : spans'[n].offset + spans'[n].size = spans'[n + 1].offset
  BY <1>0, <1>1, SlicesTilePayload
<1>3. DocumentIsOneContainer'
  <2>. HIDE DEF v
  <2>1. /\ v \in seen' /\ IsContainer(v) /\ header' = v.header
        /\ payload' = ExpectedPayloadBytes(v.header)
        /\ extensions' = Surplus(v) /\ undeclared' = 0
    BY <1>0, <1>1
  <2>2. /\ spans'[1].offset = 0
        /\ spans'[6].offset + spans'[6].size = payload'
    BY <1>0, <1>2
  <2>. QED  BY <1>2, <2>1, <2>2, Zenon DEF DocumentIsOneContainer
<1>4. TypeOK'
  BY <1>0 DEF IInv, TypeOK, Phases
<1>5. BoundedMemory' /\ Idle' /\ Loaded'
  BY <1>0 DEF IInv, BoundedMemory, Idle, Loaded
<1>6. FramingChecked' /\ InflatorTracks' /\ HeaderChecked'
  BY <1>0 DEF FramingChecked, InflatorTracks, HeaderChecked, Opened, Framed,
              Inflated, Headed
<1>7. BytesAccounted' /\ TrailerChecked'
  BY <1>0 DEF BytesAccounted, TrailerChecked
<1>. QED  BY <1>3, <1>4, <1>5, <1>6, <1>7 DEF IInv

LEMMA ReturnKeeps == IInv /\ Return => IInv'
<1>. SUFFICES ASSUME IInv, Return PROVE IInv'
  OBVIOUS
<1>0. /\ UNCHANGED <<file, operation>> /\ seen' = {file}
      /\ pc' = "idle" /\ result' = "none" /\ data' = None
      /\ position' = 0 /\ finished' = FALSE /\ payload' = 0 /\ extensions' = 0
      /\ undeclared' = 0 /\ fault' = FALSE
  BY DEF Return
<1>1. TypeOK'
  BY <1>0 DEF IInv, TypeOK, Phases
<1>2. BoundedMemory' /\ Idle' /\ Loaded'
  BY <1>0, LimitsAssumption DEF BoundedMemory, Idle, Loaded
<1>3. FramingChecked' /\ InflatorTracks' /\ HeaderChecked'
  BY <1>0 DEF FramingChecked, InflatorTracks, HeaderChecked, Opened, Framed,
              Inflated, Headed
<1>4. BytesAccounted' /\ TrailerChecked' /\ DocumentIsOneContainer'
  BY <1>0 DEF BytesAccounted, TrailerChecked, DocumentIsOneContainer, Returned
<1>. QED  BY <1>1, <1>2, <1>3, <1>4 DEF IInv

(* ---- The theorems ------------------------------------------------------ *)

LEMMA InitIsInvariant == Init => IInv
<1>. SUFFICES ASSUME Init PROVE IInv
  OBVIOUS
<1>1. TypeOK
  BY DEF Init, TypeOK, Phases
<1>0. pc = "idle" /\ data = None /\ extensions = 0
  BY DEF Init
<1>2. BoundedMemory /\ Idle /\ Loaded
  <2>1. 0 <= MaxExtensionBytes
    BY LimitsAssumption
  <2>. QED  BY <1>0, <2>1 DEF BoundedMemory, Idle, Loaded
<1>3. FramingChecked /\ InflatorTracks /\ HeaderChecked
  BY DEF Init, FramingChecked, InflatorTracks, HeaderChecked, Opened, Framed,
         Inflated, Headed
<1>4. BytesAccounted /\ TrailerChecked /\ DocumentIsOneContainer
  BY DEF Init, BytesAccounted, TrailerChecked, DocumentIsOneContainer, Returned
<1>. QED  BY <1>1, <1>2, <1>3, <1>4 DEF IInv

LEMMA StutterKeeps == IInv /\ UNCHANGED vars => IInv'
<1>. SUFFICES ASSUME IInv, UNCHANGED vars PROVE IInv'
  OBVIOUS
<1>0. UNCHANGED <<file, seen, operation, pc, result, error, data, position,
                  finished, header, payload, extensions, undeclared, spans, fault>>
  BY DEF vars, fileVars, inflator, document
<1>1. TypeOK' /\ BoundedMemory' /\ Idle' /\ Loaded'
  BY <1>0 DEF IInv, TypeOK, BoundedMemory, Idle, Loaded
<1>2. FramingChecked' /\ InflatorTracks' /\ HeaderChecked'
  BY <1>0 DEF IInv, FramingChecked, InflatorTracks, HeaderChecked
<1>3. BytesAccounted' /\ TrailerChecked' /\ DocumentIsOneContainer'
  BY <1>0 DEF IInv, BytesAccounted, TrailerChecked, DocumentIsOneContainer, Returned
<1>. QED  BY <1>1, <1>2, <1>3 DEF IInv

LEMMA NextKeeps == IInv /\ [Next]_vars => IInv'
<1>. SUFFICES ASSUME IInv, [Next]_vars PROVE IInv'
  OBVIOUS
<1>1. CASE EditFile
  BY <1>1, EditFileKeeps
<1>2. CASE Call
  BY <1>2, CallKeeps
<1>3. CASE Step
  BY <1>3, ProbeSizeKeeps, LoadFileKeeps, FaultsKeep, CheckSignatureKeeps,
     CheckFramingKeeps, InflatorFailsKeeps, PumpMagicKeeps, PumpHeaderKeeps,
     ValidateHeaderBytesKeeps, AllocatePayloadKeeps, PumpPayloadKeeps,
     DrainStreamKeeps, CheckTrailerKeeps, SliceStreamsKeeps, ReturnKeeps
     DEF Step
<1>4. CASE UNCHANGED vars
  BY <1>4, StutterKeeps
<1>. QED  BY <1>1, <1>2, <1>3, <1>4 DEF Next

(* The whole invariant of SpzReader's calls holds in every reachable state *)
(* (SpzReader.cpp:537-841).                                                *)
THEOREM Invariance == Spec => []IInv
BY InitIsInvariant, NextKeeps, PTL DEF Spec

(* Every phase of a call has what it relies on (SpzReader.cpp:537-841).    *)
THEOREM TypeCorrect == Spec => []TypeOK
BY Invariance, PTL DEF IInv

(* What Read hands out is the whole of one container that was there during *)
(* the call, however the file changed between the two opens, and its spans *)
(* tile the payload (SpzReader.cpp:651-671,825-840).                       *)
THEOREM DocumentsAreContainers == Spec => []DocumentIsOneContainer
BY Invariance, PTL DEF IInv

(* No file makes a call load, allocate or keep more than the limits say    *)
(* (SpzReader.cpp:121-130,599-606,675-690,754-760).                        *)
THEOREM MemoryIsBounded == Spec => []BoundedMemory
BY Invariance, PTL DEF IInv

(* ---- Left alone, a call refuses no container --------------------------- *)

(* What a method is bound to accept: CanRead looks no further than its     *)
(* second bound for the magic.                                             *)
Routable(v) ==
  v.offset + CeilDiv(kMagicSize, v.ratio) <= Least(kCanReadRetryLimit, v.size)
Wanted(op, v) == IsContainer(v) /\ (op = "CanRead" => Routable(v))

(* Only a refusal carries a diagnostic.                                    *)
QuietUntilRefused == result # "false" => error = ""

(* ReadHeader holds its prefix or the whole file, CanRead one of its two   *)
(* prefixes.                                                               *)
PrefixLoaded ==
  data # None =>
    /\ operation = "ReadHeader" =>
         IF data.last THEN IsWhole(data)
         ELSE data.length = Least(data.version.size, kPrefixLimit)
    /\ operation = "CanRead" =>
         data.length = Least(data.version.size,
                             IF data.last THEN kCanReadRetryLimit
                             ELSE kPrefixLimit)
    /\ operation # "Read" /\ pc = "signature" => ~data.last

(* The stream that is pumped has been reached.                             *)
StreamReached ==
  pc \in {"magic", "header"} => data.version.offset <= data.length

(* A call is refused, left alone, only over something no container has.    *)
RefusalJustified ==
  pc = "return" /\ Undisturbed =>
    /\ result # "threw"
    /\ result = "false" => ~Wanted(operation, file)
    /\ operation = "Read" /\ result = "false" => error # ""

(* What the two prefix methods accept has been looked at.                  *)
AcceptanceJustified ==
  pc = "return" /\ Undisturbed /\ result = "true" =>
    /\ operation = "ReadHeader" => header = file.header /\ ValidHeaderOf(file)
    /\ operation = "CanRead" => file.signature = "ngsp" \/ file.header.magic

JInv ==
  /\ QuietUntilRefused /\ PrefixLoaded /\ StreamReached
  /\ RefusalJustified /\ AcceptanceJustified

(* ---- What holds of every container ------------------------------------- *)

LEMMA CeilDivFacts ==
  ASSUME NEW a \in Nat, NEW b \in Nat \ {0}
  PROVE  CeilDiv(a, b) \in Nat /\ a <= b * CeilDiv(a, b)
<1>. DEFINE q == (a + b - 1) \div b
            r == (a + b - 1) % b
<1>1. a + b - 1 \in Nat
  OBVIOUS
<1>2. /\ q \in Int /\ r \in 0 .. (b - 1) /\ a + b - 1 = b * q + r
  BY <1>1
<1>3. q >= 0
  BY <1>1
<1>4. b * q \in Int
  BY <1>2
<1>. HIDE DEF q, r
<1>5. a <= b * q
  BY <1>2, <1>4
<1>. QED  BY <1>2, <1>3, <1>5 DEF CeilDiv, q

(* The compressed stream of a container is long enough for what it yields, *)
(* and the stream long enough for what the header declares.                *)
LEMMA ContainerFacts ==
  ASSUME NEW v, IsVersion(v), IsContainer(v)
  PROVE  /\ CompressedSize(v) \in Nat
         /\ v.total <= v.ratio * CompressedSize(v)
         /\ ExpectedPayloadBytes(v.header) \in Nat
         /\ kHeaderSize + ExpectedPayloadBytes(v.header) <= v.total
         /\ v.size = v.offset + CompressedSize(v) + kTrailerSize
<1>. DEFINE c == CeilDiv(v.total, v.ratio)
            p == ExpectedPayloadBytes(v.header)
<1>1. v.total \in Nat /\ v.ratio \in Nat \ {0} /\ v.header \in HeaderFields
  BY VersionFacts
<1>2. c \in Nat /\ v.total <= v.ratio * c
  BY <1>1, CeilDivFacts
<1>3. CompressedSize(v) = c + 1
  BY DEF CompressedSize
<1>4. p \in Nat
  BY <1>1, StreamFacts
<1>5. Surplus(v) \in Nat
  <2>1. \A n \in Nat : 0 .. n \subseteq Nat
    OBVIOUS
  <2>. QED  BY <2>1, LimitsAssumption DEF IsContainer
<1>6. v.total - kHeaderSize - p \in Nat
  BY <1>5 DEF Surplus
<1>. HIDE DEF c, p
<1>7. kHeaderSize + p <= v.total
  BY <1>1, <1>4, <1>6 DEF kHeaderSize
<1>8. v.ratio * (c + 1) = v.ratio * c + v.ratio
  BY <1>1, <1>2
<1>9. v.ratio * c \in Nat
  BY <1>1, <1>2, ProductIsNat
<1>10. v.total <= v.ratio * (c + 1)
  BY <1>1, <1>2, <1>8, <1>9
<1>. QED  BY <1>2, <1>3, <1>4, <1>7, <1>10 DEF IsContainer, p

(* All of a container's stream can be reached once the file is loaded.     *)
LEMMA WholeIsReachable ==
  ASSUME NEW d, IsVersion(d.version), IsContainer(d.version), IsWhole(d)
  PROVE  /\ d.version.offset + kTrailerSize <= d.length
         /\ Reachable(d) = d.version.total
         /\ Input(d) >= CompressedSize(d.version)
<1>. DEFINE v == d.version
            c == CompressedSize(d.version)
<1>1. /\ c \in Nat /\ v.total <= v.ratio * c
      /\ v.size = v.offset + c + kTrailerSize
  BY ContainerFacts
<1>2. v.total \in Nat /\ v.ratio \in Nat /\ v.offset \in Nat /\ d.length = v.size
  BY VersionFacts DEF IsWhole
<1>3. Input(d) = c + kTrailerSize /\ v.offset + kTrailerSize <= d.length
  <2>. HIDE DEF c, v
  <2>1. d.length - v.offset = c + kTrailerSize /\ v.offset + kTrailerSize <= d.length
    BY <1>1, <1>2 DEF kTrailerSize
  <2>. QED  BY <2>1 DEF Input, v
<1>4. v.ratio * c <= v.ratio * (c + kTrailerSize)
  <2>. HIDE DEF c, v
  <2>1. v.ratio * (c + kTrailerSize) = v.ratio * c + v.ratio * 8
    BY <1>1, <1>2 DEF kTrailerSize
  <2>2. v.ratio * c \in Nat /\ v.ratio * 8 \in Nat
    BY <1>1, <1>2, ProductIsNat
  <2>. QED  BY <2>1, <2>2
<1>5. v.ratio * c \in Nat /\ v.ratio * (c + kTrailerSize) \in Nat
  <2>. HIDE DEF c, v
  <2>1. c + kTrailerSize \in Nat
    BY <1>1 DEF kTrailerSize
  <2>. QED  BY <1>1, <1>2, <2>1, ProductIsNat
<1>6. Reachable(d) = Least(v.total, v.ratio * (c + kTrailerSize))
  BY <1>3 DEF Reachable
<1>. HIDE DEF c, v
<1>7. Least(v.total, v.ratio * (c + kTrailerSize)) = v.total
  BY <1>1, <1>2, <1>4, <1>5 DEF Least
<1>8. Input(d) >= c
  BY <1>1, <1>3 DEF kTrailerSize
<1>. QED  BY <1>3, <1>6, <1>7, <1>8 DEF c, v

(* An intact stream fills every buffer it reaches.                         *)
LEMMA PumpFills ==
  ASSUME NEW d, IsVersion(d.version), d.length \in Nat,
         d.version.offset <= d.length,
         d.version.corruptAt >= d.version.total,
         NEW from \in Nat, NEW room \in Nat, from + room <= Reachable(d)
  PROVE  Pump(d, from, room).produced = room
<1>. DEFINE to == Least(from + room, Reachable(d))
<1>1. Reachable(d) \in Nat /\ Reachable(d) <= d.version.total
  BY ReachableIsNat
<1>2. to = from + room
  BY <1>1 DEF Least
<1>3. d.version.corruptAt \in Nat /\ d.version.total \in Nat
  BY VersionFacts
<1>4. ~(d.version.corruptAt < to)
  <2>. HIDE DEF to
  <2>. QED  BY <1>1, <1>2, <1>3
<1>5. Pump(d, from, room).produced = to - from
  BY <1>4 DEF Pump
<1>. HIDE DEF to
<1>. QED  BY <1>2, <1>5

(* It never reports corruption, and, wholly loaded, brings something or    *)
(* reports its end.                                                        *)
LEMMA PumpGoesOn ==
  ASSUME NEW d, IsVersion(d.version), IsContainer(d.version), IsWhole(d),
         NEW from \in Nat, from <= d.version.total, NEW room \in Nat \ {0},
         NEW status \in Pump(d, from, room).status
  PROVE  /\ status # "corrupt"
         /\ ~(status = "progress" /\ Pump(d, from, room).produced = 0)
         /\ Pump(d, from, room).produced \in Nat
         /\ from + Pump(d, from, room).produced <= d.version.total
<1>. DEFINE to == Least(from + room, Reachable(d))
            ended == to = d.version.total /\ Input(d) >= CompressedSize(d.version)
<1>1. Reachable(d) = d.version.total /\ Input(d) >= CompressedSize(d.version)
  BY WholeIsReachable
<1>2. d.version.corruptAt \in Nat /\ d.version.total \in Nat
  BY VersionFacts
<1>3. to \in Nat /\ from <= to /\ to <= d.version.total
      /\ (to = from => to = d.version.total)
  BY <1>1, <1>2 DEF Least
<1>4. ~(d.version.corruptAt < to)
  <2>. HIDE DEF to
  <2>. QED  BY <1>2, <1>3 DEF IsContainer
<1>5. Pump(d, from, room) =
        [produced |-> to - from,
         status |-> IF ended /\ to - from < room THEN {"end"}
                    ELSE IF ended THEN {"end", "progress"}
                    ELSE {"progress"}]
  BY <1>4 DEF Pump
<1>6. Pump(d, from, room).produced = to - from
  BY <1>5
<1>7. status # "corrupt"
  BY <1>5
<1>8. ~(status = "progress" /\ to - from = 0)
  <2>. SUFFICES ASSUME status = "progress", to - from = 0 PROVE FALSE
    OBVIOUS
  <2>1. to = from
    <3>. HIDE DEF to
    <3>. QED  BY <1>3
  <2>2. ended
    BY <1>1, <1>3, <2>1
  <2>3. status = "end"
    <3>. HIDE DEF to, ended
    <3>. QED  BY <1>5, <2>2
  <2>. QED  BY <2>3
<1>. HIDE DEF to, ended
<1>. QED  BY <1>2, <1>3, <1>6, <1>7, <1>8

(* What ends before its sixteenth byte, or breaks there, is no container.  *)
LEMMA ShortHeaderPump ==
  ASSUME NEW d, IsVersion(d.version), d.length \in Nat,
         d.version.offset <= d.length,
         NEW status \in Pump(d, 0, kHeaderSize).status,
         Pump(d, 0, kHeaderSize).produced # kHeaderSize,
         status \in {"corrupt", "end"} \/ IsWhole(d)
  PROVE  ~IsContainer(d.version)
<1>. SUFFICES ASSUME IsContainer(d.version) PROVE FALSE
  OBVIOUS
<1>1. /\ d.version.total \in Nat /\ kHeaderSize <= d.version.total
      /\ d.version.corruptAt \in Nat /\ d.version.corruptAt >= d.version.total
  BY ContainerFacts, VersionFacts DEF kHeaderSize, IsContainer
<1>2. Reachable(d) \in Nat /\ Reachable(d) <= d.version.total
  BY ReachableIsNat
<1>3. ~(kHeaderSize <= Reachable(d))
  <2>. SUFFICES ASSUME kHeaderSize <= Reachable(d) PROVE FALSE
    OBVIOUS
  <2>1. 0 + kHeaderSize <= Reachable(d) /\ kHeaderSize \in Nat
    BY DEF kHeaderSize
  <2>. QED  BY <1>1, <2>1, PumpFills
<1>4. ~IsWhole(d)
  BY <1>1, <1>3, WholeIsReachable
<1>5. kHeaderSize \in Nat /\ 0 <= Reachable(d) /\ 0 \in Nat
  BY <1>2 DEF kHeaderSize
<1>6. status # "end"
  <2>. SUFFICES ASSUME status = "end" PROVE FALSE
    OBVIOUS
  <2>1. /\ 0 + Pump(d, 0, kHeaderSize).produced = d.version.total
        /\ 0 + Pump(d, 0, kHeaderSize).produced <= Reachable(d)
    BY <1>5, PumpFacts
  <2>. QED  BY <1>1, <1>2, <1>3, <2>1
<1>7. status # "corrupt"
  <2>1. ~(d.version.corruptAt < Least(0 + kHeaderSize, Reachable(d)))
    BY <1>1, <1>2, <1>5 DEF Least, kHeaderSize
  <2>. QED  BY <2>1 DEF Pump
<1>. QED  BY <1>4, <1>6, <1>7

(* ---- The ways a step can leave a call ---------------------------------- *)

LEMMA AloneData ==
  ASSUME IInv, Undisturbed, data # None
  PROVE  data.version = file
BY DEF IInv, TypeOK, Undisturbed

(* The call goes on with what it has loaded.                               *)
LEMMA GoingOn ==
  ASSUME IInv, JInv, pc # "return", pc' \notin {"return", "signature"},
         UNCHANGED <<operation, data, error>>,
         pc' \in {"magic", "header"} => data.version.offset <= data.length
  PROVE  JInv'
<1>1. error = ""
  BY DEF IInv, JInv, TypeOK, QuietUntilRefused
<1>2. QuietUntilRefused' /\ RefusalJustified' /\ AcceptanceJustified'
  BY <1>1 DEF QuietUntilRefused, RefusalJustified, AcceptanceJustified
<1>3. PrefixLoaded'
  BY DEF JInv, PrefixLoaded, IsWhole
<1>4. StreamReached'
  BY DEF StreamReached
<1>. QED  BY <1>2, <1>3, <1>4 DEF JInv

(* It is refused, with a diagnostic, over a file that is no container.     *)
LEMMA Refusing ==
  ASSUME IInv, JInv, NEW code, code # "", Fail(code),
         UNCHANGED <<fileVars, operation, data, fault>>,
         Undisturbed => ~Wanted(operation, file)
  PROVE  JInv'
<1>0. /\ pc' = "return" /\ result' = "false"
      /\ operation = "Read" => error' # ""
      /\ file' = file /\ seen' = seen
  BY DEF Fail, fileVars
<1>1. QuietUntilRefused' /\ StreamReached' /\ AcceptanceJustified'
  BY <1>0 DEF QuietUntilRefused, StreamReached, AcceptanceJustified
<1>2. PrefixLoaded'
  BY <1>0 DEF JInv, PrefixLoaded, IsWhole
<1>3. Wanted(operation, file)' = Wanted(operation, file)
  BY <1>0 DEF Wanted, IsContainer, Routable, CompressedSize, ValidHeaderOf,
              Surplus, ExpectedPayloadBytes, BytesPerPosition, BytesPerRotation,
              ShDimensions
<1>4. Undisturbed' = Undisturbed
  BY <1>0 DEF Undisturbed
<1>5. RefusalJustified'
  BY <1>0, <1>3, <1>4 DEF RefusalJustified
<1>. QED  BY <1>1, <1>2, <1>5 DEF JInv

(* It is refused because memory was.                                       *)
LEMMA Faulting ==
  ASSUME IInv, JInv, pc # "return", pc' = "return", fault' = TRUE,
         UNCHANGED <<operation, data>>,
         result' = "false" \/ error' = error
  PROVE  JInv'
<1>1. error = ""
  BY DEF IInv, JInv, TypeOK, QuietUntilRefused
<1>2. QuietUntilRefused' /\ StreamReached'
  BY <1>1 DEF QuietUntilRefused, StreamReached
<1>3. RefusalJustified' /\ AcceptanceJustified'
  BY DEF RefusalJustified, AcceptanceJustified, Undisturbed
<1>4. PrefixLoaded'
  BY DEF JInv, PrefixLoaded, IsWhole
<1>. QED  BY <1>2, <1>3, <1>4 DEF JInv

(* It succeeds, on the strength of what it has looked at.                  *)
LEMMA Accepting ==
  ASSUME IInv, JInv, pc # "return", Succeed,
         UNCHANGED <<fileVars, operation, data, fault>>,
         Undisturbed /\ operation = "ReadHeader" =>
           header' = file.header /\ ValidHeaderOf(file),
         Undisturbed /\ operation = "CanRead" =>
           file.signature = "ngsp" \/ file.header.magic
  PROVE  JInv'
<1>0. /\ pc' = "return" /\ result' = "true" /\ error' = error
      /\ file' = file /\ seen' = seen
  BY DEF Succeed, fileVars
<1>1. error = ""
  BY DEF IInv, JInv, TypeOK, QuietUntilRefused
<1>2. QuietUntilRefused' /\ StreamReached' /\ RefusalJustified'
  BY <1>0, <1>1 DEF QuietUntilRefused, StreamReached, RefusalJustified
<1>3. PrefixLoaded'
  BY <1>0 DEF JInv, PrefixLoaded, IsWhole
<1>4. Undisturbed' = Undisturbed
  BY <1>0 DEF Undisturbed
<1>5. ValidHeaderOf(file)' = ValidHeaderOf(file)
  BY <1>0 DEF ValidHeaderOf
<1>6. AcceptanceJustified'
  BY <1>0, <1>4, <1>5 DEF AcceptanceJustified
<1>. QED  BY <1>2, <1>3, <1>6 DEF JInv

LEMMA NoContainerIsUnwanted ==
  ASSUME NEW op, NEW v, ~IsContainer(v)
  PROVE  ~Wanted(op, v)
BY DEF Wanted

(* ---- Each action: what it refuses is no container ---------------------- *)

LEMMA CodesAreSome ==
  /\ "unreadableFile" # "" /\ "importLimitExceeded" # ""
  /\ "notSpzContainer" # "" /\ "malformedContainer" # ""
  /\ "unsupportedVersion" # "" /\ "truncatedContainer" # ""
  /\ "corruptContainer" # "" /\ "internalError" # ""
OBVIOUS

LEMMA ProbeSizeAgrees == IInv /\ JInv /\ ProbeSize => JInv'
<1>. SUFFICES ASSUME IInv, JInv, ProbeSize PROVE JInv'
  OBVIOUS
<1>0. pc = "probe" /\ UNCHANGED <<fileVars, operation, data, fault>>
  BY DEF ProbeSize
<1>1. file.size \in Nat /\ kMaxSpzFileBytes \in Nat
  BY LimitsAssumption, VersionsAssumption, VersionFacts DEF IInv, TypeOK
<1>2. CASE ~file.opens
  <2>1. Fail("unreadableFile") /\ ~IsContainer(file)
    BY <1>2 DEF ProbeSize, IsContainer
  <2>. QED  BY <1>0, <2>1, CodesAreSome, NoContainerIsUnwanted, Refusing
<1>3. CASE file.opens /\ file.size > kMaxSpzFileBytes
  <2>1. Fail("importLimitExceeded") /\ ~IsContainer(file)
    BY <1>1, <1>3 DEF ProbeSize, IsContainer
  <2>. QED  BY <1>0, <2>1, CodesAreSome, NoContainerIsUnwanted, Refusing
<1>4. CASE file.opens /\ ~(file.size > kMaxSpzFileBytes)
  <2>1. Continue("load")
    BY <1>4 DEF ProbeSize
  <2>. QED  BY <1>0, <2>1, GoingOn DEF Continue
<1>. QED  BY <1>2, <1>3, <1>4

LEMMA LoadFileAgrees == IInv /\ JInv /\ LoadFile => JInv'
<1>. SUFFICES ASSUME IInv, JInv, LoadFile PROVE JInv'
  OBVIOUS
<1>0. /\ pc \in {"prefix", "load", "retry"}
      /\ UNCHANGED <<fileVars, operation, fault>>
  BY DEF LoadFile
<1>1. file.size \in Nat /\ kMaxSpzFileBytes \in Nat
  BY LimitsAssumption, VersionsAssumption, VersionFacts DEF IInv, TypeOK
<1>2. CASE ~file.opens
  <2>1. Fail("unreadableFile") /\ data' = data /\ ~IsContainer(file)
    BY <1>2 DEF LoadFile, IsContainer
  <2>. QED  BY <1>0, <2>1, CodesAreSome, NoContainerIsUnwanted, Refusing
<1>3. CASE file.opens /\ operation # "CanRead" /\ file.size > kMaxSpzFileBytes
  <2>1. Fail("importLimitExceeded") /\ data' = data /\ ~IsContainer(file)
    BY <1>1, <1>3 DEF LoadFile, IsContainer
  <2>. QED  BY <1>0, <2>1, CodesAreSome, NoContainerIsUnwanted, Refusing
<1>4. CASE file.opens /\ ~(operation # "CanRead" /\ file.size > kMaxSpzFileBytes)
  <2>1. /\ data' = Load(file, Limit, pc # "prefix")
        /\ Continue(IF pc = "prefix" \/ operation = "Read"
                    THEN "signature" ELSE "framing")
    BY <1>4 DEF LoadFile
  <2>2. /\ data'.version = file /\ data'.length = Least(file.size, Limit)
        /\ data'.last = (pc # "prefix")
    BY <2>1 DEF Load
  <2>3. /\ operation = "ReadHeader" => pc \in {"prefix", "load"}
        /\ operation = "CanRead" => pc \in {"prefix", "retry"}
        /\ operation = "Read" => pc = "load"
    BY <1>0 DEF IInv, TypeOK, Operations
  <2>4. operation = "ReadHeader" /\ pc = "load" => data'.length = file.size
    BY <1>1, <1>4, <2>2 DEF Limit, Least
  <2>5. PrefixLoaded'
    <3>1. Least(file.size, kPrefixLimit)' = Least(file.size, kPrefixLimit)
      BY <1>0 DEF Least, fileVars
    <3>2. Least(file.size, kCanReadRetryLimit)' = Least(file.size, kCanReadRetryLimit)
      BY <1>0 DEF Least, fileVars
    <3>3. operation' = "ReadHeader" =>
            IF data'.last THEN data'.length = data'.version.size
            ELSE data'.length = Least(data'.version.size, kPrefixLimit)
      BY <1>0, <2>2, <2>3, <2>4 DEF Limit
    <3>4. operation' = "CanRead" =>
            data'.length = Least(data'.version.size,
                                 IF data'.last THEN kCanReadRetryLimit
                                 ELSE kPrefixLimit)
      BY <1>0, <2>2, <2>3 DEF Limit
    <3>5. operation' # "Read" /\ pc' = "signature" => ~data'.last
      BY <1>0, <2>1, <2>2 DEF Continue
    <3>. QED  BY <3>3, <3>4, <3>5 DEF PrefixLoaded, IsWhole
  <2>6. pc' \in {"signature", "framing"} /\ result' = result /\ error' = error
    BY <2>1 DEF Continue
  <2>7. error = ""
    BY <1>0 DEF IInv, JInv, TypeOK, QuietUntilRefused
  <2>8. /\ QuietUntilRefused' /\ StreamReached' /\ RefusalJustified'
        /\ AcceptanceJustified'
    BY <2>6, <2>7 DEF QuietUntilRefused, StreamReached, RefusalJustified,
                      AcceptanceJustified
  <2>. QED  BY <2>5, <2>8 DEF JInv
<1>. QED  BY <1>2, <1>3, <1>4

LEMMA FaultsAgree == IInv /\ JInv /\ (LoadFails \/ Throw) => JInv'
<1>. SUFFICES ASSUME IInv, JInv, LoadFails \/ Throw PROVE JInv'
  OBVIOUS
<1>1. /\ pc # "return" /\ pc' = "return" /\ fault' = TRUE
      /\ UNCHANGED <<operation, data>>
      /\ result' = "false" \/ error' = error
  BY DEF LoadFails, Throw, Fail
<1>. QED  BY <1>1, Faulting

(* The first bytes of a container are loaded, and are those of gzip.       *)
LEMMA ContainerSignature ==
  ASSUME IInv, JInv, pc = "signature", IsContainer(data.version)
  PROVE  Signature(data) = "gzip"
<1>. DEFINE v == data.version
<1>1. data # None /\ IsVersion(v) /\ data.length \in Nat
  BY DataFacts DEF IInv, TypeOK
<1>2. v.size \in Nat /\ v.size >= 8
  <2>1. /\ v.size = v.offset + CompressedSize(v) + kTrailerSize
        /\ v.offset \in Nat /\ CompressedSize(v) \in Nat
    BY <1>1, ContainerFacts, VersionFacts
  <2>. HIDE DEF v
  <2>. QED  BY <2>1 DEF kTrailerSize
<1>3. \/ data.length = v.size
      \/ data.length = Least(v.size, kPrefixLimit)
  <2>1. operation = "Read" => data.length = v.size
    BY <1>1 DEF IInv, Loaded
  <2>2. operation # "Read" => data.length = Least(v.size, kPrefixLimit)
    BY <1>1 DEF IInv, JInv, TypeOK, Operations, PrefixLoaded
  <2>. QED  BY <2>1, <2>2
<1>4. data.length >= 2
  BY <1>2, <1>3, LimitsAssumption DEF Least
<1>5. v.signature = "gzip"
  BY DEF IsContainer
<1>. QED  BY <1>4, <1>5 DEF Signature

LEMMA CheckSignatureAgrees == IInv /\ JInv /\ CheckSignature => JInv'
<1>. SUFFICES ASSUME IInv, JInv, CheckSignature PROVE JInv'
  OBVIOUS
<1>0. /\ pc = "signature" /\ data # None
      /\ UNCHANGED <<fileVars, operation, data, fault>>
  BY DEF CheckSignature, IInv, TypeOK
<1>1. CASE Signature(data) = "gzip"
  <2>1. Continue("framing")
    BY <1>1 DEF CheckSignature
  <2>. QED  BY <1>0, <2>1, GoingOn DEF Continue
<1>2. CASE Signature(data) # "gzip"
  <2>1. Undisturbed => ~IsContainer(file)
    BY <1>0, <1>2, AloneData, ContainerSignature
  <2>2. Undisturbed => ~Wanted(operation, file)
    BY <2>1, NoContainerIsUnwanted
  <2>3. \/ Fail("notSpzContainer")
        \/ operation # "CanRead" /\ Fail(PlaintextProblem(data))
        \/ operation = "CanRead" /\ Signature(data) # "unknown" /\ Succeed
    BY <1>2 DEF CheckSignature
  <2>4. PlaintextProblem(data) # ""
    BY CodesAreSome DEF PlaintextProblem
  <2>5. CASE Fail("notSpzContainer")
    BY <1>0, <2>2, <2>5, CodesAreSome, Refusing
  <2>6. CASE operation # "CanRead" /\ Fail(PlaintextProblem(data))
    BY <1>0, <2>2, <2>4, <2>6, Refusing
  <2>7. CASE operation = "CanRead" /\ Signature(data) # "unknown" /\ Succeed
    <3>1. data.version.signature = "ngsp"
      <4>1. IsVersion(data.version)
        BY <1>0, DataFacts DEF IInv
      <4>. QED  BY <1>2, <2>7, <4>1 DEF Signature, IsVersion
    <3>2. Undisturbed => file.signature = "ngsp"
      BY <1>0, <3>1, AloneData
    <3>. QED  BY <1>0, <2>7, <3>2, Accepting
  <2>. QED  BY <2>3, <2>5, <2>6, <2>7
<1>. QED  BY <1>1, <1>2

(* The magic of a routable container lies within what CanRead has loaded   *)
(* last, its gzip header certainly does.                                   *)
LEMMA RoutableIsLoaded ==
  ASSUME IInv, JInv, operation = "CanRead", data # None,
         data.last \/ IsWhole(data), Wanted(operation, data.version)
  PROVE  /\ CeilDiv(kMagicSize, data.version.ratio) \in Nat
         /\ data.version.offset + CeilDiv(kMagicSize, data.version.ratio)
              <= data.length
         /\ data.version.offset <= data.length
<1>. DEFINE v == data.version
            n == CeilDiv(kMagicSize, data.version.ratio)
<1>1. IsVersion(v) /\ data.length \in Nat
  BY DataFacts DEF IInv
<1>2. v.offset \in Nat /\ v.size \in Nat /\ v.ratio \in Nat \ {0}
  BY <1>1, VersionFacts
<1>3. n \in Nat
  BY <1>2, CeilDivFacts DEF kMagicSize
<1>4. v.offset + n <= Least(kCanReadRetryLimit, v.size)
  BY DEF Wanted, Routable
<1>5. \/ data.length = Least(v.size, kCanReadRetryLimit) \/ data.length = v.size
  BY DEF JInv, PrefixLoaded, IsWhole
<1>6. kCanReadRetryLimit \in Nat
  BY LimitsAssumption
<1>. HIDE DEF n, v
<1>7. v.offset + n <= data.length
  BY <1>2, <1>3, <1>4, <1>5, <1>6 DEF Least
<1>8. v.offset <= data.length
  BY <1>1, <1>2, <1>3, <1>7
<1>. QED  BY <1>3, <1>7, <1>8 DEF n, v

LEMMA CheckFramingAgrees == IInv /\ JInv /\ CheckFraming => JInv'
<1>. SUFFICES ASSUME IInv, JInv, CheckFraming PROVE JInv'
  OBVIOUS
<1>. DEFINE v == data.version
            complete == operation = "Read" \/ IsWhole(data)
            framing == ParseGzipHeader(data, complete)
<1>0. /\ pc = "framing" /\ data # None
      /\ UNCHANGED <<fileVars, operation, data, fault>>
  BY DEF CheckFraming, IInv, TypeOK
<1>1. IsVersion(v) /\ data.length \in Nat /\ v.offset \in Nat
  BY <1>0, DataFacts, VersionFacts DEF IInv
<1>2. operation = "Read" => IsWhole(data)
  BY <1>0 DEF IInv, Loaded, IsWhole
<1>3. framing = "ok" => v.offset <= data.length
  BY <1>1 DEF ParseGzipHeader
<1>4. /\ framing = "malformed" => v.badAt # 0 \/ (complete /\ ~(v.offset <= data.length))
      /\ framing # "ok" => v.badAt # 0 \/ ~(v.offset <= data.length)
      /\ framing \in {"ok", "malformed", "needMore"}
  BY <1>1 DEF ParseGzipHeader
<1>5. IsContainer(v) => /\ v.badAt = 0
                        /\ IsWhole(data) => v.offset + kTrailerSize <= data.length
  BY <1>1, WholeIsReachable DEF IsContainer
<1>6. IsContainer(v) /\ IsWhole(data) => v.offset <= data.length
  BY <1>1, <1>5 DEF kTrailerSize
<1>7. Undisturbed => v = file
  BY <1>0, AloneData
<1>8. CASE operation = "CanRead"
  <2>1. CASE framing = "ok"
    <3>1. Continue("magic")
      BY <1>8, <2>1 DEF CheckFraming
    <3>. QED  BY <1>0, <1>3, <2>1, <3>1, GoingOn DEF Continue
  <2>2. CASE framing # "ok"
    <3>1. Decline
      BY <1>8, <2>2 DEF CheckFraming
    <3>2. CASE Continue("retry")
      BY <1>0, <3>2, GoingOn DEF Continue
    <3>3. CASE ~(~data.last /\ ~IsWhole(data)) /\ Fail("")
      <4>1. Fail("unreadableFile")
        BY <1>8, <3>3 DEF Fail
      <4>2. ~Wanted(operation, v)
        <5>. SUFFICES ASSUME Wanted(operation, v) PROVE FALSE
          OBVIOUS
        <5>1. IsContainer(v)
          BY DEF Wanted
        <5>2. v.offset <= data.length
          BY <1>0, <1>8, <3>3, RoutableIsLoaded
        <5>. QED  BY <1>4, <1>5, <2>2, <5>1, <5>2
      <4>. QED  BY <1>0, <1>7, <4>1, <4>2, CodesAreSome, Refusing
    <3>. QED  BY <3>1, <3>2, <3>3 DEF Decline
  <2>. QED  BY <2>1, <2>2
<1>9. CASE operation # "CanRead"
  <2>1. CASE framing = "malformed"
    <3>1. Fail("malformedContainer")
      BY <1>9, <2>1 DEF CheckFraming
    <3>2. ~IsContainer(v)
      BY <1>2, <1>4, <1>5, <1>6, <2>1
    <3>3. Undisturbed => ~Wanted(operation, file)
      BY <1>7, <3>2, NoContainerIsUnwanted
    <3>. QED  BY <1>0, <3>1, <3>3, CodesAreSome, Refusing
  <2>2. CASE framing = "needMore"
    <3>1. Continue("load")
      BY <1>9, <2>2 DEF CheckFraming
    <3>. QED  BY <1>0, <3>1, GoingOn DEF Continue
  <2>3. CASE framing = "ok"
    <3>1. \/ /\ operation = "Read" /\ data.length < v.offset + kTrailerSize
             /\ Fail("truncatedContainer")
          \/ Continue("header")
      BY <1>9, <2>3 DEF CheckFraming
    <3>2. CASE Continue("header")
      BY <1>0, <1>3, <2>3, <3>2, GoingOn DEF Continue
    <3>3. CASE /\ operation = "Read" /\ data.length < v.offset + kTrailerSize
               /\ Fail("truncatedContainer")
      <4>1. ~IsContainer(v)
        BY <1>1, <1>2, <1>5, <3>3 DEF kTrailerSize
      <4>2. Undisturbed => ~Wanted(operation, file)
        BY <1>7, <4>1, NoContainerIsUnwanted
      <4>. QED  BY <1>0, <3>3, <4>2, CodesAreSome, Refusing
    <3>. QED  BY <3>1, <3>2, <3>3
  <2>. QED  BY <1>4, <2>1, <2>2, <2>3
<1>. QED  BY <1>8, <1>9

LEMMA InflatorFailsAgrees == IInv /\ JInv /\ InflatorFails => JInv'
<1>. SUFFICES ASSUME IInv, JInv, InflatorFails PROVE JInv'
  OBVIOUS
<1>0. /\ pc \in {"magic", "header"} /\ fault' = TRUE
      /\ UNCHANGED <<operation, data>>
  BY DEF InflatorFails
<1>1. \/ Continue("retry")
      \/ pc' = "return" /\ result' = "false"
  BY DEF InflatorFails, Decline, Fail
<1>2. CASE Continue("retry")
  BY <1>0, <1>2, GoingOn DEF Continue
<1>3. CASE pc' = "return" /\ result' = "false"
  BY <1>0, <1>3, Faulting
<1>. QED  BY <1>1, <1>2, <1>3

(* The magic of a routable container is inflated, and is SPZ's.            *)
LEMMA RoutableMagicIsPumped ==
  ASSUME IInv, JInv, operation = "CanRead", data # None,
         data.last \/ IsWhole(data), Wanted(operation, data.version)
  PROVE  /\ Pump(data, 0, kMagicSize).produced = kMagicSize
         /\ data.version.header.magic
<1>. DEFINE v == data.version
            n == CeilDiv(kMagicSize, data.version.ratio)
<1>1. IsVersion(v) /\ data.length \in Nat /\ IsContainer(v)
  BY DataFacts DEF IInv, Wanted
<1>2. /\ v.offset \in Nat /\ v.ratio \in Nat \ {0} /\ v.total \in Nat
      /\ v.corruptAt >= v.total /\ v.header.magic
  BY <1>1, VersionFacts DEF IsContainer, ValidHeaderOf
<1>3. n \in Nat /\ v.offset + n <= data.length /\ v.offset <= data.length
  BY RoutableIsLoaded
<1>4. kMagicSize \in Nat /\ kMagicSize <= v.total
  <2>1. /\ ExpectedPayloadBytes(v.header) \in Nat
        /\ kHeaderSize + ExpectedPayloadBytes(v.header) <= v.total
    BY <1>1, ContainerFacts
  <2>. QED  BY <1>2, <2>1 DEF kMagicSize, kHeaderSize
<1>5. kMagicSize <= v.ratio * n
  BY <1>2, <1>4, CeilDivFacts
<1>6. Input(data) \in Nat /\ n <= Input(data)
  <2>1. Input(data) = data.length - v.offset
    BY DEF Input
  <2>. HIDE DEF n, v
  <2>. QED  BY <1>1, <1>2, <1>3, <2>1
<1>7. v.ratio * n <= v.ratio * Input(data)
  <2>. HIDE DEF n, v
  <2>1. n * v.ratio <= v.ratio * Input(data)
    BY <1>2, <1>3, <1>6, ProductGrows
  <2>2. n * v.ratio = v.ratio * n
    BY <1>2, <1>3
  <2>. QED  BY <2>1, <2>2
<1>8. v.ratio * n \in Nat /\ v.ratio * Input(data) \in Nat
  BY <1>2, <1>3, <1>6, ProductIsNat
<1>9. Reachable(data) = Least(v.total, v.ratio * Input(data))
  BY DEF Reachable
<1>10. 0 + kMagicSize <= Reachable(data)
  <2>. HIDE DEF n, v
  <2>. QED  BY <1>2, <1>4, <1>5, <1>7, <1>8, <1>9 DEF Least
<1>. QED  BY <1>1, <1>2, <1>3, <1>4, <1>10, PumpFills

LEMMA PumpMagicAgrees == IInv /\ JInv /\ PumpMagic => JInv'
<1>. SUFFICES ASSUME IInv, JInv, PumpMagic PROVE JInv'
  OBVIOUS
<1>0. /\ pc = "magic" /\ data # None /\ operation = "CanRead"
      /\ UNCHANGED <<fileVars, operation, data, fault>>
  BY DEF PumpMagic, IInv, TypeOK
<1>1. Undisturbed => data.version = file
  BY <1>0, AloneData
<1>. DEFINE found == Pump(data, 0, kMagicSize).produced = kMagicSize
                       /\ data.version.header.magic
<1>2. CASE found
  <2>1. Succeed
    BY <1>2 DEF PumpMagic
  <2>2. Undisturbed => file.header.magic
    BY <1>1, <1>2
  <2>. QED  BY <1>0, <2>1, <2>2, Accepting
<1>3. CASE ~found
  <2>1. Decline
    BY <1>3 DEF PumpMagic
  <2>2. CASE Continue("retry")
    BY <1>0, <2>2, GoingOn DEF Continue
  <2>3. CASE ~(~data.last /\ ~IsWhole(data)) /\ Fail("")
    <3>1. Fail("unreadableFile")
      BY <1>0, <2>3 DEF Fail
    <3>2. ~Wanted(operation, data.version)
      BY <1>0, <1>3, <2>3, RoutableMagicIsPumped
    <3>. QED  BY <1>0, <1>1, <3>1, <3>2, CodesAreSome, Refusing
  <2>. QED  BY <2>1, <2>2, <2>3 DEF Decline
<1>. QED  BY <1>2, <1>3

LEMMA PumpHeaderAgrees == IInv /\ JInv /\ PumpHeader => JInv'
<1>. SUFFICES ASSUME IInv, JInv, PumpHeader PROVE JInv'
  OBVIOUS
<1>0. /\ pc = "header" /\ data # None /\ operation # "CanRead"
      /\ UNCHANGED <<fileVars, operation, data, fault>>
      /\ data.version.offset <= data.length
  BY DEF PumpHeader, IInv, JInv, TypeOK, StreamReached
<1>1. IsVersion(data.version) /\ data.length \in Nat
  BY <1>0, DataFacts DEF IInv
<1>2. PICK status \in Pump(data, 0, kHeaderSize).status :
        \/ Continue("validate")
        \/ /\ Pump(data, 0, kHeaderSize).produced # kHeaderSize
           /\ \/ status = "corrupt" /\ Fail("corruptContainer")
              \/ status = "end" /\ Fail("malformedContainer")
              \/ Continue("load")
              \/ /\ ~(operation = "ReadHeader" /\ ~IsWhole(data))
                 /\ Fail("truncatedContainer")
  BY DEF PumpHeader
<1>3. CASE Continue("validate") \/ Continue("load")
  BY <1>0, <1>3, GoingOn DEF Continue
<1>4. CASE /\ Pump(data, 0, kHeaderSize).produced # kHeaderSize
           /\ \/ status = "corrupt" /\ Fail("corruptContainer")
              \/ status = "end" /\ Fail("malformedContainer")
              \/ /\ ~(operation = "ReadHeader" /\ ~IsWhole(data))
                 /\ Fail("truncatedContainer")
  <2>1. ~(operation = "ReadHeader" /\ ~IsWhole(data)) => IsWhole(data)
    BY <1>0 DEF IInv, TypeOK, Operations, Loaded, IsWhole
  <2>2. ~IsContainer(data.version)
    BY <1>0, <1>1, <1>4, <2>1, ShortHeaderPump
  <2>3. Undisturbed => ~Wanted(operation, file)
    BY <1>0, <2>2, AloneData, NoContainerIsUnwanted
  <2>4. PICK code : Fail(code) /\ code # ""
    BY <1>4, CodesAreSome
  <2>. QED  BY <1>0, <2>3, <2>4, Refusing
<1>. QED  BY <1>2, <1>3, <1>4

(* ---- The checks pass a container --------------------------------------- *)

LEMMA NoneFails ==
  ASSUME NEW codes, \A n \in DOMAIN codes : codes[n] = NoProblem
  PROVE  FirstFailure(codes) = NoProblem
BY DEF FirstFailure

LEMMA ThreeNone ==
  ASSUME NEW a, NEW b, NEW c, a = NoProblem, b = NoProblem, c = NoProblem
  PROVE  FirstFailure(<<a, b, c>>) = NoProblem
<1>. DEFINE codes == <<a, b, c>>
<1>1. DOMAIN codes = {1, 2, 3} /\ codes[1] = a /\ codes[2] = b /\ codes[3] = c
  OBVIOUS
<1>. HIDE DEF codes
<1>2. FirstFailure(codes) = NoProblem
  BY <1>1, NoneFails
<1>. QED  BY <1>2 DEF codes

LEMMA FiveNone ==
  ASSUME NEW a, NEW b, NEW c, NEW d, NEW e, a = NoProblem, b = NoProblem,
         c = NoProblem, d = NoProblem, e = NoProblem
  PROVE  FirstFailure(<<a, b, c, d, e>>) = NoProblem
<1>. DEFINE codes == <<a, b, c, d, e>>
<1>1. /\ DOMAIN codes = {1, 2, 3, 4, 5} /\ codes[1] = a /\ codes[2] = b
      /\ codes[3] = c /\ codes[4] = d /\ codes[5] = e
  OBVIOUS
<1>. HIDE DEF codes
<1>2. FirstFailure(codes) = NoProblem
  BY <1>1, NoneFails
<1>. QED  BY <1>2 DEF codes

LEMMA SixNone ==
  ASSUME NEW a, NEW b, NEW c, NEW d, NEW e, NEW f, a = NoProblem,
         b = NoProblem, c = NoProblem, d = NoProblem, e = NoProblem, f = NoProblem
  PROVE  FirstFailure(<<a, b, c, d, e, f>>) = NoProblem
<1>. DEFINE codes == <<a, b, c, d, e, f>>
<1>1. /\ DOMAIN codes = {1, 2, 3, 4, 5, 6} /\ codes[1] = a /\ codes[2] = b
      /\ codes[3] = c /\ codes[4] = d /\ codes[5] = e /\ codes[6] = f
  OBVIOUS
<1>. HIDE DEF codes
<1>2. FirstFailure(codes) = NoProblem
  BY <1>1, NoneFails
<1>. QED  BY <1>2 DEF codes

LEMMA ValidHeaderPasses ==
  ASSUME NEW v, IsVersion(v), ValidHeaderOf(v)
  PROVE  ValidateHeader(v.header) = NoProblem
<1>. DEFINE h == v.header
<1>1. /\ h.magic /\ h.version \in 1 .. 3
      /\ h.pointCount \in 1 .. Least(kMaxPointCount, kMaxGaussianCount)
      /\ h.shDegree \in 0 .. kSpecMaxShDegree
  BY DEF ValidHeaderOf
<1>2. /\ h.pointCount # 0 /\ ~(h.pointCount > kMaxPointCount)
      /\ ~(h.pointCount > kMaxGaussianCount) /\ ~(h.shDegree > kSpecMaxShDegree)
  BY <1>1, LimitsAssumption DEF Least, kSpecMaxShDegree
<1>3. /\ Check(~h.magic, "notSpzContainer") = NoProblem
      /\ Check(h.version \notin 1 .. 3, "unsupportedVersion") = NoProblem
      /\ Check(h.pointCount = 0, "emptyPointSet") = NoProblem
      /\ Check(h.pointCount > kMaxPointCount, "invalidPointCount") = NoProblem
      /\ Check(h.pointCount > kMaxGaussianCount, "importLimitExceeded") = NoProblem
      /\ Check(h.shDegree > kSpecMaxShDegree, "invalidShDegree") = NoProblem
  BY <1>1, <1>2, Zenon DEF Check
<1>. QED  BY <1>3, SixNone DEF ValidateHeader

(* What a container declares, its compressed bytes can expand to.          *)
LEMMA ContainerIsPlausible ==
  ASSUME NEW v, IsVersion(v), IsContainer(v)
  PROVE  /\ ~(v.size - v.offset - kTrailerSize < 0)
         /\ Plausible(v.header, v.size - v.offset - kTrailerSize)
<1>. DEFINE c == CompressedSize(v)
            p == ExpectedPayloadBytes(v.header)
<1>1. /\ c \in Nat /\ v.total <= v.ratio * c /\ p \in Nat
      /\ kHeaderSize + p <= v.total /\ v.size = v.offset + c + kTrailerSize
  BY ContainerFacts
<1>2. /\ v.total \in Nat /\ v.offset \in Nat /\ v.ratio \in Nat
      /\ v.ratio <= kMaxDeflateExpansion /\ kMaxDeflateExpansion \in Nat
  BY LimitsAssumption, VersionFacts DEF IsVersion
<1>. HIDE DEF c, p
<1>3. v.size - v.offset - kTrailerSize = c
  BY <1>1, <1>2 DEF kTrailerSize
<1>4. v.ratio * c <= c * kMaxDeflateExpansion
  BY <1>1, <1>2, ProductGrows
<1>5. v.ratio * c \in Nat /\ c * kMaxDeflateExpansion \in Nat
  BY <1>1, <1>2, ProductIsNat
<1>6. kHeaderSize + p <= c * kMaxDeflateExpansion
  BY <1>1, <1>2, <1>4, <1>5 DEF kHeaderSize
<1>. QED  BY <1>1, <1>3, <1>6 DEF Plausible, p

LEMMA ValidateHeaderBytesAgrees == IInv /\ JInv /\ ValidateHeaderBytes => JInv'
<1>. SUFFICES ASSUME IInv, JInv, ValidateHeaderBytes PROVE JInv'
  OBVIOUS
<1>. DEFINE v == data.version
            fileSize == IF operation = "Read" THEN data.length ELSE v.size
            compressed == fileSize - v.offset - kTrailerSize
            c1 == ValidateHeader(v.header)
            c2 == Check(compressed < 0, "truncatedContainer")
            c3 == Check(~Plausible(v.header, compressed), "truncatedContainer")
            problem == FirstFailure(<<c1, c2, c3>>)
<1>0. /\ pc = "validate" /\ data # None /\ operation # "CanRead"
      /\ UNCHANGED <<fileVars, operation, data, fault>>
      /\ header' = v.header
  BY DEF ValidateHeaderBytes, IInv, TypeOK
<1>1. IsVersion(v) /\ fileSize = v.size
  BY <1>0, DataFacts DEF IInv, Loaded
<1>2. Undisturbed => v = file
  BY <1>0, AloneData
<1>3. IsContainer(v) => problem = NoProblem
  <2>. SUFFICES ASSUME IsContainer(v) PROVE problem = NoProblem
    OBVIOUS
  <2>1. c1 = NoProblem
    BY <1>1, ValidHeaderPasses DEF IsContainer
  <2>2. ~(compressed < 0) /\ Plausible(v.header, compressed)
    <3>1. compressed = v.size - v.offset - kTrailerSize
      BY <1>1
    <3>. HIDE DEF compressed, v
    <3>. QED  BY <1>1, <3>1, ContainerIsPlausible
  <2>3. c2 = NoProblem /\ c3 = NoProblem
    BY <2>2, Zenon DEF Check
  <2>. HIDE DEF c1, c2, c3
  <2>. QED  BY <2>1, <2>3, ThreeNone
<1>4. problem = NoProblem => ValidHeaderOf(v)
  <2>. SUFFICES ASSUME problem = NoProblem PROVE ValidHeaderOf(v)
    OBVIOUS
  <2>1. c1 = NoProblem
    <3>. HIDE DEF c1, c2, c3
    <3>. QED  BY ThreePass
  <2>. QED  BY <1>1, <2>1, ValidateHeaderIsValid
<1>5. \/ problem # NoProblem /\ Fail(problem)
      \/ operation = "Read" /\ Continue("allocate")
      \/ problem = NoProblem /\ operation = "ReadHeader" /\ Succeed
  BY <1>0 DEF ValidateHeaderBytes, IInv, TypeOK, Operations
<1>. HIDE DEF problem, v
<1>6. CASE problem # NoProblem /\ Fail(problem)
  <2>1. problem # ""
    BY <1>6 DEF NoProblem
  <2>2. Undisturbed => ~Wanted(operation, file)
    BY <1>2, <1>3, <1>6, NoContainerIsUnwanted
  <2>. QED  BY <1>0, <1>6, <2>1, <2>2, Refusing
<1>7. CASE operation = "Read" /\ Continue("allocate")
  BY <1>0, <1>7, GoingOn DEF Continue
<1>8. CASE problem = NoProblem /\ operation = "ReadHeader" /\ Succeed
  <2>1. Undisturbed => header' = file.header /\ ValidHeaderOf(file)
    BY <1>0, <1>2, <1>4, <1>8
  <2>. QED  BY <1>0, <1>8, <2>1, Accepting
<1>. QED  BY <1>5, <1>6, <1>7, <1>8

LEMMA AllocatePayloadAgrees == IInv /\ JInv /\ AllocatePayload => JInv'
<1>. SUFFICES ASSUME IInv, JInv, AllocatePayload PROVE JInv'
  OBVIOUS
<1>0. pc = "allocate" /\ UNCHANGED <<operation, data>>
  BY DEF AllocatePayload
<1>1. \/ Continue("payload")
      \/ pc' = "return" /\ result' = "false" /\ fault' = TRUE
  BY DEF AllocatePayload, Fail
<1>. QED  BY <1>0, <1>1, GoingOn, Faulting DEF Continue

(* ---- Behind the header ------------------------------------------------- *)

(* What Read knows of the container it is in the middle of.                *)
LEMMA ReadingContainer ==
  ASSUME IInv, pc \in {"payload", "drain"}, IsContainer(data.version)
  PROVE  /\ operation = "Read" /\ data # None /\ IsVersion(data.version)
         /\ IsWhole(data) /\ data.length \in Nat /\ position \in Nat
         /\ position <= data.version.total /\ data.version.total \in Nat
         /\ data.version.offset \in Nat /\ data.version.offset <= data.length
         /\ header = data.version.header
<1>1. operation = "Read" /\ data # None /\ position \in Nat
  BY DEF IInv, TypeOK
<1>2. IsVersion(data.version) /\ data.length \in Nat
  BY <1>1, DataFacts DEF IInv
<1>3. IsWhole(data)
  BY <1>1 DEF IInv, Loaded, IsWhole
<1>4. data.version.offset \in Nat /\ data.version.total \in Nat
  BY <1>2, VersionFacts
<1>5. data.version.offset <= data.length
  BY <1>2, <1>3, <1>4, WholeIsReachable DEF kTrailerSize
<1>6. position <= data.version.total
  BY <1>1, <1>2, <1>3, WholeIsReachable DEF IInv, InflatorTracks, Inflated
<1>7. header = data.version.header
  BY DEF IInv, HeaderChecked, Headed
<1>. QED  BY <1>1, <1>2, <1>3, <1>4, <1>5, <1>6, <1>7

LEMMA PumpPayloadAgrees == IInv /\ JInv /\ PumpPayload => JInv'
<1>. SUFFICES ASSUME IInv, JInv, PumpPayload PROVE JInv'
  OBVIOUS
<1>. DEFINE expected == ExpectedPayloadBytes(header)
<1>0. /\ pc = "payload" /\ data # None
      /\ UNCHANGED <<fileVars, operation, data, fault>>
  BY DEF PumpPayload, IInv, TypeOK
<1>1. \/ Continue("drain")
      \/ /\ Pump(data, position, expected).produced # expected
         /\ \E code \in {"corruptContainer", "truncatedContainer"} : Fail(code)
  BY DEF PumpPayload
<1>2. CASE Continue("drain")
  BY <1>0, <1>2, GoingOn DEF Continue
<1>3. CASE /\ Pump(data, position, expected).produced # expected
           /\ \E code \in {"corruptContainer", "truncatedContainer"} : Fail(code)
  <2>1. ~IsContainer(data.version)
    <3>. SUFFICES ASSUME IsContainer(data.version) PROVE FALSE
      OBVIOUS
    <3>1. /\ IsVersion(data.version) /\ IsWhole(data) /\ data.length \in Nat
          /\ data.version.offset <= data.length
          /\ header = data.version.header
      BY <1>0, ReadingContainer
    <3>2. position = kHeaderSize
      BY <1>0 DEF IInv, InflatorTracks
    <3>3. /\ expected \in Nat /\ kHeaderSize + expected <= data.version.total
          /\ Reachable(data) = data.version.total
      BY <3>1, ContainerFacts, WholeIsReachable
    <3>4. data.version.corruptAt >= data.version.total
      BY DEF IsContainer
    <3>. HIDE DEF expected
    <3>5. position \in Nat /\ position + expected <= Reachable(data)
      BY <3>2, <3>3 DEF kHeaderSize
    <3>. QED  BY <1>3, <3>1, <3>3, <3>4, <3>5, PumpFills
  <2>2. Undisturbed => ~Wanted(operation, file)
    BY <1>0, <2>1, AloneData, NoContainerIsUnwanted
  <2>3. PICK code : Fail(code) /\ code # ""
    BY <1>3, CodesAreSome
  <2>. QED  BY <1>0, <2>2, <2>3, Refusing
<1>. QED  BY <1>1, <1>2, <1>3

(* Behind the payload of a container come its extension records, or        *)
(* nothing; the bytes still to come fit what is left of the limit.         *)
LEMMA ContainerSurplus ==
  ASSUME IInv, pc = "drain", IsContainer(data.version)
  PROVE  /\ header.extensions =>
              data.version.total - position <= MaxExtensionBytes - extensions
         /\ finished => undeclared = 0
<1>. DEFINE v == data.version
            p == ExpectedPayloadBytes(header)
<1>1. /\ IsVersion(v) /\ position \in Nat /\ v.total \in Nat /\ header = v.header
      /\ operation = "Read"
  BY ReadingContainer
<1>2. /\ position = kHeaderSize + p + extensions + undeclared
      /\ header.extensions => undeclared = 0
      /\ ~header.extensions => extensions = 0
  BY DEF IInv, BytesAccounted
<1>3. extensions \in Nat /\ undeclared \in Nat /\ p \in Nat
  BY HeaderIsTyped DEF IInv, TypeOK, Headed
<1>4. /\ Surplus(v) \in 0 .. IF header.extensions THEN MaxExtensionBytes ELSE 0
      /\ Surplus(v) = v.total - kHeaderSize - p
  BY <1>1 DEF IsContainer, Surplus
<1>5. finished => position = v.total
  BY <1>1 DEF IInv, InflatorTracks, Inflated
<1>. HIDE DEF v, p
<1>6. ASSUME header.extensions
      PROVE  v.total - position <= MaxExtensionBytes - extensions
  <2>1. v.total - kHeaderSize - p <= MaxExtensionBytes
    BY <1>1, <1>3, <1>4, <1>6, LimitsAssumption DEF kHeaderSize
  <2>. QED  BY <1>1, <1>2, <1>3, <1>6, <2>1, LimitsAssumption DEF kHeaderSize
<1>7. ASSUME finished PROVE undeclared = 0
  <2>1. CASE header.extensions
    BY <1>2, <2>1
  <2>2. CASE ~header.extensions
    <3>1. v.total - kHeaderSize - p = 0
      BY <1>4, <2>2
    <3>. QED  BY <1>1, <1>2, <1>3, <1>5, <1>7, <3>1 DEF kHeaderSize
  <2>. QED  BY <2>1, <2>2
<1>. QED  BY <1>6, <1>7 DEF v

LEMMA DrainStreamAgrees == IInv /\ JInv /\ DrainStream => JInv'
<1>. SUFFICES ASSUME IInv, JInv, DrainStream PROVE JInv'
  OBVIOUS
<1>. DEFINE piece == Pump(data, position, ScratchBytes).produced
            c1(s) == Check(s = "corrupt", "corruptContainer")
            c2 == Check(header.extensions
                          /\ piece > MaxExtensionBytes - extensions,
                        "importLimitExceeded")
            c3(s) == Check(s = "progress" /\ piece = 0, "truncatedContainer")
            problem(s) == FirstFailure(<<c1(s), c2, c3(s)>>)
<1>0. /\ pc = "drain" /\ data # None
      /\ UNCHANGED <<fileVars, operation, data, fault>>
  BY DEF DrainStream, IInv, TypeOK
<1>1. PICK status \in Pump(data, position, ScratchBytes).status :
        \/ problem(status) # NoProblem /\ Fail(problem(status))
        \/ Continue("drain")
  BY DEF DrainStream
<1>2. CASE Continue("drain")
  BY <1>0, <1>2, GoingOn DEF Continue
<1>3. CASE problem(status) # NoProblem /\ Fail(problem(status))
  <2>1. IsContainer(data.version) => problem(status) = NoProblem
    <3>. SUFFICES ASSUME IsContainer(data.version)
                  PROVE  problem(status) = NoProblem
      OBVIOUS
    <3>1. /\ IsVersion(data.version) /\ IsWhole(data) /\ position \in Nat
          /\ position <= data.version.total /\ data.version.total \in Nat
      BY <1>0, ReadingContainer
    <3>2. /\ status # "corrupt"
          /\ ~(status = "progress" /\ piece = 0)
          /\ piece \in Nat /\ position + piece <= data.version.total
      BY <3>1, LimitsAssumption, PumpGoesOn
    <3>3. extensions \in Nat
      BY DEF IInv, TypeOK
    <3>. HIDE DEF piece
    <3>4. ~(header.extensions /\ piece > MaxExtensionBytes - extensions)
      BY <1>0, <3>1, <3>2, <3>3, ContainerSurplus, LimitsAssumption
    <3>5. c1(status) = NoProblem /\ c2 = NoProblem /\ c3(status) = NoProblem
      BY <3>2, <3>4, Zenon DEF Check
    <3>. DEFINE a == c1(status)
                b == c3(status)
    <3>6. a = NoProblem /\ c2 = NoProblem /\ b = NoProblem
      BY <3>5
    <3>. HIDE DEF a, b, c2
    <3>7. FirstFailure(<<a, c2, b>>) = NoProblem
      BY <3>6, ThreeNone
    <3>. QED  BY <3>7 DEF a, b
  <2>2. Undisturbed => ~Wanted(operation, file)
    BY <1>0, <1>3, <2>1, AloneData, NoContainerIsUnwanted
  <2>. DEFINE code == problem(status)
  <2>3. Fail(code) /\ code # ""
    BY <1>3 DEF NoProblem
  <2>. HIDE DEF code
  <2>. QED  BY <1>0, <2>2, <2>3, Refusing
<1>. QED  BY <1>1, <1>2, <1>3

LEMMA CheckTrailerAgrees == IInv /\ JInv /\ CheckTrailer => JInv'
<1>. SUFFICES ASSUME IInv, JInv, CheckTrailer PROVE JInv'
  OBVIOUS
<1>0. /\ pc = "drain" /\ finished /\ data # None
      /\ UNCHANGED <<fileVars, operation, data, fault>>
  BY DEF CheckTrailer, IInv, TypeOK
<1>1. \/ TrailerProblem(data) # NoProblem /\ Fail(TrailerProblem(data))
      \/ Continue("slice")
  BY DEF CheckTrailer
<1>2. CASE Continue("slice")
  BY <1>0, <1>2, GoingOn DEF Continue
<1>3. CASE TrailerProblem(data) # NoProblem /\ Fail(TrailerProblem(data))
  <2>1. IsContainer(data.version) => TrailerProblem(data) = NoProblem
    <3>. SUFFICES ASSUME IsContainer(data.version)
                  PROVE  TrailerProblem(data) = NoProblem
      OBVIOUS
    <3>. DEFINE trailer == data.version.offset + CompressedSize(data.version)
    <3>1. IsVersion(data.version) /\ IsWhole(data) /\ data.length \in Nat
      BY <1>0, ReadingContainer
    <3>2. /\ data.version.crcMatches /\ data.version.lengthMatches
          /\ data.version.size = trailer + kTrailerSize
      BY <3>1 DEF IsContainer
    <3>3. trailer \in Nat
      BY <3>1, ContainerFacts, VersionFacts
    <3>4. data.length = trailer + kTrailerSize
      BY <3>1, <3>2 DEF IsWhole
    <3>5. undeclared = 0
      BY <1>0, ContainerSurplus
    <3>6. /\ ~(data.length < trailer + kTrailerSize)
          /\ ~(data.length > trailer + kTrailerSize)
      <4>. HIDE DEF trailer
      <4>. QED  BY <3>3, <3>4 DEF kTrailerSize
    <3>7. /\ Check(undeclared # 0, "trailingData") = NoProblem
          /\ Check(data.length < trailer + kTrailerSize, "truncatedContainer") = NoProblem
          /\ Check(~data.version.crcMatches, "corruptContainer") = NoProblem
          /\ Check(~data.version.lengthMatches, "corruptContainer") = NoProblem
          /\ Check(data.length > trailer + kTrailerSize, "trailingData") = NoProblem
      BY <3>2, <3>5, <3>6, Zenon DEF Check
    <3>. QED  BY <3>7, FiveNone DEF TrailerProblem
  <2>2. Undisturbed => ~Wanted(operation, file)
    BY <1>0, <1>3, <2>1, AloneData, NoContainerIsUnwanted
  <2>. DEFINE code == TrailerProblem(data)
  <2>3. Fail(code) /\ code # ""
    BY <1>3 DEF NoProblem
  <2>. HIDE DEF code
  <2>. QED  BY <1>0, <2>2, <2>3, Refusing
<1>. QED  BY <1>1, <1>2, <1>3

LEMMA SliceStreamsAgrees == IInv /\ JInv /\ SliceStreams => JInv'
<1>. SUFFICES ASSUME IInv, JInv, SliceStreams PROVE JInv'
  OBVIOUS
<1>1. /\ pc = "slice" /\ Succeed /\ operation = "Read"
      /\ UNCHANGED <<fileVars, operation, data, fault>>
  BY DEF SliceStreams, IInv, TypeOK
<1>. QED  BY <1>1, Accepting

LEMMA ReturnAgrees == IInv /\ JInv /\ Return => JInv'
<1>. SUFFICES ASSUME IInv, JInv, Return PROVE JInv'
  OBVIOUS
<1>1. /\ pc' = "idle" /\ result' = "none" /\ error' = "" /\ data' = None
  BY DEF Return
<1>. QED  BY <1>1 DEF JInv, QuietUntilRefused, PrefixLoaded, StreamReached,
              RefusalJustified, AcceptanceJustified

LEMMA CallAgrees == IInv /\ JInv /\ Call => JInv'
<1>. SUFFICES ASSUME IInv, JInv, Call PROVE JInv'
  OBVIOUS
<1>1. /\ pc = "idle" /\ pc' \in {"probe", "prefix"}
      /\ UNCHANGED <<result, error, data>>
  BY DEF Call
<1>2. data' = None
  BY <1>1 DEF IInv, Idle
<1>3. QuietUntilRefused'
  BY <1>1 DEF JInv, QuietUntilRefused
<1>4. PrefixLoaded' /\ StreamReached' /\ RefusalJustified' /\ AcceptanceJustified'
  BY <1>1, <1>2 DEF PrefixLoaded, StreamReached, RefusalJustified,
                    AcceptanceJustified
<1>. QED  BY <1>3, <1>4 DEF JInv

(* A file that is replaced during a call is no longer left alone; one that *)
(* is replaced by itself is.                                               *)
LEMMA EditFileAgrees == IInv /\ JInv /\ EditFile => JInv'
<1>. SUFFICES ASSUME IInv, JInv, EditFile PROVE JInv'
  OBVIOUS
<1>0. UNCHANGED <<operation, pc, result, error, data, header, fault>>
  BY DEF EditFile, document
<1>1. pc # "idle" => seen' = seen \cup {file'}
  BY DEF EditFile
<1>2. pc = "return" /\ Undisturbed' => Undisturbed /\ file' = file
  BY <1>0, <1>1 DEF Undisturbed, IInv, TypeOK
<1>3. QuietUntilRefused' /\ PrefixLoaded' /\ StreamReached'
  BY <1>0 DEF JInv, QuietUntilRefused, PrefixLoaded, StreamReached, IsWhole
<1>4. ASSUME pc = "return", Undisturbed'
      PROVE  /\ Wanted(operation, file)' = Wanted(operation, file)
             /\ ValidHeaderOf(file)' = ValidHeaderOf(file)
  BY <1>0, <1>2, <1>4
     DEF Wanted, IsContainer, Routable, CompressedSize, ValidHeaderOf,
         Surplus, ExpectedPayloadBytes, BytesPerPosition, BytesPerRotation,
         ShDimensions
<1>5. RefusalJustified'
  BY <1>0, <1>2, <1>4 DEF JInv, RefusalJustified
<1>6. AcceptanceJustified'
  BY <1>0, <1>2, <1>4 DEF JInv, AcceptanceJustified
<1>. QED  BY <1>3, <1>5, <1>6 DEF JInv

LEMMA AgreementStutters == IInv /\ JInv /\ UNCHANGED vars => JInv'
<1>. SUFFICES ASSUME IInv, JInv, UNCHANGED vars PROVE JInv'
  OBVIOUS
<1>0. UNCHANGED <<file, seen, operation, pc, result, error, data, header, fault>>
  BY DEF vars, fileVars, document
<1>1. QuietUntilRefused' /\ PrefixLoaded' /\ StreamReached'
  BY <1>0 DEF JInv, QuietUntilRefused, PrefixLoaded, StreamReached, IsWhole
<1>2. RefusalJustified'
  BY <1>0 DEF JInv, RefusalJustified, Undisturbed, Wanted, IsContainer, Routable,
         CompressedSize, ValidHeaderOf, Surplus, ExpectedPayloadBytes,
         BytesPerPosition, BytesPerRotation, ShDimensions
<1>3. AcceptanceJustified'
  BY <1>0 DEF JInv, AcceptanceJustified, Undisturbed, ValidHeaderOf
<1>. QED  BY <1>1, <1>2, <1>3 DEF JInv

LEMMA NextAgrees == IInv /\ JInv /\ [Next]_vars => JInv'
<1>. SUFFICES ASSUME IInv, JInv, [Next]_vars PROVE JInv'
  OBVIOUS
<1>1. CASE EditFile
  BY <1>1, EditFileAgrees
<1>2. CASE Call
  BY <1>2, CallAgrees
<1>3. CASE Step
  BY <1>3, ProbeSizeAgrees, LoadFileAgrees, FaultsAgree, CheckSignatureAgrees,
     CheckFramingAgrees, InflatorFailsAgrees, PumpMagicAgrees, PumpHeaderAgrees,
     ValidateHeaderBytesAgrees, AllocatePayloadAgrees, PumpPayloadAgrees,
     DrainStreamAgrees, CheckTrailerAgrees, SliceStreamsAgrees, ReturnAgrees
     DEF Step
<1>4. CASE UNCHANGED vars
  BY <1>4, AgreementStutters
<1>. QED  BY <1>1, <1>2, <1>3, <1>4 DEF Next

(* Whether a call of any of the three methods accepts or refuses, it says  *)
(* so of the file it was given (SpzReader.cpp:537-841).                    *)
THEOREM Agreement == Spec => []JInv
<1>1. Init => JInv
  BY DEF Init, JInv, QuietUntilRefused, PrefixLoaded, StreamReached,
         RefusalJustified, AcceptanceJustified
<1>. QED  BY <1>1, NextAgrees, Invariance, PTL DEF Spec

(* Left alone, Read accepts a file exactly when it is a container, and     *)
(* every refusal says why (SpzReader.cpp:628-841).                         *)
THEOREM ReadsAcceptContainers == Spec => []ReadAcceptsContainers
<1>1. IInv /\ JInv => ReadAcceptsContainers
  <2>. SUFFICES ASSUME IInv, JInv, Returned("Read"), Undisturbed
                PROVE  /\ result = "true" <=> IsContainer(file)
                       /\ result = "false" <=> error # ""
    BY DEF ReadAcceptsContainers
  <2>0. pc = "return" /\ operation = "Read" /\ seen = {file}
    BY DEF Returned, Undisturbed
  <2>1. result \in {"true", "false"}
    BY <2>0 DEF IInv, TypeOK, JInv, RefusalJustified
  <2>2. result = "true" => IsContainer(file)
    BY <2>0 DEF IInv, DocumentIsOneContainer, Returned
  <2>3. result = "false" => ~IsContainer(file) /\ error # ""
    BY <2>0 DEF JInv, RefusalJustified, Wanted
  <2>4. result # "false" => error = ""
    BY DEF JInv, QuietUntilRefused
  <2>. QED  BY <2>1, <2>2, <2>3, <2>4
<1>. QED  BY <1>1, Invariance, Agreement, PTL

(* The metadata-only path accepts every container, and hands out only the  *)
(* valid header of the file it was given (SpzReader.cpp:576-626).          *)
THEOREM HeaderReadsAgree == Spec => []HeaderReadAgrees
<1>1. IInv /\ JInv => HeaderReadAgrees
  <2>. SUFFICES ASSUME IInv, JInv, Returned("ReadHeader"), Undisturbed
                PROVE  /\ IsContainer(file) => result = "true"
                       /\ result = "true" => header = file.header /\ ValidHeaderOf(file)
    BY DEF HeaderReadAgrees
  <2>1. pc = "return" /\ operation = "ReadHeader"
    BY DEF Returned
  <2>2. result \in {"true", "false"}
    BY <2>1 DEF IInv, TypeOK, JInv, RefusalJustified
  <2>. QED  BY <2>1, <2>2 DEF JInv, RefusalJustified, AcceptanceJustified, Wanted
<1>. QED  BY <1>1, Invariance, Agreement, PTL

(* Routing claims every container whose magic lies within its bound, and   *)
(* no file that Read would say is not SPZ (SpzReader.cpp:537-574).         *)
THEOREM RoutingIsSound == Spec => []RoutingAgrees
<1>1. IInv /\ JInv => RoutingAgrees
  <2>. SUFFICES ASSUME IInv, JInv, Returned("CanRead"), Undisturbed
                PROVE  /\ IsContainer(file) /\ Routable(file) => result = "true"
                       /\ result = "true" => \/ file.signature = "ngsp"
                                             \/ file.header.magic
    BY DEF RoutingAgrees, Routable
  <2>1. pc = "return" /\ operation = "CanRead"
    BY DEF Returned
  <2>2. result \in {"true", "false"}
    BY <2>1 DEF IInv, TypeOK, JInv, RefusalJustified
  <2>. QED  BY <2>1, <2>2 DEF JInv, RefusalJustified, AcceptanceJustified, Wanted
<1>. QED  BY <1>1, Invariance, Agreement, PTL
=============================================================================
