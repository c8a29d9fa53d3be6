------------------------------ MODULE SogReader ------------------------------
(***************************************************************************)
(* SogReader of the gaussian-sog plugin: CanReadBundled, CanReadUnbundled, *)
(* ReadMetadata and Read over the two layouts of a SOG container: one ZIP  *)
(* archive, or a meta.json with its planes in files beside it.  A call     *)
(* opens the primary file twice and every companion twice; all of them may *)
(* be replaced in between.                                                 *)
(*                                                                         *)
(* Data abstraction: a version of a file is its number in Files, a list of *)
(* records of what the bytes are taken for.                                *)
(* zip: it starts with the ZIP signature; archive: the entries its central *)
(* directory lists, each with the file it expands to, or Nothing; json:    *)
(* the value it parses to, or Nothing; brace: white space apart, it starts *)
(* with a brace; image: the WebP image it holds, or Nothing.               *)
(***************************************************************************)
EXTENDS SogMeta, FiniteSets, FiniteSetsExt, Functions

CONSTANTS
  Files,                \* what a file may be
  Worlds,               \* the primary file, the files beside it by name, and
                        \* how many of them are replaced while calls run
  EditPrimaries,        \* what the primary file may become while it is read
  EditCompanions,       \* pairs of a name and what that file may become
  Loaders,              \* "file", or an injected one: "loader", "overreads"
  kMaxMetadataBytes,    \* bytes of a meta.json
  kCanReadPrefixLimit,  \* bytes a routing decision reads
  kMaxZipArchiveBytes,  \* bytes of an archive
  kMaxZipEntryCount,    \* entries of an archive
  kMaxZipExpandedBytes, \* bytes all entries of an archive expand to
  kMaxPlaneBytes,       \* bytes of a plane, compressed or decoded
  kMaxPlaneDimension,   \* texels of a plane in either direction
  kShCentroidsPerRow    \* centroids in a row of the palette

ASSUME LimitsAssumption ==
  /\ kMaxMetadataBytes \in Nat /\ kCanReadPrefixLimit \in Nat
  /\ kMaxZipArchiveBytes \in Nat /\ kMaxZipEntryCount \in Nat
  /\ kMaxZipExpandedBytes \in Nat /\ kMaxPlaneBytes \in Nat
  /\ kMaxPlaneDimension \in Nat /\ kShCentroidsPerRow \in Nat

kZipSignatureSize == 4

(* What the abstraction of a file says of it.  An archive and a document   *)
(* differ in their first byte; a document that is an object has the brace. *)
Image == [lossless : BOOLEAN, width : Nat, height : Nat, intact : BOOLEAN]
IsContent(content) ==
  /\ content.size \in Nat
  /\ content.image \in Seq(Image) /\ Len(content.image) <= 1
  /\ content.json # Nothing => IsTree(content.json[1])
IsFile(content) ==
  /\ IsContent(content)
  /\ content.zip \in BOOLEAN /\ content.brace \in BOOLEAN
  /\ ~(content.zip /\ content.brace)
  /\ content.zip => content.size >= kZipSignatureSize
  /\ content.json # Nothing /\ content.json[1].type = "object" => content.brace
  /\ content.archive # <<>> =>
       /\ content.zip
       /\ LET entries == content.archive[1] IN
          /\ Len(entries) \in Nat /\ DOMAIN entries = 1 .. Len(entries)
          /\ \A n \in DOMAIN entries :
               entries[n].directory \in BOOLEAN /\ IsContent(entries[n].file)

ASSUME FilesAssumption == \A n \in DOMAIN Files : IsFile(Files[n])

ASSUME WorldsAssumption ==
  /\ \A w \in Worlds :
       /\ w.edits \in Nat /\ w.file \in DOMAIN Files
       /\ w.beside \in [DOMAIN w.beside -> DOMAIN Files]
  /\ EditPrimaries \subseteq DOMAIN Files
  /\ \A edit \in EditCompanions :
       edit = <<edit[1], edit[2]>> /\ edit[2] \in DOMAIN Files

kMetaEntryName == <<109, 101, 116, 97, 46, 106, 115, 111, 110>>

VARIABLES
  file, beside,       \* the primary file; the files beside it, by name
  seen, seenBeside,   \* what they have been since the call began
  edits,              \* replacements to come
  loader,             \* how the primary file is read
  operation,          \* the method called
  pc, result,         \* where the call is; what it returns
  error,              \* its diagnostic
  bundled,            \* the layout the probe found
  data,               \* the bytes loaded: [version, length]
  meta,               \* the metadata, once it is parsed
  bytes,              \* the bytes of a plane: [image, length]
  planes,             \* the planes decoded so far
  sourceBytes,        \* bytes read for the document
  fault               \* an allocation or a read was refused

world == <<file, beside, seen, seenBeside, edits, loader>>
document == <<meta, planes, sourceBytes>>
vars == <<world, operation, pc, result, error, bundled, data, bytes, document,
          fault>>

Least(a, b) == IF a <= b THEN a ELSE b

Primary == Files[file]

(* ---- The archive ------------------------------------------------------- *)

\* Slip: the archive is read from the path again for every entry.
Archive_Reopened ==
  IF Primary.archive = Nothing THEN Files[data.version].archive[1] ELSE Primary.archive[1]
Archive == Files[data.version].archive[1]

Size(entry) == IF entry.directory THEN 0 ELSE entry.file.size
Total(sizes, last) ==
  LET total[n \in 0 .. last] == IF n = 0 THEN 0 ELSE total[n - 1] + sizes[n]
  IN  total[last]
Expanded(entries, last) == Total([n \in DOMAIN entries |-> Size(entries[n])], last)

EntryProblem(entries, n) ==
  LET entry == entries[n] IN
  IF entry.directory THEN NoProblem
  ELSE FirstFailure(<<
    Check(~entry.readable, "malformedArchive"),
    Check(Size(entry) > kMaxPlaneBytes, "importLimitExceeded"),
    Check(Size(entry) > kMaxZipExpandedBytes - Expanded(entries, n - 1),
          "importLimitExceeded"),
    Check(\E m \in 1 .. n - 1 :
            ~entries[m].directory /\ entries[m].name = entry.name,
          "malformedArchive")>>)

(* ZipArchive::Init, over the whole central directory.                     *)
ArchiveProblem(content) ==
  IF content.archive = Nothing THEN "malformedArchive"
  ELSE LET entries == content.archive[1] IN
       IF Len(entries) > kMaxZipEntryCount THEN "importLimitExceeded"
       ELSE FirstFailure([n \in DOMAIN entries |-> EntryProblem(entries, n)])

Indices(entries, name) ==
  {n \in DOMAIN entries : ~entries[n].directory /\ entries[n].name = name}
Has(name) == Indices(Archive, name) # {}
Entry(entries, name) == entries[Min(Indices(entries, name))]

ExtractProblem(name, missingCode) ==
  IF ~Has(name) THEN missingCode
  ELSE LET entry == Entry(Archive, name) IN FirstFailure(<<
    Check(Size(entry) > kMaxPlaneBytes, "importLimitExceeded"),
    Check(Size(entry) > 0 /\ ~entry.intact, "malformedArchive")>>)

(* ---- The planes -------------------------------------------------------- *)

(* DecodePlane: the header of the image bounds what is allocated for it.   *)
PlaneProblem ==
  IF bytes.image = Nothing THEN "malformedPlane"
  ELSE LET image == bytes.image[1] IN FirstFailure(<<
    Check(~image.lossless, "malformedPlane"),
    Check(image.width = 0 \/ image.height = 0, "malformedPlane"),
    Check(image.width > kMaxPlaneDimension \/ image.height > kMaxPlaneDimension,
          "importLimitExceeded"),
    Check(4 * image.width * image.height > kMaxPlaneBytes, "importLimitExceeded"),
    Check(~image.intact, "malformedPlane")>>)

(* A document; one beyond the bound is not parsed.                         *)
MetaProblem(content) ==
  IF content.size > kMaxMetadataBytes THEN "importLimitExceeded"
  ELSE IF content.json = Nothing THEN "malformedMetadata"
  ELSE ParseMetaJson(content.json[1])

(* The document of every file: the whole of it, or an entry of its archive. *)
HoldsDocument(v) ==
  v.archive = Nothing \/ Indices(v.archive[1], kMetaEntryName) # {}
MetaFile(v) ==
  IF v.archive = Nothing THEN v ELSE Entry(v.archive[1], kMetaEntryName).file

(* A file is parsed to the same result whenever it is read.                *)
DocumentProblem ==
  [v \in {x \in DOMAIN Files : HoldsDocument(Files[x])} |->
     MetaProblem(MetaFile(Files[v]))]
DocumentOf ==
  [v \in {x \in DOMAIN DocumentProblem : DocumentProblem[x] = NoProblem} |->
     MetaDocument(MetaFile(Files[v]).json[1])]

PerGaussianProblem(image) ==
  Check(meta.gaussianCount > image.width * image.height, "invalidGaussianCount")

Coefficients(bands) == bands * (bands + 2)

\* Slip: the palette is not compared with the rows of its image.
PaletteProblem_WidthOnly(centroids, labels) ==
  FirstFailure(<<
    PerGaussianProblem(labels),
    Check(centroids.width # kShCentroidsPerRow * Coefficients(meta.shBands),
          "malformedPlane")>>)
(* One row of the image holds kShCentroidsPerRow centroids, exactly.       *)
PaletteProblem(centroids, labels) ==
  FirstFailure(<<
    PerGaussianProblem(labels),
    Check(centroids.width # kShCentroidsPerRow * Coefficients(meta.shBands),
          "malformedPlane"),
    Check(meta.paletteCount > kShCentroidsPerRow * centroids.height,
          "malformedPlane")>>)

(* ---- The calls --------------------------------------------------------- *)

Operations == {"CanReadBundled", "CanReadUnbundled", "ReadMetadata", "Read"}
IsGate == operation \in {"CanReadBundled", "CanReadUnbundled"}

Beside == {<<name, beside[name]>> : name \in DOMAIN beside}

Init ==
  /\ \E w \in Worlds : file = w.file /\ beside = w.beside /\ edits = w.edits
  /\ seen = {file} /\ seenBeside = Beside
  /\ loader \in Loaders /\ operation = "Read"
  /\ pc = "idle" /\ result = "none" /\ error = ""
  /\ bundled = FALSE /\ data = Nothing /\ meta = Nothing /\ bytes = Nothing
  /\ planes = <<>> /\ sourceBytes = 0 /\ fault = FALSE

Quiet == UNCHANGED <<operation, pc, result, error, bundled, data, bytes,
                     document, fault>>

EditFile ==
  /\ pc # "idle" /\ edits > 0 /\ edits' = edits - 1
  /\ file' \in EditPrimaries \ {file} /\ seen' = seen \cup {file'}
  /\ UNCHANGED <<beside, seenBeside, loader>> /\ Quiet

EditCompanion ==
  /\ pc # "idle" /\ edits > 0 /\ edits' = edits - 1
  /\ \E edit \in EditCompanions :
       /\ edit[1] \in DOMAIN beside /\ beside[edit[1]] # edit[2]
       /\ beside' = [beside EXCEPT ![edit[1]] = edit[2]]
       /\ seenBeside' = seenBeside \cup {edit}
  /\ UNCHANGED <<file, seen, loader>> /\ Quiet

Call ==
  /\ pc = "idle"
  /\ operation' \in Operations
  /\ pc' = IF operation' \in {"ReadMetadata", "Read"} THEN "probe" ELSE "prefix"
  /\ UNCHANGED <<world, result, error, bundled, data, bytes, document, fault>>

Continue(next) == pc' = next /\ UNCHANGED <<result, error>>
Fail(code) ==
  /\ pc' = "return" /\ result' = "false"
  /\ error' = IF IsGate THEN "" ELSE code
Succeed == pc' = "return" /\ result' = "true" /\ UNCHANGED error
Answer(claimed) == IF claimed THEN Succeed ELSE Fail("")
FailOr(problem, next) == IF problem # NoProblem THEN Fail(problem) ELSE Continue(next)

(* A loader may hand over more than it was asked for, or than there is.    *)
Loaded(limit) ==
  [version |-> file,
   length  |-> Least(Primary.size, limit) + IF loader = "overreads" THEN 1 ELSE 0]

\* Slip: what an injected loader returns is taken as it is.
LoadPrimary_Trusting(limit) == Check(~Primary.opens, "unreadableFile")
LoadPrimary(limit) ==
  FirstFailure(<<
    Check(~Primary.opens, "unreadableFile"),
    Check(Loaded(limit).length > limit \/ Loaded(limit).length > Primary.size,
          "internalError")>>)

HasZipSignature(d) == d.length >= kZipSignatureSize /\ Files[d.version].zip

(* Routing by content: the signature, or a document that looks like SOG.   *)
ReadPrefix ==
  LET limit == IF operation = "CanReadBundled" THEN kZipSignatureSize
               ELSE kCanReadPrefixLimit
  IN
  /\ pc = "prefix"
  /\ IF LoadPrimary(limit) # NoProblem
     THEN Fail(LoadPrimary(limit)) /\ UNCHANGED data
     ELSE data' = Loaded(limit) /\ Continue("gate")
  /\ UNCHANGED <<world, operation, bundled, bytes, document, fault>>

\* Slip: the gate asks for the optional property too.
IsSogDocument_ShNRequired(root) ==
  /\ root.type = "object"
  /\ Member(root, "version").type = "number"
  /\ Member(root, "version").number = 2 * kSupportedVersion
  /\ \A property \in {"means", "scales", "quats", "sh0", "shN"} :
       LET files == Member(Member(root, property), "files") IN
       /\ Member(root, property).type = "object"
       /\ files.type = "array" /\ files.items # <<>>
       /\ \A n \in DOMAIN files.items : files.items[n].type = "string"
IsSogDocument(root) ==
  /\ root.type = "object"
  /\ Member(root, "version").type = "number"
  /\ Member(root, "version").number = 2 * kSupportedVersion
  /\ \A property \in {"means", "scales", "quats", "sh0"} :
       LET files == Member(Member(root, property), "files") IN
       /\ Member(root, property).type = "object"
       /\ files.type = "array" /\ files.items # <<>>
       /\ \A n \in DOMAIN files.items : files.items[n].type = "string"

Gate ==
  /\ pc = "gate"
  /\ IF operation = "CanReadBundled" THEN Answer(HasZipSignature(data))
     ELSE Answer(/\ Files[data.version].size <= data.length
                 /\ Files[data.version].json # Nothing
                 /\ IsSogDocument(Files[data.version].json[1]))
  /\ UNCHANGED <<world, operation, bundled, data, bytes, document, fault>>

(* LoadContainer: the layout decides how much may be read.                 *)
MaxBytes(isBundled) == IF isBundled THEN kMaxZipArchiveBytes ELSE kMaxMetadataBytes

ProbeLayout ==
  LET probe == Loaded(kZipSignatureSize) IN
  /\ pc = "probe"
  /\ IF LoadPrimary(kZipSignatureSize) # NoProblem
     THEN Fail(LoadPrimary(kZipSignatureSize)) /\ UNCHANGED bundled
     ELSE /\ bundled' = HasZipSignature(probe)
          /\ FailOr(Check(Primary.size > MaxBytes(HasZipSignature(probe)),
                          "importLimitExceeded"), "load")
  /\ UNCHANGED <<world, operation, data, bytes, document, fault>>

(* Another open of the file, which may be another file by now.             *)
LoadContainer ==
  /\ pc = "load"
  /\ IF LoadPrimary(MaxBytes(bundled)) # NoProblem
     THEN Fail(LoadPrimary(MaxBytes(bundled))) /\ UNCHANGED data
     ELSE /\ data' = Loaded(MaxBytes(bundled))
          /\ FailOr(Check(Primary.size > MaxBytes(bundled), "importLimitExceeded"),
                    "layout")
  /\ UNCHANGED <<world, operation, bundled, bytes, document, fault>>

(* The archive is opened, or the document recognized by its first brace.   *)
OpenLayout ==
  /\ pc = "layout"
  /\ IF bundled THEN FailOr(ArchiveProblem(Files[data.version]), "extract")
     ELSE FailOr(Check(~Files[data.version].brace, "notSogContainer"), "parse")
  /\ UNCHANGED <<world, operation, bundled, data, bytes, document, fault>>

ExtractMetadata ==
  /\ pc = "extract"
  /\ FailOr(ExtractProblem(kMetaEntryName, "notSogContainer"), "parse")
  /\ UNCHANGED <<world, operation, bundled, data, bytes, document, fault>>

ParseDocument ==
  /\ pc = "parse"
  /\ IF DocumentProblem[data.version] # NoProblem
     THEN Fail(DocumentProblem[data.version]) /\ UNCHANGED <<meta, sourceBytes>>
     ELSE /\ meta' = DocumentOf[data.version]
          /\ IF operation = "ReadMetadata" THEN Succeed /\ UNCHANGED sourceBytes
             ELSE Continue("plane") /\ sourceBytes' = Files[data.version].size
  /\ UNCHANGED <<world, operation, bundled, data, bytes, planes, fault>>

(* The plane whose turn it is, and the file of that name.                  *)
PlaneName == meta.files[Len(planes) + 1]
Companion == Files[beside[PlaneName]]
IsMissing == PlaneName \notin DOMAIN beside \/ ~Companion.opens

ExtractPlane ==
  /\ pc = "plane" /\ bundled
  /\ FailOr(ExtractProblem(PlaneName, "missingPlane"), "decode")
  /\ bytes' = IF Has(PlaneName)
              THEN [image  |-> Entry(Archive, PlaneName).file.image,
                    length |-> Size(Entry(Archive, PlaneName))]
              ELSE Nothing
  /\ UNCHANGED <<world, operation, bundled, data, document, fault>>

(* From the directory: the size first, then the file, opened once more.    *)
ProbeCompanion ==
  /\ pc = "plane" /\ ~bundled /\ loader = "file"
  /\ IF IsMissing THEN Fail("missingPlane")
     ELSE FailOr(Check(Companion.size > kMaxPlaneBytes, "importLimitExceeded"),
                 "companion")
  /\ UNCHANGED <<world, operation, bundled, data, bytes, document, fault>>

TakeCompanion ==
  /\ bytes' = [image |-> Companion.image, length |-> Companion.size]
  /\ sourceBytes' = sourceBytes + Companion.size
  /\ Continue("decode")

\* Slip: the size is not looked at again after the second open.
LoadCompanion_NotRechecked ==
  /\ pc = "companion"
  /\ IF IsMissing THEN Fail("unreadableFile") /\ UNCHANGED <<bytes, sourceBytes>>
     ELSE /\ bytes' = [image  |-> Companion.image,
                       length |-> Least(Companion.size, kMaxPlaneBytes)]
          /\ sourceBytes' = sourceBytes + Least(Companion.size, kMaxPlaneBytes)
          /\ Continue("decode")
  /\ UNCHANGED <<world, operation, bundled, data, meta, planes, fault>>
LoadCompanion ==
  /\ pc = "companion"
  /\ IF IsMissing THEN Fail("unreadableFile") /\ UNCHANGED <<bytes, sourceBytes>>
     ELSE IF Companion.size > kMaxPlaneBytes
     THEN Fail("importLimitExceeded") /\ UNCHANGED <<bytes, sourceBytes>>
     ELSE TakeCompanion
  /\ UNCHANGED <<world, operation, bundled, data, meta, planes, fault>>

(* Through an injected loader: size and bytes of one open asset.           *)
AskLoader ==
  /\ pc = "plane" /\ ~bundled /\ loader # "file"
  /\ IF IsMissing THEN Fail("missingPlane") /\ UNCHANGED <<bytes, sourceBytes>>
     ELSE IF Companion.size > kMaxPlaneBytes
     THEN Fail("importLimitExceeded") /\ UNCHANGED <<bytes, sourceBytes>>
     ELSE TakeCompanion
  /\ UNCHANGED <<world, operation, bundled, data, meta, planes, fault>>

(* The five planes every document has, and the two of the palette.         *)
DecodePlane ==
  LET last == Len(planes) + 1 IN
  /\ pc = "decode"
  /\ IF PlaneProblem # NoProblem THEN Fail(PlaneProblem) /\ UNCHANGED planes
     ELSE /\ planes' = planes \o bytes.image
          /\ Continue(CASE last = 5 -> "check"
                        [] last = 7 -> "palette"
                        [] OTHER    -> "plane")
  /\ UNCHANGED <<world, operation, bundled, data, bytes, meta, sourceBytes, fault>>

CheckPlanes ==
  LET problem == FirstFailure([n \in 1 .. 5 |-> PerGaussianProblem(planes[n])]) IN
  /\ pc = "check"
  /\ IF problem # NoProblem THEN Fail(problem)
     ELSE IF meta.shBands = 0 THEN Succeed ELSE Continue("plane")
  /\ UNCHANGED <<world, operation, bundled, data, bytes, document, fault>>

CheckPalette ==
  /\ pc = "palette"
  /\ IF PaletteProblem(planes[6], planes[7]) # NoProblem
     THEN Fail(PaletteProblem(planes[6], planes[7])) ELSE Succeed
  /\ UNCHANGED <<world, operation, bundled, data, bytes, document, fault>>

(* A read or an allocation that is refused, by the step that asks for it.  *)
Refused ==
  /\ pc \in {"prefix", "probe", "load", "extract", "parse", "plane",
             "companion", "decode"}
  /\ Fail(IF \/ pc \in {"prefix", "probe", "load", "companion"}
             \/ pc = "plane" /\ ~bundled
          THEN "unreadableFile" ELSE "modelAllocationFailed")
  /\ fault' = TRUE
  /\ UNCHANGED <<world, operation, bundled, data, bytes, document>>

(* Listing the entries and building the tree of values may throw: the      *)
(* gates decline, the others let it escape.                                *)
Throw ==
  /\ pc \in {"gate", "layout", "parse"} /\ operation # "CanReadBundled"
  /\ pc' = "return" /\ fault' = TRUE
  /\ result' = IF IsGate THEN "false" ELSE "threw"
  /\ UNCHANGED <<world, operation, error, bundled, data, bytes, document>>

Return ==
  /\ pc = "return"
  /\ pc' = "idle" /\ result' = "none" /\ error' = "" /\ bundled' = FALSE
  /\ data' = Nothing /\ meta' = Nothing /\ bytes' = Nothing
  /\ planes' = <<>> /\ sourceBytes' = 0 /\ fault' = FALSE
  /\ seen' = {file} /\ seenBeside' = Beside
  /\ UNCHANGED <<file, beside, edits, loader, operation>>

Step ==
  \/ Refused \/ Throw
  \/ ReadPrefix \/ Gate \/ ProbeLayout \/ LoadContainer \/ OpenLayout
  \/ ExtractMetadata \/ ParseDocument \/ ExtractPlane \/ ProbeCompanion
  \/ LoadCompanion \/ AskLoader \/ DecodePlane \/ CheckPlanes \/ CheckPalette
  \/ Return

Next == EditFile \/ EditCompanion \/ Call \/ Step

Spec == Init /\ [][Next]_vars
-----------------------------------------------------------------------------
(* ---- What is a container ----------------------------------------------- *)

IsList(value, length, IsItem(_)) ==
  /\ value.type = "array" /\ DOMAIN value.items = 1 .. length
  /\ \A n \in 1 .. length : IsItem(value.items[n])
IsNumberIn(value, numbers) == value.type = "number" /\ value.number \in numbers
IsCodebook(value) ==
  IsList(value, kCodebookSize,
         LAMBDA item : IsNumberIn(item, -kFloatLimit .. kFloatLimit))

(* A name that is a file's on every host: no separator, drive or scheme,   *)
(* and nothing that is a device whatever follows the first dot.            *)
IsPortable(name) ==
  /\ name # <<>> /\ Len(name) <= kMaxNameLength
  /\ name # <<Dot>> /\ name # <<Dot, Dot>>
  /\ \A n \in DOMAIN name : name[n] \in (32 .. 255) \ {47, 92, 58}
  /\ ~\E device \in kReserved :
        LET length == Len(device) IN
        /\ length <= Len(name)
        /\ \A n \in 1 .. length : Upper(name[n]) = device[n]
        /\ \E last \in length .. Len(name) :
             /\ \A n \in length + 1 .. last : name[n] = Space
             /\ last = Len(name) \/ name[last + 1] = Dot
IsPlaneList(property, length) ==
  /\ property.type = "object"
  /\ IsList(Member(property, "files"), length,
            LAMBDA item : item.type = "string" /\ IsPortable(item.text))

Doubles(from, to) == {2 * n : n \in from .. to}

(* The published schema of a version 2 document.                           *)
IsSchema(root) ==
  LET Property(key) == Member(root, key) IN
  /\ root.type = "object"
  /\ IsNumberIn(Property("version"), {2 * kSupportedVersion})
  /\ IsNumberIn(Property("count"),
                Doubles(1, Least(kMaxGaussianCount, kFormatMaxGaussianCount)))
  /\ IsPlaneList(Property("means"), 2)
  /\ \A bound \in {"mins", "maxs"} :
       IsList(Member(Property("means"), bound), 3,
              LAMBDA item : IsNumberIn(item, -kFloatLimit .. kFloatLimit))
  /\ IsPlaneList(Property("scales"), 1) /\ IsCodebook(Member(Property("scales"), "codebook"))
  /\ IsPlaneList(Property("quats"), 1)
  /\ IsPlaneList(Property("sh0"), 1) /\ IsCodebook(Member(Property("sh0"), "codebook"))
  /\ \/ Property("shN").type = "null"
     \/ /\ IsPlaneList(Property("shN"), 2)
        /\ IsCodebook(Member(Property("shN"), "codebook"))
        /\ IsNumberIn(Member(Property("shN"), "bands"), {2, 4, 6})
        /\ IsNumberIn(Member(Property("shN"), "count"),
                      Doubles(0, kFormatMaxGaussianCount))
  /\ IsInjective(PlaneNames(root))

IsArchive(v) ==
  /\ v.archive # Nothing
  /\ LET entries == v.archive[1]
         files   == {n \in DOMAIN entries : ~entries[n].directory}
     IN  /\ Len(entries) <= kMaxZipEntryCount
         /\ \A n \in files : entries[n].readable /\ Size(entries[n]) <= kMaxPlaneBytes
         /\ Expanded(entries, Len(entries)) <= kMaxZipExpandedBytes
         /\ \A m, n \in files : entries[m].name = entries[n].name => m = n

(* The files of that name in a layout: entries that can be extracted, or   *)
(* what lies beside the document.                                          *)
FilesNamed(v, companions, name) ==
  IF v.zip
  THEN {e.file : e \in {x \in Range(v.archive[1]) :
          ~x.directory /\ x.name = name /\ (x.intact \/ x.file.size = 0)}}
  ELSE {f \in {Files[companions[n]] : n \in DOMAIN companions \cap {name}} :
          f.opens /\ f.size <= kMaxPlaneBytes}

Documents(v, companions) ==
  IF v.zip THEN {f \in FilesNamed(v, companions, kMetaEntryName) :
                   f.size <= kMaxMetadataBytes}
  ELSE {v}

HasMetadata(v, companions) ==
  /\ v.opens /\ (v.zip => v.size <= kMaxZipArchiveBytes /\ IsArchive(v))
  /\ ~v.zip => v.size <= kMaxMetadataBytes /\ v.brace
  /\ \E f \in Documents(v, companions) : f.json # Nothing /\ IsSchema(f.json[1])
Root(v, companions) == (CHOOSE f \in Documents(v, companions) : TRUE).json[1]

Images(v, companions, name) ==
  {f.image[1] : f \in {x \in FilesNamed(v, companions, name) : x.image # Nothing}}
IsPlane(image) ==
  /\ image.lossless /\ image.intact /\ image.width > 0 /\ image.height > 0
  /\ image.width <= kMaxPlaneDimension /\ image.height <= kMaxPlaneDimension
  /\ 4 * image.width * image.height <= kMaxPlaneBytes

(* A SOG container: a document of the schema, whose planes are there, are  *)
(* lossless and hold a texel for every Gaussian and centroid.              *)
IsContainer(v, companions) ==
  /\ HasMetadata(v, companions)
  /\ LET m == MetaDocument(Root(v, companions)) IN
     \A n \in DOMAIN m.files : \E image \in Images(v, companions, m.files[n]) :
       /\ IsPlane(image)
       /\ IF n = 6
          THEN /\ image.width = kShCentroidsPerRow * (m.shBands * (m.shBands + 2))
               /\ kShCentroidsPerRow * image.height >= m.paletteCount
          ELSE image.width * image.height >= m.gaussianCount

Returned(op) == pc = "return" /\ operation = op
Undisturbed ==
  seen = {file} /\ seenBeside = Beside /\ ~fault /\ loader # "overreads"

(* Left alone, Read accepts exactly the containers, in either layout and   *)
(* through either loader; every refusal says why, and never blames itself  *)
(* (SogReader.cpp:447-611,619-786,1078-1225).                              *)
ReadAcceptsContainers ==
  Returned("Read") /\ Undisturbed =>
    /\ result = "true" <=> IsContainer(Primary, beside)
    /\ result = "false" <=> error # ""
    /\ error # "internalError"

(* What Read accepts, the metadata-only path accepts with the same count   *)
(* and degree, and it accepts nothing that is not of the schema, although  *)
(* it looks at no plane (SogReader.h:148-154, SogReader.cpp:1029-1076).    *)
MetadataReadAgrees ==
  Returned("ReadMetadata") /\ Undisturbed =>
    /\ IsContainer(Primary, beside) => result = "true"
    /\ result = "true" =>
         HasMetadata(Primary, beside) /\ meta = MetaDocument(Root(Primary, beside))

(* The gate of .sog claims a container exactly if it is bundled, the gate  *)
(* of .json exactly if it is unbundled and its document is within the      *)
(* routing bound, kCanReadPrefixLimit, which is below what Read takes; and *)
(* it claims nothing that Read then calls no document or another version   *)
(* (SogReader.h:133-146, SogReader.cpp:48-51,963-1027).                    *)
RoutingAgrees ==
  /\ Returned("CanReadBundled") /\ Undisturbed /\ IsContainer(Primary, beside) =>
       (result = "true" <=> Primary.zip)
  /\ Returned("CanReadUnbundled") /\ Undisturbed =>
       /\ IsContainer(Primary, beside) =>
            (result = "true" <=> ~Primary.zip /\ Primary.size <= kCanReadPrefixLimit)
       /\ result = "true" =>
            /\ ~Primary.zip /\ Primary.brace
            /\ ParseMetaJson(Primary.json[1]) # "unsupportedVersion"

(* Whatever may be met beside the document, from one open to the next.     *)
Mixtures ==
  {[name \in DOMAIN beside |-> (CHOOSE s \in picked : s[1] = name)[2]] :
     picked \in {t \in SUBSET seenBeside : {s[1] : s \in t} = DOMAIN beside}}

(* To be replaced is no reason to be refused: if everything there was      *)
(* during the call makes a container of one layout, in whatever mixture,   *)
(* then both reads succeed, whichever open met which version               *)
(* (SogReader.cpp:177-221,923-961,1029-1225).                              *)
ReplacementIsNoReason ==
  /\ Returned("ReadMetadata") \/ Returned("Read")
  /\ ~fault /\ loader # "overreads"
  /\ \A x \in seen : Files[x].zip = Primary.zip
  /\ \A x \in seen, companions \in Mixtures : IsContainer(Files[x], companions)
  => result = "true"

(* A file for every plane that holds it, and has lain beside the document. *)
Laid == {s \in seenBeside : \E n \in DOMAIN meta.files :
           s[1] = meta.files[n] /\ Files[s[2]].image = <<planes[n]>>}
Origins ==
  {[name \in Range(meta.files) |-> (CHOOSE s \in picked : s[1] = name)[2]] :
     picked \in {t \in SUBSET Laid : {s[1] : s \in t} = Range(meta.files)}}

(* Whatever is replaced between the opens of one call, a document handed   *)
(* out is one container: metadata and archive of one version of the        *)
(* primary file, every companion the whole of a file that was there, and   *)
(* the source size theirs (SogReader.h:84-86, SogReader.cpp:177-221,       *)
(* 923-961,1132-1164).                                                     *)
DocumentIsOneContainer ==
  Returned("Read") /\ result = "true" =>
    \E v \in {Files[x] : x \in seen},
       companions \in IF bundled THEN {<<>>} ELSE Origins :
      /\ v.zip = bundled /\ IsContainer(v, companions)
      /\ meta = MetaDocument(Root(v, companions))
      /\ \A n \in DOMAIN meta.files :
           planes[n] \in Images(v, companions, meta.files[n])
      /\ sourceBytes = v.size + IF bundled THEN 0
           ELSE Total([n \in DOMAIN meta.files |->
                         Files[companions[meta.files[n]]].size], Len(planes))

(* Memory is bounded by the limits, whatever is declared, replaced or      *)
(* handed over by a loader (SogReader.h:12-15, SogReader.cpp:899-961).     *)
BoundedMemory ==
  /\ data # Nothing /\ pc # "return" =>
       /\ data.length <= Files[data.version].size
       /\ data.length <= CASE operation = "CanReadBundled"   -> kZipSignatureSize
                           [] operation = "CanReadUnbundled" -> kCanReadPrefixLimit
                           [] OTHER -> MaxBytes(bundled)
  /\ bytes # Nothing /\ pc # "return" => bytes.length <= kMaxPlaneBytes
  /\ \A n \in DOMAIN planes : 4 * planes[n].width * planes[n].height <= kMaxPlaneBytes
  /\ pc \in {"extract", "parse", "plane", "decode", "check", "palette"} /\ bundled =>
       Expanded(Archive, Len(Archive)) <= kMaxZipExpandedBytes
=============================================================================
