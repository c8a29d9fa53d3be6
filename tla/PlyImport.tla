------------------------------ MODULE PlyImport ------------------------------
(***************************************************************************)
(* GaussianPlyFileFormat::Read with the decoder, the reader and the writer *)
(* it calls.  The file is opened three times - header, payload, size - and *)
(* may be replaced in between; authoring runs on a worker thread while the *)
(* caller waits, perhaps under an outer SdfChangeBlock; the host's layer   *)
(* is touched once, at the end.                                            *)
(*                                                                         *)
(* Data abstraction: a scale is its binary magnitude, 0 .. ScaleMax being  *)
(* the positive finite floats; a rest coefficient is the channel and the   *)
(* coefficient its property stands for in the file it was read from.       *)
(***************************************************************************)
EXTENDS PlyHeader, Authoring, Functions

CONSTANTS
  Settings,         \* versions: what the file may contain; requests: the
                    \* calls the host makes; edits: may the file be
                    \* replaced while it is imported?
  ScaleMax          \* magnitude of the largest finite float

ASSUME ScaleMaxAssumption == ScaleMax \in Nat
Versions == UNION {s.versions : s \in Settings}
Requests == UNION {s.requests : s \in Settings}

VARIABLES
  setting,          \* the one of Settings that holds
  file, seen,       \* the file, and what it has been since the call began
  request,          \* the arguments of the current call
  header,           \* PlyHeader, from the first open
  document,         \* the version the second open read
  group,            \* the next column group to assemble
  cloud,            \* the decoded cloud
  warned,           \* what TF_WARN has reported
  stats             \* GaussianImportStats

fileVars   == <<setting, file, seen>>
decodeVars == <<header, document, group, cloud>>
vars == <<fileVars, request, pc, result, error, decodeVars, warned, stats,
          authorVars, layer, fault>>

(* The groups of columns, in the order Decode assembles them.              *)
Groups == <<"positions", "scales", "rotations", "opacities", "dcCoefficients",
            "restCoefficients">>

(* A payload the table reader takes has a row for each Gaussian its own    *)
(* header declares; bad are the groups with a value that is not finite; an *)
(* opacity is what the sigmoid makes of it, never below 0.                 *)
IsVersion(v) ==
  /\ IsHeader(v.header)
  /\ v.payload => DOMAIN v.row = 0 .. v.header.count - 1
  /\ \A n \in DOMAIN v.row :
       /\ v.row[n].bad \subseteq Range(Groups)
       /\ v.row[n].scale \in Int /\ v.row[n].opacity \in Nat

IsRequest(r) ==
  /\ {r.valid, r.metadataOnly, r.stats, r.changeBlock} \subseteq BOOLEAN
  /\ {r.shDegree, r.opacityThreshold, r.scaleShift} \subseteq Int

ASSUME SettingsAssumption ==
  /\ \A s \in Settings : s.edits \in BOOLEAN
  /\ \A v \in Versions : IsVersion(v)
  /\ \A r \in Requests : IsRequest(r)

NoStats == [decoded |-> 0, authored |-> 0, rejected |-> 0, sourceBytes |-> 0]

Init ==
  /\ setting \in Settings
  /\ file \in setting.versions /\ seen = {file}
  /\ request \in setting.requests
  /\ pc = "idle" /\ layer = None
  /\ result = "none" /\ error = "" /\ header = None /\ document = None
  /\ group = 1 /\ cloud = None /\ warned = {} /\ stats = NoStats
  /\ worker = "none" /\ generated = None /\ fault = FALSE

(* An exporter replaces the file.                                          *)
EditFile ==
  /\ setting.edits \/ pc = "idle"
  /\ file' \in setting.versions
  /\ seen' = IF pc = "idle" THEN {file'} ELSE seen \cup {file'}
  /\ UNCHANGED <<setting, request, pc, result, error, decodeVars, warned, stats,
                 authorVars, layer, fault>>

(* The host opens or reloads the layer.                                    *)
Call ==
  /\ pc = "idle"
  /\ request' \in setting.requests
  /\ pc' = "arguments" /\ result' = "none"
  /\ UNCHANGED <<fileVars, error, decodeVars, warned, stats, authorVars, layer,
                 fault>>

(* Read's locals end with it.                                              *)
LeaveRead ==
  /\ pc' = "idle"
  /\ error' = "" /\ header' = None /\ document' = None /\ group' = 1
  /\ cloud' = None /\ warned' = {} /\ stats' = NoStats
  /\ worker' = "none" /\ generated' = None
  /\ seen' = {file} /\ fault' = FALSE
  /\ UNCHANGED <<setting, file, request>>

ParseArguments ==
  /\ pc = "arguments"
  /\ IF request.valid THEN Continue("header") ELSE Fail("invalidFormatArgument")
  /\ UNCHANGED <<fileVars, request, decodeVars, warned, stats, authorVars,
                 layer, fault>>

ReadHeader ==
  /\ pc = "header"
  /\ IF file.opens THEN header' = file.header /\ Continue("layout")
                   ELSE header' = None /\ Fail("unreadableContainer")
  /\ UNCHANGED <<fileVars, request, document, group, cloud, warned, stats,
                 authorVars, layer, fault>>

CheckLayout ==
  /\ pc = "layout"
  /\ IF ValidateHeaderLayout(header) # "" THEN Fail(ValidateHeaderLayout(header))
     ELSE Continue(IF request.metadataOnly THEN "author" ELSE "payload")
  /\ UNCHANGED <<fileVars, request, decodeVars, warned, stats, authorVars,
                 layer, fault>>

(* Every property named by the first header must be a scalar property of   *)
(* the file as it is now.                                                  *)
HasRequested(v) ==
  /\ \A n \in DOMAIN RequiredProperties :
       RequiredProperties[n] \in v.header.scalar \ v.header.list
  /\ \A index \in Indices(header) :
       \E n \in DOMAIN v.header.rest :
         v.header.rest[n].index = index /\ v.header.rest[n].scalar

ReadPayload ==
  /\ pc = "payload"
  /\ \/ /\ file.opens /\ HasRequested(file) /\ file.payload
        /\ document' = file
        /\ Continue("columns") /\ UNCHANGED fault
     \/ /\ ~(file.opens /\ HasRequested(file) /\ file.payload)
        /\ Fail("unreadableContainer") /\ UNCHANGED <<document, fault>>
     \/ /\ Fail("unreadableContainer")      \* an exception inside the reader
        /\ fault' = TRUE /\ UNCHANGED document
  /\ UNCHANGED <<fileVars, request, header, group, cloud, warned, stats,
                 authorVars, layer>>

(* takeColumn: a column has the length the first header promised.          *)
TakesColumns == document.header.count = header.count

(* What the values of a group fail with.                                   *)
ValueProblem(name) ==
  LET rows == {document.row[n] : n \in DOMAIN document.row}
      bad  == \E row \in rows : name \in row.bad
  IN  CASE name = "restCoefficients" ->
             Check(bad /\ RestCount(header) > 0, "nonFiniteShCoefficient")
        [] name = "scales" ->
             FirstFailure(<<Check(bad, "nonFiniteValue"),
               Check(\E row \in rows : row.scale \notin 0 .. ScaleMax,
                     "logScaleOverflow")>>)
        [] OTHER -> Check(bad, "nonFiniteValue")

(* No column is taken for the rest of a cloud of degree 0.                 *)
NeedsColumns(name) == name = "restCoefficients" => RestCount(header) > 0

AssembleGroup ==
  /\ pc = "columns" /\ group <= Len(Groups)
  /\ LET name    == Groups[group]
         problem == FirstFailure(<<
                      Check(NeedsColumns(name) /\ ~TakesColumns,
                            "propertyCountMismatch"),
                      ValueProblem(name)>>)
     IN  \/ /\ problem = ""
            /\ group' = group + 1 /\ Continue("columns") /\ UNCHANGED fault
         \/ /\ problem # ""
            /\ Fail(problem) /\ UNCHANGED <<group, fault>>
         \/ /\ Fail("modelAllocationFailed")
            /\ fault' = TRUE /\ UNCHANGED group
  /\ UNCHANGED <<fileVars, request, header, document, cloud, warned, stats,
                 authorVars, layer>>

(* What the property f_rest_<index> holds in version v of the file.        *)
Meaning(v, index) ==
  [channel |-> index \div RestPerChannel(v.header),
   coefficient |-> index % RestPerChannel(v.header)]

(* The file stores the channels one after the other; a model element holds *)
(* the three channels of one coefficient.                                  *)
RestOf(v, perChannel) ==
  [c \in 1 .. perChannel |->
     [ch \in 1 .. 3 |-> Meaning(v, (ch - 1) * perChannel + c - 1)]]

DecodedCloud ==
  [frame     |-> "RDF",
   shDegree  |-> HeaderShDegree(header),
   gaussians |-> [n \in 1 .. header.count |->
                    [row     |-> n - 1,
                     scale   |-> document.row[n - 1].scale,
                     opacity |-> document.row[n - 1].opacity]],
   rest      |-> RestOf(document, RestPerChannel(header))]

(* The shared gate, ValidateGaussianCloud.                                 *)
IsValidCloud(c) ==
  /\ Len(c.gaussians) > 0
  /\ c.shDegree \in 0 .. kMaxShDegree
  /\ Len(c.rest) = RestPerGaussian(c.shDegree)
  /\ \A n \in DOMAIN c.gaussians : c.gaussians[n].scale \in 0 .. ScaleMax

FlipYZAxes(c) == [c EXCEPT !.frame = IF @ = "RDF" THEN "RUB" ELSE "RDF"]

(* What Decode reports once the cloud has passed the gate.                 *)
Warnings ==
  LET quats == {document.row[n].quat : n \in 0 .. header.count - 1} IN
  {code \in {"quaternionsNormalized", "quaternionsReplaced",
              "unknownPropertiesIgnored"} :
     CASE code = "quaternionsNormalized" -> "long" \in quats
       [] code = "quaternionsReplaced" -> "zero" \in quats
       [] OTHER -> header.unknown > 0}

FinishDecode ==
  LET decoded == FlipYZAxes(DecodedCloud) IN
  /\ pc = "columns" /\ group > Len(Groups)
  /\ IF IsValidCloud(decoded)
     THEN cloud' = decoded /\ Continue(IF request.stats THEN "size" ELSE "warn")
     ELSE Fail("cloudValidationFailed") /\ UNCHANGED cloud
  /\ UNCHANGED <<fileVars, request, header, document, group, warned, stats,
                 authorVars, layer, fault>>

(* FileSizeOf opens the file a third time; 0 when it cannot.               *)
MeasureSource ==
  /\ pc = "size"
  /\ stats' = [NoStats EXCEPT !.decoded = Len(cloud.gaussians),
                              !.authored = Len(cloud.gaussians),
                              !.sourceBytes = file.size]
  /\ Continue("warn")
  /\ UNCHANGED <<fileVars, request, decodeVars, warned, authorVars, layer, fault>>

Warn ==
  /\ pc = "warn"
  /\ warned' = Warnings
  /\ Continue("options")
  /\ UNCHANGED <<fileVars, request, decodeVars, stats, authorVars, layer, fault>>

EffectiveShDegree(r, sourceDegree) ==
  IF r.shDegree < 0 \/ r.shDegree > sourceDegree THEN sourceDegree ELSE r.shDegree

Truncated(rest, degree) == SubSeq(rest, 1, RestPerGaussian(degree))

(* The elements of a set of numbers in ascending order.                    *)
InOrder(S) ==
  CHOOSE s \in [1 .. Cardinality(S) -> S] :
    \A m, n \in DOMAIN s : m < n => s[m] < s[n]

(* ApplyImportOptions, whose loops PlyImportOptions shows to do this.      *)
Applied(c) ==
  LET scaled == [n \in DOMAIN c.gaussians |->
                   [c.gaussians[n] EXCEPT !.scale = @ + request.scaleShift]]
      kept   == InOrder({g \in 0 .. Len(scaled) - 1 :
                           scaled[g + 1].opacity >= request.opacityThreshold})
      degree == EffectiveShDegree(request, c.shDegree)
  IN  [c EXCEPT
         !.gaussians = [n \in DOMAIN kept |-> scaled[kept[n] + 1]],
         !.shDegree = degree,
         !.rest = Truncated(c.rest, degree)]

ApplyImportOptions ==
  /\ pc = "options"
  /\ IF Applied(cloud).gaussians = <<>>
     THEN Fail("allGaussiansFiltered") /\ UNCHANGED cloud
     ELSE cloud' = Applied(cloud) /\ Continue("adjust")
  /\ UNCHANGED <<fileVars, request, header, document, group, warned, stats,
                 authorVars, layer, fault>>

\* Slip: the rejected Gaussians are counted after the count is replaced.
AdjustStats_Late ==
  /\ pc = "adjust"
  /\ stats' = [stats EXCEPT !.authored = Len(cloud.gaussians), !.rejected = 0]
  /\ Continue("author")
  /\ UNCHANGED <<fileVars, request, decodeVars, warned, authorVars, layer, fault>>
AdjustStats ==
  /\ pc = "adjust"
  /\ stats' = IF request.stats
              THEN [stats EXCEPT !.authored = Len(cloud.gaussians),
                                 !.rejected = stats.authored - Len(cloud.gaussians)]
              ELSE stats
  /\ Continue("author")
  /\ UNCHANGED <<fileVars, request, decodeVars, warned, authorVars, layer, fault>>

StartWorker ==
  Spawn /\ UNCHANGED <<fileVars, request, decodeVars, warned, stats>>

(* What the writer publishes; LayerWriter shows that it is the whole cloud.*)
Metadata(h, r) ==
  [kind |-> "metadata", count |-> h.count,
   shDegree |-> EffectiveShDegree(r, HeaderShDegree(h))]
Full(c) ==
  [kind |-> "full", count |-> Len(c.gaussians), shDegree |-> c.shDegree,
   cloud |-> c]

(* Three times the largest scale must still be a float.                    *)
WriterProblem ==
  IF request.metadataOnly THEN Check(Observes(request.changeBlock), "scaffoldAuthoringFailed")
  ELSE FirstFailure(<<
    Check(~IsValidCloud(cloud), "cloudValidationFailed"),
    Check(Observes(request.changeBlock), "scaffoldAuthoringFailed"),
    Check(\E n \in DOMAIN cloud.gaussians : cloud.gaussians[n].scale = ScaleMax,
          "extentOverflow")>>)

WorkerAuthors ==
  /\ Author(WriterProblem, IF request.metadataOnly THEN Metadata(header, request)
                           ELSE Full(cloud))
  /\ UNCHANGED <<fileVars, request, decodeVars, warned, stats>>

WorkerThrows ==
  EndByException /\ UNCHANGED <<fileVars, request, decodeVars, warned, stats>>

Join ==
  Get /\ UNCHANGED <<fileVars, request, decodeVars, warned, stats>>

TransferContent == Transfer /\ LeaveRead

Return ==
  /\ pc = "return"
  /\ LeaveRead
  /\ UNCHANGED <<result, layer>>

Caller ==
  \/ ParseArguments \/ ReadHeader \/ CheckLayout \/ ReadPayload
  \/ AssembleGroup \/ FinishDecode \/ MeasureSource \/ Warn
  \/ ApplyImportOptions \/ AdjustStats \/ StartWorker \/ Join
  \/ TransferContent \/ Return

Worker == WorkerAuthors \/ WorkerThrows

Next == EditFile \/ Call \/ Caller \/ Worker

(* Both threads run on; nobody has to call, or to edit the file.           *)
Spec == Init /\ [][Next]_vars /\ WF_vars(Caller) /\ WF_vars(Worker)
-----------------------------------------------------------------------------
Survivors(v, r) ==
  InOrder({g \in 0 .. v.header.count - 1 :
             v.row[g].opacity >= r.opacityThreshold})

(* A call reads the header of one version and the payload of another, if   *)
(* the file is replaced between the two opens.                             *)
Readings(versions) == [head : versions, body : versions]

(* It has a layer to author when the layout is accepted and, for a full    *)
(* import, the payload has the columns the layout names, at its length,    *)
(* every row decodes and the survivors of the threshold, scaled, have      *)
(* positive finite scales whose three-sigma radius is a float.             *)
Importable(reading, r) ==
  LET h == reading.head.header
      d == reading.body
  IN  /\ r.valid /\ reading.head.opens /\ IsGaussianLayout(h)
      /\ ~r.metadataOnly =>
           /\ d.opens /\ d.payload /\ d.header.count = h.count
           /\ Range(RequiredProperties) \subseteq d.header.scalar \ d.header.list
           /\ Indices(h) \subseteq
                {p.index : p \in {q \in Range(d.header.rest) : q.scalar}}
           /\ \A n \in DOMAIN d.row :
                /\ d.row[n].bad \subseteq
                     (IF h.rest = <<>> THEN {"restCoefficients"} ELSE {})
                /\ d.row[n].scale \in 0 .. ScaleMax
           /\ Survivors(d, r) # <<>>
           /\ \A g \in Range(Survivors(d, r)) :
                d.row[g].scale + r.scaleShift \in 0 .. ScaleMax - 1

SourceShDegree(h) ==
  CHOOSE d \in 0 .. kMaxShDegree : Len(h.rest) = 3 * RestPerGaussian(d)

ImportedShDegree(h, r) ==
  IF r.shDegree \in 0 .. SourceShDegree(h) THEN r.shDegree ELSE SourceShDegree(h)

(* What column n of that layout stands for in the file it is taken from:   *)
(* a third of the columns for each channel.                                *)
ColumnMeaning(v, n) ==
  LET third == Cardinality({p.index : p \in Range(v.header.rest)}) \div 3
  IN  [channel |-> n \div third, coefficient |-> n % third]

(* The layer: the degree of the layout, the survivors of the payload in    *)
(* file order, in the model's frame, and for every coefficient its three   *)
(* channels - in one version, the three of that coefficient.               *)
Content(reading, r) ==
  LET h      == reading.head.header
      d      == reading.body
      degree == ImportedShDegree(h, r)
      third  == Len(h.rest) \div 3
  IN
  IF r.metadataOnly
  THEN [kind |-> "metadata", count |-> h.count, shDegree |-> degree]
  ELSE [kind |-> "full", count |-> Len(Survivors(d, r)), shDegree |-> degree,
        cloud |->
          [frame |-> "RUB", shDegree |-> degree,
           gaussians |->
             [n \in DOMAIN Survivors(d, r) |->
                LET g == Survivors(d, r)[n]
                IN  [row |-> g, scale |-> d.row[g].scale + r.scaleShift,
                     opacity |-> d.row[g].opacity]],
           rest |->
             [c \in 1 .. RestPerGaussian(degree) |->
                [ch \in 1 .. 3 |->
                   IF reading.head = d
                   THEN [channel |-> ch - 1, coefficient |-> c - 1]
                   ELSE ColumnMeaning(d, (ch - 1) * third + c - 1)]]]]

Promise ==
  INSTANCE ImportSpec WITH Version <- Versions, Request <- Requests,
                           calling <- pc # "idle"

(* A call replaces the layer by exactly what the file stands for - or, if  *)
(* the file is replaced under it, what the columns of one version are      *)
(* under the layout of another - or fails for a reason - the file, the     *)
(* arguments or a refused allocation or USD call - and leaves the layer as *)
(* it was; an SdfChangeBlock around a reload is no reason.                 *)
ImplementsPromise == Promise!Spec

(* The statistics are logged, and the layer handed over, at this point.    *)
Imported == pc = "transfer" /\ ~request.metadataOnly

(* The statistics of an import account for every Gaussian of the file that *)
(* was read, authored or rejected; the source size comes from an open of   *)
(* its own and is that of a file that was there during the call, which     *)
(* with no replacement is the file that was read.                          *)
StatsAccountForEveryGaussian ==
  Imported /\ request.stats =>
    /\ stats.decoded = document.header.count
    /\ stats.authored = generated.count
    /\ stats.rejected = stats.decoded - stats.authored
    /\ stats.sourceBytes \in {v.size : v \in seen}

(* Every call returns, also when the worker ends by an exception.          *)
CallReturns == (pc # "idle") ~> (pc = "idle")

(* "Truncation happens only when the user asks for it"                     *)
(* (GAUSSIAN_MODEL_CONTRACT.md:119-120): the degree is lowered from that   *)
(* of the file the payload came from by the request alone.                 *)
NeverSilentlyTruncated ==
  Imported => generated.shDegree
                = EffectiveShDegree(request, HeaderShDegree(document.header))
=============================================================================
