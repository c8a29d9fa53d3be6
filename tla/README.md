# A TLA+ model of the USD Gaussian-splat plugins

This directory models the import path of `usd-3dgs-plugins`: three USD file
format plugins (`.ply`, `.spz`, `.sog`) that decode a cloud of 3D Gaussians and
author it on an `SdfLayer`. Paths below are relative to the repository root,
which PROJECT.json calls `src/`.

## 1. The system

| Component | Code | State | Operations | Correct when |
|---|---|---|---|---|
| gaussian-core: cloud and gate | `libs/gaussian-core` (`GaussianCloudData.h`, `GaussianMath`, `GaussianSizeMath.h`) | the canonical cloud: a count, a degree, six arrays | degree arithmetic, numeric conversions, frame change, `ValidateGaussianCloud`, `ComputeCloudExtent` | the gate admits exactly the clouds every consumer may index without further checks |
| gaussian-core: statistics | `GaussianImportStats.h/.cpp` | counts, sizes and timings of one import | collected by the decoder, corrected by the file format, logged | the counts account for every Gaussian of what was read |
| gaussian-usd: layer writer | `libs/gaussian-usd` | the cloud it consumes, Vt arrays, an anonymous layer | `WriteToLayer`, `WriteMetadataToLayer` | the layer is handed over whole or not at all; no read past or after release of an array |
| gaussian-ply: header | `GaussianPlyDecoder.cpp` `ValidateHeaderLayout` | none | accepts a header or names a diagnostic | what is accepted can be decoded column by column |
| gaussian-ply: options | `GaussianPlyImportOptions` | the cloud, edited in place | parse arguments; scale, filter, truncate | the result is the filtered, truncated cloud, whatever the in-place order |
| gaussian-ply: reader, decoder, file format | `PlyReader`, `GaussianPlyDecoder`, `GaussianPlyFileFormat` | a call's header, table, cloud, statistics; the host's layer | `CanRead`, `Read` | a layer changes only to what the file stands for |
| gaussian-spz: container reader | `SpzReader.cpp` | the compressed bytes, an inflate stream | probe, header, bounded inflation, trailer checks | every size bound holds after every piece; nothing after the payload is lost silently |
| gaussian-spz: decoder, file format | `GaussianSpzDecoder`, `GaussianSpzFileFormat` | attribute streams, cloud | `CanRead`, `Read` | as for PLY, without options; every byte is decoded from its place, and no word decodes to anything but what the format means |
| gaussian-sog: container and metadata | `SogReader.cpp` | what was loaded of the primary, the parsed metadata, the decoded planes, a byte count | `CanReadBundled`, `CanReadUnbundled`, `ReadMetadata`, `Read` | reads, metadata reads and routing probes agree on what a container is; a document comes from one version of each file; no load, entry or plane beyond its limit |
| gaussian-sog: JSON parser | `SogJson.cpp` | position, depth, token count, the tree being filled | recursive descent | accepts exactly JSON documents within its limits; recursion and tree bounded on every path |
| gaussian-sog: companion loading | `GaussianSogFileFormat.cpp` (the loader given to the reader) | an identifier, a resolved path, an open asset | find, open and read a plane through `ArResolver` | the plane loaded is the one beside `meta.json`, and that one is found |
| gaussian-sog: decoder, file format | `GaussianSogDecoder`, `GaussianSogFileFormat` | planes, codebooks, palette, cloud, warnings | `Read` | every code means what the format says; labels stay inside the centroid image; degraded Gaussians are reported |
| test kit | `openstrata/gs/testing` | none | checks test results | - |
| tooling | `tools`, `scripts`, packaging | none kept between runs | build, release, fixtures | - |
| third party | `tinyply`, `miniz`, `libwebp` | - | - | external |

### How the parts interact

USD calls a plugin's `CanRead`/`Read` on a host thread, for an open or a reload.
`Read` decodes into a cloud that it owns, applies options (PLY), and starts **one
worker thread** (`std::async(std::launch::async, ...)`) that runs the layer
writer; the host thread waits in `get()`. The worker exists because a reload may
run while the host's thread holds an `SdfChangeBlock`, inside which a stage built
by the same thread would not see its own edits. The worker's result is an
anonymous layer the caller then transfers into the host's layer. Files are
reached by path, and a PLY file is opened **three times** in one call: header,
payload, size. An SPZ file is opened up to twice by its reader (size probe and
load, or prefix and load) and once more for the statistics. A SOG container is one
ZIP archive, opened twice (which layout is it; load it), or a `meta.json`, opened
twice as well, with five or seven planes in files beside it; each of those is opened
twice too, or asked for through a loader that goes over USD's asset resolver.

### What is hard here

Most of the code is sequential; PROJECT.json's `hazards` lists the places that are
not obvious, each at its line. They fall in six groups:

1. *Stale state between opens*: an exporter may replace the file between the
   header, the payload and the size of one call.
2. *Two threads*: what the worker writes (`generated`, `error`) belongs to the
   caller's stack; an exception has to travel through the future.
3. *In-place array surgery*: compaction and truncation read and write one
   array; the writer releases arrays while later steps still need data.
4. *Partial failure*: every allocation and USD call may fail half way.
5. *Numeric edges and resource limits*: integer narrowing in arguments, float
   overflow in bounds, inflation limits, parser depth, palettes whose declared size
   and image disagree.
6. *Agreement of several entry points*: routing, metadata reads and full reads walk
   different code over the same file and must not contradict each other.

## 2. Modules

| Module | Models | Kind |
|---|---|---|
| `Diagnostics` | chains of checks, the first failing one names the diagnostic | operators |
| `GaussianCloud` | `GaussianCloudData.h`, `ValidateGaussianCloud` | operators |
| `CloudExtent` | `ComputeCloudExtent` over a bounded float range | operators |
| `ImportOptionsSpec` | what `ApplyImportOptions` promises: one step | abstract specification |
| `PlyImportOptions` | its loops, one action per iteration | state machine |
| `PlyImportOptions_proofs` | its invariants and refinement, for every size | proofs |
| `PlyHeader` | `ValidateHeaderLayout` and the `CanRead` probe | operators |
| `PlyArguments` | `ParseImportOptions` with the widths of `long` and `int` | actions |
| `PlyPrelude` | what a PLY `Read` decides before the payload: arguments, then header, against a declarative layout | state machine over calls |
| `LayerWriter` | `GaussianLayerWriter.cpp` | state machine |
| `LayerWriter_proofs` | its reads, what it publishes, its memory peak and its extent, for every cloud | proofs |
| `ImportSpec` | what an open or reload promises: one step | abstract specification |
| `Authoring` | the end every plugin's `Read` shares: worker, future, transfer | actions |
| `PlyImport` | `Read` of the PLY plugin: host thread, worker, exporter | state machine |
| `PlyImport_proofs` | the layouts accepted, the columns taken and the arguments that arrive (`PlyHeader`, `PlyPrelude`); the statistics of an import, what it has passed, and its refinement of `ImportSpec`, for every file | proofs |
| `SpzFormat` | `SpzHeader`'s widths and the order of the streams | operators |
| `SpzReader` | `SpzReader.cpp`: `CanRead`, `ReadHeader`, `Read` | state machine |
| `SpzReader_proofs` | its invariants, for every file and every limit | proofs |
| `SpzValues` | the bit arithmetic of `GaussianSpzDecoder.cpp`, and what the words mean | operators |
| `SpzImport` | `Read` of the SPZ plugin: host thread, worker, exporter | state machine |
| `SpzImport_proofs` | what the words of a payload mean, its statistics and its refinement of `ImportSpec`, for every file and width | proofs |
| `GaussianMath` | quaternion normalisation and the change of frame, exactly | operators |
| `SogJsonValue` | `JsonValue`, and how a member is looked up | operators |
| `SogJson` | `SogJson.cpp`: the parser with its C++ call stack | state machine |
| `SogJsonCheck` | the JSON documents, stated without a parser | operators |
| `SogMeta` | `ParseMetaJson`: the schema of `meta.json`, and the names of planes | operators |
| `SogReader` | `SogReader.cpp`: the four methods over both layouts | state machine |
| `SogReader_proofs` | its limits, what it hands out and what it accepts, for every file | proofs |
| `SogCompanion` | the companion loader over the asset resolver | state machine |
| `SogDocument_proofs` | the parser's recursion bound, for every document and limit; which plane is loaded, for every asset path and search path | proofs |
| `SogValues` | the dequantization of `GaussianSogDecoder.cpp` | operators |
| `SogImport` | `Read` of the SOG plugin: host thread, worker, exporter | state machine |
| `SogImport_proofs` | what the codes of a container mean, its statistics and warnings and its refinement of `ImportSpec`, for every container | proofs |
| `MC*` | constants and finite inputs for TLC | instances |

`PlyImport` composes the others: it evaluates `PlyHeader`'s `ValidateHeaderLayout`
and `GaussianCloud`'s gate directly, applies the options as the one step that
`PlyImportOptions` is shown to implement, and lets the worker publish what
`LayerWriter` is shown to publish. `SpzImport` is put together the same way, from
`SpzFormat`, `SpzValues`, the gate and `Authoring`; its container reader is one step
that hands out the whole of one version of the file or fails, which is what
`SpzReader` is shown to do. `SogImport` does the same for a bundled container, over
`SogValues` and what `SogReader` is shown to hand out (a bundle is one file; mixtures
of an unbundled container's files are `SogReader`'s subject). `SogReader` takes the
result of `SogJson` (the value a document parses to, or none) and evaluates
`SogMeta`'s schema over it; its injected loader hands out what `SogCompanion` is shown
to find. `PlyImport`, `SpzImport` and `SogImport` implement one `ImportSpec`.

### State and actions against the code

* **`PlyImportOptions`** - `column` is the five per-Gaussian vectors, `rest` the
  coefficient vector; an element is the *index it was decoded for*, so an
  overwritten element is visible. `count`, `shDegree`, `i`, `kept`, `c` are the
  code's variables. `DropGaussian`, `KeepInPlace`, `MoveSurvivor`, `MoveRest`,
  `SurvivorMoved` are the paths through the body of the filter loop;
  `TruncateCoefficient`, `TruncateNext` the two truncation loops; `ShrinkToKept`
  and `ShrinkRest` the `resize` calls, `FailAllFiltered` the early return.
* **`LayerWriter`** - `cloud` is the caller's cloud (a released array is empty),
  `local` the Vt arrays, `layer` the anonymous layer, `outLayer` the out
  parameter. `Take*` copies and releases; `CopyRotation`, `CopyDc`, `CopyRest` are
  loop iterations; each `Author*` has one disjunct per way a USD call may refuse;
  `Throw` is `std::bad_alloc` anywhere.
* **`PlyPrelude`** - a call brings its arguments and the header it meets;
  `TakeArguments` parses one option per step, `Validate` runs the header checks if all
  of them were accepted. `RestColumn` is the index the assembly loop then takes.
* **`PlyHeader`** - a header is its vertex count, the scalar and list properties
  present and the `f_rest_` properties as written. `ValidateHeaderLayout` lists the
  checks in their order, the first failing one wins.
* **`PlyArguments`** - an argument's text is the integer it spells (or that it
  spells none); `ParseFullInt` narrows it to `long` and `int` as the code does.
* **`PlyImport`** - `file` is what the path leads to *now*; `header` and `document`
  are what the two opens read; `group` walks the attribute groups as the decoder
  assembles them; `cloud`, `stats`, `generated`, `error`, `layer` as in the code;
  `worker` is the future's state. `EditFile` is the exporter, `Call` the host.
  A Gaussian's data is what the properties distinguish: its row, its scale on a
  small integer scale whose top stands for the largest float, its opacity, the
  shape of its quaternion; a coefficient is the channel and index it was read for.
* **`SpzReader`** - a file is a gzip header, a DEFLATE stream that yields bytes at a
  fixed ratio and may break at a byte, and a trailer: lengths, not contents. `data`
  is what was loaded, `position` and `finished` the inflator, `payload`,
  `extensions`, `undeclared` what the loop behind the header has filled. There is one
  action per load, check and pump; `DrainStream` is one iteration of the loop. The
  inflator's freedom - it may report the end of the stream with the last byte or with
  the next call - is a choice.
* **`SpzImport`** - as `PlyImport`, with `document` the version the reader handed out
  and `array` the next array of the cloud. The bytes of positions and rotations have
  values and are decoded by `SpzValues`, shift by shift; any other byte is told apart
  by its stream, Gaussian and place, so that a wrong offset or stride shows. Floats
  are exact numbers, and of a quaternion the squares of the components are kept: the
  square root, the exponential of a scale and the linear maps of bytes are left out,
  their finiteness is not (a negative radicand has no root).
* **`SogJson`** - `calls` is the C++ call stack: the `depth` parameter of every
  `ParseObject` and `ParseArray` under way; `open` is the value each of them fills. The
  document is a sequence of lexemes, disclosed as it is read: a string or number keeps
  only what the parser tells apart (its bytes, escapes and surrogates; digits before
  and after the point and in the exponent).
* **`SogReader`** - a version of a file is a record of what its bytes are taken for:
  size, signature, archive entries, JSON value, image. `file` and `beside` are what the
  paths lead to now, `seen` and `seenBeside` what they have led to since the call
  began. `data`, `bytes`, `meta`, `planes` and `sourceBytes` are the code's locals.
  There is one action per open, load, extraction, check and plane; `Loaded` cuts a
  file at the limit of its load. `loader` is who finds companions: the reader itself,
  an injected loader, or one that hands out more than it may.
* **`SogCompanion`** - `NamePlane`, `ResolvePlane`, `OpenAsset`, `CheckSize` and
  `ReadAsset` are the calls of the loader in their order. An asset path is a file and,
  in a package, a path per nested package; the resolver's own rules (search paths,
  anchoring, splitting and joining packaged paths) are modelled from its use.
* **`SogImport`** - `stage` is the next loop of `Decode`. A byte has three bits; a
  number in the log domain stands for its exponential, so that scales and positions
  are compared exactly; a quaternion component is its square with its sign.
* **`Authoring`** - `Spawn` is `std::async(std::launch::async, ...)`, `Get` is
  `task.get()`, `Author` and `EndByException` are how the worker may end. A worker
  that is not the calling thread does not observe the caller's `SdfChangeBlock`.

## 3. Runs

| Run | Question | Bounds |
|---|---|---|
| `import_options` | Are the in-place loops safe, do they end, and do they implement the one-step promise? | up to 3 Gaussians, two opacities, every degree and option |
| `layer_writer` | Every early return, release and refusal of the writer: is the layer whole, are reads in bounds, is memory bounded? | up to 2 Gaussians, degrees 0-1, each array short or long, scales that overflow and not |
| `layer_writer_extent` | *violation*: the documented finiteness of the extent | as above |
| `ply_prelude` | Do valid arguments arrive unchanged, is a layout accepted exactly when every column can be fetched, and does routing offer it? | an `int` up to 7 and a `long` up to 15; all small combinations of counts, missing, duplicate and reordered properties |
| `ply_prelude_range` | *violation*: out-of-range values are errors | as above |
| `ply_import` | Is `Read` atomic to the host, with the file left alone and with an exporter that replaces it at any step? | at rest: 18 files and 16 requests; replaced meanwhile: 4 files and 3 requests; any number of calls |
| `ply_import_truncated` | *violation*: degrees are truncated only on request | as above |
| `spz_reader` | Is a file accepted exactly when it is an intact container, do routing and the metadata path agree, is memory bounded, and what does a file that is replaced between the opens become? | about 90 files, 4 that may replace one; limits of 20 (prefix), 30 (retry) and 70 bytes (file) |
| `spz_import` | Does a call hand over exactly what one version of the file stands for, while it may be replaced? | 16 files, 2 that may replace one, 3 requests |
| `sog_document` | Does the parser accept exactly the JSON documents, with their values, within its limits? Is the plane loaded the one beside `meta.json`, and is that one found? | every document of up to 9 lexemes out of 25, depth 1, 3 tokens; 4 places of `meta.json`, 6 places where a plane of that name may lie, all replaced at any moment |
| `sog_reader` | As `spz_reader`, for both layouts, with every companion; and is a read of files that are good in every version and mixture never refused because they were replaced? | about 200 containers, each wrong in one way; in 3 of them up to 3 replacements out of 7; limits just above and below what the files need |
| `sog_import` | Does a call hand over exactly what one version of the bundle means? | 22 files of 1 to 4 Gaussians, 2 that may replace one, 3 requests |

`sog_document` holds two machines that share no state, the parser and the companion
search; a behaviour is one of either. `ply_import` likewise runs in one of two
settings, fixed in the initial state.

Why the bounds are enough. Compaction needs a survivor behind a dropped Gaussian,
and truncation two Gaussians, so that a destination overlaps a later source; three
Gaussians give every shape of overlap (survivor behind one and behind two dropped,
survivor behind a survivor that moved), and the proofs remove the bound. The writer
has no interaction across more than adjacent Gaussians. Degrees 0 and 1 differ in
the presence of rest coefficients; degrees 2 and 3 change only a stride. Calls of
`PlyImport` reset every local at their return, so the reachable states of any
number of calls are finite without a call counter.

The files of `spz_reader` end, or break, at every byte where a prefix, a header, a
payload, a scratch piece, a trailer or a limit ends, one before and one after; the
proofs remove the bound for everything but termination. In `spz_import` a byte has five bits - four
bytes then split, as 32 bits do, into an index and three equal fields - and the files hold the words
at the edges of each encoding: subnormals, the normals beside them and the largest,
infinities and NaNs, both ends of two's complement, each component as the largest,
radicands above, at and below zero. For what the imports author, `spz_import` and
`sog_import` are the small end of theorems without these bounds (section 4).

In `sog_document`, nine lexemes are what an object with two members takes, depth 1 is
reached by a container in a container (and refused one further), and three tokens by
an array of two and refused one further; every punctuation, and every broken form of
a string, number or word, stands at every place of such documents. The companions
lie at every place from which a resolver may take one: beside the anchor, at the root
of the package, in the outer package, in the current directory and in one that is
searched. In `sog_reader` each field of the document, each plane and each archive entry
is wrong in each way the code tells apart, one at a time: the checks form a chain, so
two faults show nothing but their order, which no property is about. Three
replacements suffice to change the primary and a companion and to change one back;
one of the files that may replace an archive is a good one with a plane under another
name, and one of the companions a larger image, so that reads of files that are all
good and not the same happen (`ReplacementIsNoReason`).
In `sog_import` the codes, codebooks and labels hold both ends of their ranges, each
rotation tag and the value below the first, and palettes of which the last row is
full and not.

No run disables deadlock checking except where the modelled function has returned
(its cfg says `CHECK_DEADLOCK FALSE`).

### Fairness

`PlyImportOptions`, `PlyImport`, `SpzReader`, `SpzImport` and `SogImport` assume weak fairness of each thread that is in the middle of the code: a function that
can take its next step takes it. The worker is a thread of its own because the code asks for `std::launch::async`.
Nothing is assumed of the host (nobody has to call) or of the exporter (nobody has
to edit), and nothing of which outcome a step has: fairness is that of the whole
step, refused allocations included. `CallReturns` needs exactly that; in the imports it
fails when the caller waits for a value that an ended worker never sets, in the SPZ
reader when the loop behind the payload does not advance. `SogReader` has no fairness:
the calls of the SOG reader are straight-line code over loops that are single steps
here, so that their termination would say nothing of the code.

## 4. Proofs

### The import options

`PlyImportOptions_proofs` proves for every `MaxCount` and every set of opacities:

* `TypeCorrect`, `Compaction`, `Placement`, `Truncation`: `TypeOK`,
  `NoReadAfterOverwrite`, `SurvivorsPlaced` and `TruncationInPlace` hold in every
  reachable state;
* `Refinement`: the loops implement `ImportOptionsSpec` (without its fairness).

None of these is inductive alone. The inductive invariant is their conjunction
`IInv`. That a survivor lands whole at its rank (`SurvivorsPlaced`) needs that the
element being copied is still the decoded one (`NoReadAfterOverwrite`), which needs
`kept <= i`, which follows from `kept` being the rank of `i`. During truncation the
destination stride is smaller than the source stride, so a Gaussian's destination
ends before the next one's source begins (`RepackBehind`: `r * new + d` never meets
`s * old + e` for a pair not copied yet), and the rest is that ranks are distinct and
ordered. Assumptions: `MaxCount` is a natural number
and opacities are natural numbers (only their order is used).

### The PLY prelude

The first part of `PlyImport_proofs` proves for every header - any vertex count, any
set of scalar and list properties, any sequence of `f_rest_` properties - all arguments
and every range of `int` and `long`:

* `LayoutIsAccepted`: `ValidateHeaderLayout` reports nothing exactly for the layouts
  `IsGaussianLayout` declares, and with it `GaussianLayoutsAccepted`
  (`AcceptsGaussianLayouts`, which also says that routing offers what is accepted);
* `ColumnsTaken`: the assembly takes every coefficient column once (`EveryColumnTaken`);
* `ArgumentsArrive`: what is passed as an argument within the documented range arrives
  unchanged in the import options, whatever came before it (`ValidArgumentsArrive`).

The code never looks for a missing index: it refuses a number of properties that is not
that of a degree, a repeated index and one past the end. That nothing is missing then is a
counting argument (`Unrepeated`, `ContiguousIsAll`: a set of n distinct indices below n is
all of them), and that the degree found by a rounded square root is the one meant is
`InferSquare`, by uniqueness of integer roots. `ColumnsTaken` is the uniqueness of quotient
and remainder (`ColumnsOfChannels`). The invariant `PreludeInv` of
the machine says of each argument already parsed that it is stored as spelled, and of
each one still ahead that its option has its default. Assumptions:
`CallsAssumption` (`IsHeader` of each header: names are those of properties, an index is a
number or none), `LimitAssumption`, `WidthAssumption` (3 <= `IntMax` <= `LongMax`),
`NumbersAssumption` (a number spelled is an integer) and `FloatAssumption`. That a long is
as wide as 32 or 64 bits is not needed, and neither is that either is a power of two.

### The PLY import

`PlyImport_proofs` proves for every set of files and requests, every replacement between
the opens and every way the worker may end:

* `StatisticsAccount`: `StatsAccountForEveryGaussian` holds in every reachable state;
* `ImportsWereChecked`: when a layer is handed over, every check of the call holds of the
  versions it is made of: the header of one that was there is accepted, the payload of
  one that was there (perhaps another) has its length, the columns it names and values
  that decode, and the layer is what the worker made of the cloud;
* `Refinement`: a call implements `ImportSpec`: it replaces the layer by the content of a
  reading it has made, or leaves it as it was, and then for a reason (`ImplementsPromise`).

The invariant `IInv` carries each check past the opens, edits and thread switches that
follow it: `HeaderRead`, `LayoutChecked`, `PayloadRead`, `GroupsPassed` (the groups
before `group`, and all of them once the cloud is built), `Counted` and `StatsTaken`
(what the statistics say before and after the options shrink the cloud), and
`WorkerDone` (the worker runs only while the caller waits, so that nothing it reads
changes under it, and what it leaves is there when it has ended). That the statistics
name the Gaussians of the *payload* rests on `GroupsPassed`: they are counted from the
header, and the first group of columns has compared the two.

The refinement maps the open file, the versions it has been, the call in progress, its
request, a refused call and the layer to themselves; `TransferContent` is the promise's
`Succeed`, `Return` its `Fail`, an exporter its `Edit`, a refused allocation or USD call
its `Refuse`, and every other step stutters. It rests on a second invariant, `JInv`
(theorem `Agreement`), proved on top of `IInv`: `CloudDecoded` (the cloud is the one the
payload stands for under the header, and from `adjust` on the options applied to it),
`WriterAccepts` (what the worker authored, the writer still accepts when it is taken) and
`RefusalJustified` (a call that has failed, of a file nobody replaced and with nothing
refused, has met a file or arguments that cannot be satisfied). Success and failure
then meet in the middle, in lemmas that are equivalences:

* `LayoutIsAccepted`, `ColumnsAreThere` and `PassedIsDecodable` with `DecodablePasses`: the
  checks of the layout, the columns and the values pass exactly what `Importable` asks;
* `DecodingIsValid`: what passed them always passes the shared gate, so that the gate's
  error is never seen after a decode;
* `LeftWhenKept`: filtering fails exactly when no row reaches the threshold, and
  `WriterAgrees`: the writer accepts exactly the clouds whose scaled survivors have
  positive finite scales with a finite three-sigma radius;
* `ContentIs`: decoding, flipping, scaling, filtering and truncating give the content of
  the reading: the survivors in file order (`AppliedIs`, over `CanBeOrdered`: every
  finite set of numbers has an ascending enumeration) and of each coefficient its three
  channels (`RestIsMeant`, `MeaningOfColumn`: also when header and payload are of
  different versions, which the promise allows and the finding in section 5 is about).

Assumptions: `SettingsAssumption` (`IsVersion` of what a file may contain: `IsHeader` of
its header, a row for every Gaussian a readable payload declares, as `PlyReader::Read`
enforces, magnitudes and opacities are numbers; `IsRequest` of every request),
`ScaleMaxAssumption` and `LimitAssumption`.

### The SPZ reader

`SpzReader_proofs` proves for every set of files, every set of replacements and every
value of the limits:

* `TypeCorrect` and `MemoryIsBounded`: `TypeOK` and `BoundedMemory` hold in every
  reachable state;
* `DocumentsAreContainers`: what `Read` hands out is the whole of one container that
  was there during the call (`DocumentIsOneContainer`).

The last is a statement about the end of a call whose reasons were established many
steps earlier, about a file that may be gone by then. The inductive invariant `IInv`
therefore carries each check's result, in terms of the bytes that were *loaded*, to the
end: `Loaded` (they are the whole of a version the call has seen, within the file
limit), `FramingChecked` (its gzip header is whole), `InflatorTracks` (the inflator has
produced no more than the loaded input can yield, and has only finished at the
stream's end), `HeaderChecked` (the header is valid and its payload plausible),
`BytesAccounted` (every byte produced is in exactly one of header, payload,
extensions and undeclared) and `TrailerChecked` (nothing is missing or left over).
Together they give `IsContainer` of the loaded version, although the size probe may
have looked at another one.

The converse is about files nobody replaces while the call runs:

* `ReadsAcceptContainers`: `Read` accepts exactly the containers, and refuses with a
  reason (`ReadAcceptsContainers`);
* `HeaderReadsAgree`: the metadata-only path accepts what `Read` accepts, with the same
  header (`HeaderReadAgrees`);
* `RoutingIsSound`: the probes claim every container whose magic lies within their bound,
  and nothing `Read` would say is not SPZ (`RoutingAgrees`).

They rest on a second invariant, `JInv` (theorem `Agreement`), proved on top of `IInv`:
`RefusalJustified` says that at every point of a call that has refused, the file is not a
container (for a probe: has no magic within the bound), `AcceptanceJustified` that what
an accepting call claims holds, and `StreamReached` how far into the stream the inflator
has come, since a header that ends early is refused by a pump and not by a check. The
arithmetic is `WholeIsReachable` (a complete stream yields all it declares although
inflation is counted in whole input bytes) and `PumpGoesOn`.

Assumptions: `LimitsAssumption` (limits are natural numbers; those of buffers are not
zero, and a prefix holds the two bytes of gzip's signature), `VersionsAssumption`
(`IsVersion` of each file), `EditAssumption` (a replacement is a file).

### The SPZ import

`SpzImport_proofs` proves for every set of files, requests and replacements, every
refused call, and all widths of bytes and mantissas that `WidthsAssumption` allows:

* `Refinement`: an import implements `ImportSpec` (`ImplementsPromise`): the layer it
  publishes is the content of one version of the file, or it fails for a reason;
* `StatisticsDescribe`: the statistics are those of the layer, and their source size is
  of a file that was there (`StatsDescribeLayer`);
* `NoFileFailsInternally`: no file reaches the decoder's internal check, the gate's
  refusal or the writer's (`NoInternalFailure`).

Most of the proof is about what a word *means*, which `Content` says without a shift:

* `HalfConversion`: what a half - normal, subnormal, infinite or not a number - is
  converted to is the float of the same value. The code shifts a subnormal mantissa
  until its leading bit is in place, and that is so within the mantissa's width
  (`Normalizing`, `HasLeast`);
* `FixedConversion`: sign extension of a fixed-point position is two's complement;
* `SmallestThreeRotation`: the four turns of the loop take the three fields of a packed
  rotation in their order and leave the largest out. `FieldTaken` says of one turn that
  the word is its own remainder and the rest of the word (`TwoDigits`), `FourTurns`
  folds them, for each of the four orders (`FieldsArePlaced`); the squares and the
  dropped component make a unit (`CompletedIsNormalized`);
* `StreamsAreApart` and `PayloadByteAt`: the six streams lie behind one another and
  fill the payload, so that the byte at an offset belongs to the stream, the Gaussian
  and the place the loop means, with `PlaceOf` (uniqueness of quotient and remainder)
  for the coefficients that lie interleaved.

`ArraysAre` joins them: every array a loop fills is that of `Content`. The invariant
`IInv` (theorem `Invariance`) then carries through the call that the arrays filled so
far are the file's (`CloudDecoded`), what the statistics and warnings are made of, what
the worker may leave, and that a failed call has a reason (`RefusalJustified`). That
2^(m + n) = 2^m * 2^n, for which the provers have no induction, is counted
(`PowerOfSum`): the subsets of a set of m + n elements are the pairs of subsets of its
parts.

Assumptions: `VersionsAssumption` (`IsVersion`: a file with no problem has a header and
words within their widths), `EditAssumption`, `WidthsAssumption` and `RangesAssumption`
(every finite half is a normal float, as of 16 and 32 bits).

### The layer writer

`LayerWriter_proofs` proves for every set of clouds - any number of Gaussians, any
length of each array, any degree - and every refusal of USD or the allocator:

* `ReadsAreInBounds`: no block copy or loop reads past the end of an array or one that
  has been released (`ReadsInBounds`);
* `LayersAreComplete`: a layer that is handed over holds every attribute with every
  element at its place (`PublishedComplete`).

Both rest on one inductive invariant, `IInv`, which follows each array through the
call: the gate's result is still true at every later step although the gate is long
past (`Gated`); an array that is not yet taken is the caller's own (`Unreleased`), and
from then on whole in its Vt array (`Taken`); of the arrays copied in loops, the
elements behind the loop variable are in place (`RotationsCopied`,
`CoefficientsCopied`: all rows before `g` and `k` places of row `g`); what has been
authored is complete so far (`Authored`), and the out parameter is set only at the end
(`HandedOver`). That a row is not overwritten by a later one is arithmetic
(`StrideInjective`: `h * (per + 1) + e` determines `h` and `e`).

* `PeakIsBounded`: the cloud and the authored arrays together never hold more than the
  cloud as it came in and one SH attribute (`BoundedPeak`);
* `ExtentIsEnclosing`: the authored extent contains every Gaussian's three-sigma sphere
  of the cloud as it was *handed in* (`ExtentEnclosesCloud`), though it is computed when
  the cloud's positions and scales have been released.

The first rests on `Storage`, which says for each step which arrays the cloud still has
and which the layer has taken; the elements held are then counted array by array
(`Held`), and everything but the SH coefficients is on one side only. The second on
`Taken` (the authored copies are the cloud's) and on `ExtentEncloses`: a minimum over a
finite set is one of its elements and least. Assumption: `CallsAssumption` (counts and
lengths are natural numbers; a metadata-only call carries no arrays, as
`WriteMetadataToLayer` takes none).

### The JSON parser

`SogDocument_proofs` proves for every set of lexemes, every length and every value of the
limits that `BoundedRecursion` holds (`RecursionIsBounded`). The limit is compared with
a parameter, not with the stack: the invariant `StackInv` says that at every level the
parameter counts the calls below it, and that the value about to be parsed is one above
the innermost.

### The SOG reader

`SogReader_proofs` proves for every set of files and archives, every sequence of
replacements, every loader of `Loaders` and every value of the limits:

* `MemoryIsBounded`: `BoundedMemory` holds in every reachable state;
* `DocumentsAreContainers`: what `Read` hands out is one container
  (`DocumentIsOneContainer`): its metadata and its archive are those of one version of
  the primary file that was there during the call, each plane beside the document is the
  whole of a file that lay there at some moment of it, together they satisfy
  `IsContainer`, and the source size is the sum of theirs.

The inductive invariant `IInv` says what each check leaves behind for the steps after
it, in terms of the version that was *loaded*, which the layout probe may not have seen:
`DataLoaded` (it was there, and no more of it was taken than the layout may have),
`Opened` (its layout is the one probed, and its archive has passed every check),
`MetaParsed`, `BytesBounded`, `Counted` (which planes are decoded: it is why the five or
seven at the end are all the document names) and `Sourced` (where each came from).
That the entries of an archive together stay within `kMaxZipExpandedBytes` is not one
of its checks: each entry is compared with what is left after those before it, by a
subtraction. `ArchiveFits` adds them up, by induction over the entries: `Inductive`
derives it for a set of numbers from a least element outside of it.

A document whose files are replaced while it is read needs a second invariant, `KInv`,
which says of the version *loaded* what `JInv` below says of the file that is there:
that it opened (`Fitting`), has the layout and the metadata found in it (`Recognized`,
`Understood`), and that each plane is an image its name stands for (`PlanesWhole`,
`BytesWhole`). Nothing in the state records which file a companion was taken from, so
`Accounted` says that there is an assignment of files to planes, all of which lay beside
the document and are no larger than a plane may be, whose sizes add up to the source
size so far; every companion taken extends it by one. The property leaves the assignment
open in the same way: files of one image may differ in size, and the source size is that
of the ones that were read.

Of the calls nobody disturbs - no file is replaced, nothing is refused, the loader keeps
its contract - the answers are proved to be the right ones:

* `ReadsAcceptContainers`: `Read` accepts exactly the containers of either layout, and
  refuses with a reason that is never `internalError` (`ReadAcceptsContainers`);
* `MetadataReadsAgree`: the metadata-only path accepts every container, and nothing that
  is not of the schema, with the same metadata (`MetadataReadAgrees`);
* `RoutingIsSound`: of the containers, the gate of `.sog` claims exactly the bundled ones
  and the gate of `.json` exactly the unbundled ones whose document is no larger than
  `kCanReadPrefixLimit` - 1 MiB, where `Read` takes up to 4 MiB; it claims nothing that
  `Read` then calls another version or no document (`RoutingAgrees`).

The reader checks, in some order, one thing at a time; `IsSchema`, `IsArchive` and
`IsPlane` say at once what is meant. The lemmas between them are equivalences:
`SchemaIsChecked` (`ParseMetaJson` passes exactly the documents of the schema - with
`SafeIsPortable`, that cutting a name at its first dot, trimming it and comparing its
letters is the same as naming no device of any case or extension), `ArchiveIsChecked`
(a sum kept by subtraction against a sum), `PlaneIsChecked`, `SizeIsChecked` and
`PaletteIsChecked`. The invariant `JInv` (theorem `Agreement`), carries their
results to the return: what was probed is what is there (`Probed`, `Archived`, `Found`),
each plane decoded is the only one its name stands for (`PlanesMeant`, `BytesMeant`),
those compared so far are large enough (`LargeEnough`), and an answer given is the one
owed (`Answered`). A refusal is justified by what the *step* saw, so every step has its
own lemma, and a disturbed call is asked for nothing.

Assumptions: `LimitsAssumption`, `SchemaAssumption` (the limits of the schema are natural
numbers), `WorldsAssumption` (replacements are files) and `FilesAssumption`, `IsFile` of
each file: sizes are natural numbers; what begins with the ZIP signature holds its four
bytes and does not begin with a brace, and a document that is an object does; a parsed
document is a tree of values (`IsTree`), as `SogJson` builds them.

### The SOG import

`SogImport_proofs` proves for every set of containers, requests and replacements and
every refused call:

* `Refinement`: an import implements `ImportSpec` (`ImplementsPromise`);
* `StatisticsDescribe`: the statistics are those of the layer and of the version it was
  decoded from (`StatsDescribeLayer`);
* `DegradationIsWarned`: there is a warning exactly when a Gaussian's label has no
  centroid (`DegradedIffWarned`).

As for SPZ, `Content` says what a container means without following the code, and the
lemmas between them are equalities: `PositionIs` (two planes of bytes are a code, the
code a place between two bounds), `RotationIs` (three bytes fall into the slots the tag
leaves, `SlotsAre`, and a radicand that rounding made negative is zero), `CentroidIs`
(the label's row and column are within the palette image), `SignsAre` (the table of
fifteen signs is that of a half turn about x) and `PlaceOf`. `StagesFill` says what
each loop fills and `PartlyGrows` that it leaves the rest, so that after the last the
cloud is `Raw`; `TurnedIsCloud` that the change of frame makes `Content`'s cloud of it.

The reasons to fail are equivalences as well: a loop complains exactly when a position,
scale or rotation is not importable (`StageProblems`, `StagePasses`), the shared gate
exactly when a scale that is used vanishes (`GateStops`), the writer exactly when an
extent overflows (`ExtentIs`, `WriterComplains`), and together they are `Importable`
(`ImportableIs`). A reason is found by one step and stated by another, at the return;
`IInv` (theorem `Invariance`) carries it there: `DocumentRead`, `CloudDecoded` (with
`Passed`, what the loops so far have not complained of), `WorkerDone`, `StatsCollected`
and `RefusalJustified`. TLC checked `IInv` on the instance of `sog_import` before it was
proved.

Assumptions: `DocumentAssumption` (`IsDocument` of each version without a problem: what
`SogReader` has checked, with bytes and numbers of the right kind), `EditAssumption` and
`ValuesAssumption` (a byte has at least the four tags; the smallest, widest and largest
magnitude are in that order). None gives the byte a width.

### The companion search

`SogDocument_proofs` proves for every set of asset paths, every place of `meta.json` -
in a directory or any number of packages deep - every search path and every sequence of
replacements:

* `LoadsTheSibling`: the plane loaded was beside `meta.json` while the call ran, and is
  within the limit (`CompanionIsSibling`);
* `FindsTheSibling`: a call that nothing is refused finds it, unless it was missing or
  too large at some moment (`SiblingIsFound`).

The argument is `NamesTheSibling`: splitting the anchor, cutting its last name off,
appending the plane's and joining the package again is the anchor with its last name
replaced, and that is no bare name, so `ResolvesToTheSibling` never reaches the search
path. The invariant `IInv` carries it from the identifier to the resolved path and the
open asset. Assumption: `CompanionAssumption` (asset paths are sequences of names, no
part of one is empty, and the path of `meta.json` has been resolved: it is more than a
bare name; sizes are natural numbers). Without the last, the search path could supply a
plane.

## 5. Findings

Each is a violation run; PROJECT.json quotes the sentence.

* `ComputeCloudExtent` checks the radius, not `position +- radius`: an infinite
  bound is authored although the header says such a call fails.
* `strtol`'s `long` is cast to `int` before the range check, so `shDegree=4294967297`
  passes as 1.
* The payload is decoded under the layout of another open; a re-exported file of a
  higher degree is imported at the lower one, with the channels of the wrong columns.

Met while modelling, and not given a run: the source size in the statistics of PLY and
SPZ imports comes from one more open of the path (the models let it be that of any
version); the routing gate of an unbundled SOG container declines a `meta.json` of more
than 1 MiB, which `Read` would take up to 4 MiB; `plugins/gaussian-ply/README.md` says a
metadata-only read decodes in full, but `Read` authors it from the header alone.

## 6. Only model-checked

Liveness (`Returns`, `CallReturns`) and the fairness part of the refinements are
TLC's: TLAPS has neither fairness nor ENABLED. So is, on the documents above, that
`SogJson` accepts exactly the JSON documents with their values and that its tree is
bounded (`AcceptsExactlyDocuments`, `BoundedTree`): the documents are a recursive set
and the argument an induction over them, which the installed provers cannot instantiate.

So is `ReplacementIsNoReason` of `SogReader`: the lemmas behind `ReadsAcceptContainers`
are about calls nobody disturbs, and a proof of it needs an invariant that says of every
mixture of the files seen what `JInv` says of the one that is there.

`PlyImportOptions`' `TypeOK` is proved and not run; other modules state no type
invariant of their own where `ImplementsPromise` or a comparison of results fails on
any value of a wrong shape.

## 7. Not modelled

* Real-valued formulas (sigmoid, exponential, square root, colour constants): TLA+ has
  no floating point. They are left as the exact value they are taken of, and modelled
  by what they do to validity. Integer bit arithmetic - half floats, fixed point,
  packed rotations, position codes, palettes - is modelled exactly.
* ZIP and WebP decoding and gzip's bit stream: external. An entry, an image or a stream
  is intact, or broken where the plugins can tell.
* `WriteToFile` and `WriteToString` of the formats: the one refuses, the other hands
  the layer to usda; neither keeps state.
* Logging, message wording and timings: they carry no control.
* The test kit, the benchmark, release and fixture tooling, packaging, and the
  third-party libraries: outside the import path; what the plugins rely on is modelled
  where it is called.

## 8. What would come next

The composition: that what `SpzReader` and `SogReader` hand out satisfies `IsVersion`
and `IsDocument`, and that the options `PlyImport` applies in one step are those of
`PlyImportOptions`, as refinements between the modules rather than as their assumptions.

A proof of `ReplacementIsNoReason`, on `IInv` and `KInv`, with the case of each step that
it refuses nothing that every mixture of the files seen would pass.
