-------------------------- MODULE SogReader_proofs --------------------------
(***************************************************************************)
(* The reader of SOG containers stays within its limits, and a document it *)
(* hands out is one container, of one version of its primary file and of   *)
(* companions that lay beside it: for all files, all replacements between  *)
(* the opens of a call, all values of the limits, and a loader that hands  *)
(* over what it was not asked for.  A call that is left alone gives the    *)
(* answer its files deserve: the checks of the reader accept the documents *)
(* of the schema, the archives within the limits and the planes that are   *)
(* large enough, and nothing else.                                         *)
(***************************************************************************)
EXTENDS SogReader, SequenceTheorems, WellFoundedInduction, TLAPS

(* ---- The inductive invariant ------------------------------------------- *)

Routing  == {"prefix", "gate"}
Loading  == {"probe", "load", "layout", "extract", "parse"}
Decoding == {"plane", "companion", "decode", "check", "palette"}
Before   == {"idle", "prefix", "probe", "load"}
Pcs == {"idle", "return"} \cup Routing \cup Loading \cup Decoding

Types ==
  /\ operation \in Operations /\ pc \in Pcs /\ bundled \in BOOLEAN
  /\ file \in DOMAIN Files /\ beside \in [DOMAIN beside -> DOMAIN Files]
  /\ planes \in Seq(Image)
Watched == file \in seen /\ Beside \subseteq seenBeside
Directed ==
  /\ pc \in Routing => operation \in {"CanReadBundled", "CanReadUnbundled"}
  /\ pc \in Loading => operation \in {"ReadMetadata", "Read"}
  /\ pc \in Decoding => operation = "Read"

(* What is loaded is of a version that was there, and within its limit.    *)
DataLoaded ==
  /\ pc \in Before => data = Nothing
  /\ pc \notin Before \cup {"return"} =>
       /\ data.version \in seen /\ data.version \in DOMAIN Files
       /\ data.length \in Int /\ data.length <= Files[data.version].size
  /\ pc = "gate" =>
       data.length <= IF operation = "CanReadBundled" THEN kZipSignatureSize
                      ELSE kCanReadPrefixLimit
  /\ pc \notin Before \cup {"return", "gate"} => data.length <= MaxBytes(bundled)

(* The layout is that of the version loaded, whatever the probe has seen.  *)
Opened ==
  pc \in {"extract", "parse"} \cup Decoding =>
    /\ Files[data.version].zip = bundled
    /\ bundled => /\ Files[data.version].archive # Nothing
                  /\ ArchiveProblem(Files[data.version]) = NoProblem
    /\ ~bundled => Files[data.version].archive = Nothing
    /\ pc # "extract" => data.version \in DOMAIN DocumentProblem

IsDocument(x) == x \in DOMAIN DocumentProblem /\ DocumentProblem[x] = NoProblem
MetaParsed ==
  pc \in Decoding => IsDocument(data.version) /\ meta = DocumentOf[data.version]

BytesBounded ==
  /\ bytes.length \in Int /\ bytes.length <= kMaxPlaneBytes
  /\ bytes.image \in Seq(Image) /\ Len(bytes.image) <= 1
BytesLoaded ==
  /\ pc = "decode" => BytesBounded
  /\ bytes # Nothing /\ pc # "return" => BytesBounded
PlanesBounded ==
  \A n \in DOMAIN planes : 4 * planes[n].width * planes[n].height <= kMaxPlaneBytes

(* How far the decoding has come.                                          *)
Counted ==
  /\ pc \in {"idle"} \cup Routing \cup Loading => planes = <<>>
  /\ pc \in {"plane", "companion", "decode"} =>
       Len(planes) \in 0 .. 4 \/ (Len(planes) \in {5, 6} /\ meta.shBands # 0)
  /\ pc = "companion" => ~bundled
  /\ pc = "check" => Len(planes) = 5
  /\ pc = "palette" => Len(planes) = 7 /\ meta.shBands # 0

(* Every plane, and the bytes of the next, are of a file of its name.      *)
Holds(entries, name, image) ==
  \E n \in Indices(entries, name) : entries[n].file.image = image
Lay(name, image) == \E s \in seenBeside : s[1] = name /\ Files[s[2]].image = image
Provided(name, image) ==
  IF bundled THEN Holds(Archive, name, image) ELSE Lay(name, image)
AllProvided == \A n \in DOMAIN planes : Provided(meta.files[n], <<planes[n]>>)
Sourced ==
  /\ pc \in Decoding => AllProvided
  /\ pc = "decode" => Provided(PlaneName, bytes.image)

(* A document that is handed out: metadata and archive of one version of   *)
(* the primary file, each of its planes from a file of the plane's name in *)
(* that archive, or beside the document at some moment of the call         *)
(* (SogReader.cpp:177-221,923-961,1132-1164).                              *)
DocumentOfOneVersion ==
  Returned("Read") /\ result = "true" =>
    \E x \in seen :
      /\ IsDocument(x) /\ meta = DocumentOf[x] /\ Files[x].zip = bundled
      /\ DOMAIN planes = DOMAIN meta.files
      /\ \A n \in DOMAIN planes :
           IF bundled THEN Holds(Files[x].archive[1], meta.files[n], <<planes[n]>>)
           ELSE Lay(meta.files[n], <<planes[n]>>)

IInv == /\ Types /\ Watched /\ Directed /\ DataLoaded /\ Opened /\ MetaParsed
        /\ BytesLoaded /\ PlanesBounded /\ Counted /\ Sourced
        /\ DocumentOfOneVersion

(* ---- Sequences of checks ----------------------------------------------- *)

LEMMA HasLeast ==
  ASSUME NEW S, S \subseteq Nat, S # {}
  PROVE  \E x \in S : \A y \in S : x <= y
<1> DEFINE R == OpToRel(<, Nat)
<1>1. R = {p \in Nat \X Nat : p[1] < p[2]}
  BY DEF OpToRel
<1>2. IsWellFoundedOn(R, Nat)
  BY NatLessThanWellFounded
<1> HIDE DEF R
<1>3. PICK x \in S : \A y \in S : ~(<<y, x>> \in R)
  BY <1>2, WFMin
<1>4. \A y \in S : ~(y < x)
  BY <1>1, <1>3
<1> QED BY <1>3, <1>4

LEMMA LeastIsIn ==
  ASSUME NEW S, S \subseteq Nat, S # {}
  PROVE  Min(S) \in S
BY HasLeast DEF Min

(* Without a diagnostic, every check has passed.                           *)
LEMMA EveryCheckPasses ==
  ASSUME NEW codes, DOMAIN codes \subseteq Nat, FirstFailure(codes) = NoProblem
  PROVE  \A n \in DOMAIN codes : codes[n] = NoProblem
<1> DEFINE failing == {n \in DOMAIN codes : codes[n] # NoProblem}
<1>1. SUFFICES ASSUME failing # {} PROVE FALSE
  OBVIOUS
<1>2. PICK x \in failing : \A y \in failing : x <= y
  BY <1>1, HasLeast
<1>3. (CHOOSE n \in failing : \A m \in failing : n <= m) \in failing
  BY <1>2
<1>4. FirstFailure(codes) = codes[CHOOSE n \in failing : \A m \in failing : n <= m]
  BY <1>1 DEF FirstFailure
<1> QED BY <1>3, <1>4

LEMMA Passed ==
  ASSUME NEW fails, NEW code, code # NoProblem, Check(fails, code) = NoProblem
  PROVE  ~fails
BY DEF Check

LEMMA TwoPass ==
  ASSUME NEW a, NEW b, FirstFailure(<<a, b>>) = NoProblem
  PROVE  a = NoProblem /\ b = NoProblem
<1> DEFINE codes == <<a, b>>
<1>1. DOMAIN codes = {1, 2} /\ codes[1] = a /\ codes[2] = b
  OBVIOUS
<1> HIDE DEF codes
<1> QED BY <1>1, EveryCheckPasses DEF codes

(* ---- Loading ----------------------------------------------------------- *)

LEMMA FileFacts ==
  ASSUME NEW x \in DOMAIN Files
  PROVE  IsFile(Files[x]) /\ Files[x].size \in Nat
BY FilesAssumption DEF IsFile, IsContent

(* No loader hands over more than it was asked for, or than there is.      *)
LEMMA LoadIsBounded ==
  ASSUME NEW limit \in Nat, file \in DOMAIN Files, LoadPrimary(limit) = NoProblem
  PROVE  /\ Loaded(limit).version = file /\ Loaded(limit).length \in Int
         /\ Loaded(limit).length <= limit
         /\ Loaded(limit).length <= Files[file].size
<1> DEFINE length == Loaded(limit).length
<1>1. /\ Loaded(limit).version = file
      /\ length = Least(Primary.size, limit) + IF loader = "overreads" THEN 1 ELSE 0
  BY DEF Loaded
<1>2. Primary.size \in Nat /\ Primary = Files[file]
  BY FileFacts DEF Primary
<1>3. length \in Int
  BY <1>1, <1>2 DEF Least
<1>4. Check(length > limit \/ length > Primary.size, "internalError") = NoProblem
  BY TwoPass DEF LoadPrimary
<1>5. ~(length > limit \/ length > Primary.size)
  BY <1>4, Passed DEF NoProblem
<1> QED BY <1>1, <1>2, <1>3, <1>5

(* ---- The archive ------------------------------------------------------- *)

(* Induction, for a set of numbers in place of a predicate.                *)
LEMMA Inductive ==
  ASSUME NEW S, 0 \in S, \A n \in Nat : n \in S => n + 1 \in S
  PROVE  Nat \subseteq S
<1>1. SUFFICES ASSUME Nat \ S # {} PROVE FALSE
  OBVIOUS
<1>2. PICK x \in Nat \ S : \A y \in Nat \ S : x <= y
  BY <1>1, HasLeast
<1>3. x - 1 \in Nat /\ x - 1 \notin Nat \ S
  BY <1>2
<1>4. (x - 1) + 1 = x
  BY <1>2
<1> QED BY <1>2, <1>3, <1>4

IsSum(f, sizes, last) ==
  f = [n \in 0 .. last |-> IF n = 0 THEN 0 ELSE f[n - 1] + sizes[n]]
Sum(sizes, last) == CHOOSE f : IsSum(f, sizes, last)

LEMMA SumExists ==
  ASSUME NEW sizes, NEW last \in Nat
  PROVE  IsSum(Sum(sizes, last), sizes, last)
<1> DEFINE summed == {k \in Nat : \E f : IsSum(f, sizes, k)}
<1>1. 0 \in summed
  <2>1. IsSum([n \in 0 .. 0 |-> 0], sizes, 0)
    BY DEF IsSum
  <2> QED BY <2>1
<1>2. ASSUME NEW k \in Nat, k \in summed
      PROVE  k + 1 \in summed
  <2>1. PICK f : IsSum(f, sizes, k)
    BY <1>2
  <2> DEFINE g == [n \in 0 .. k + 1 |->
                     IF n = k + 1 THEN f[k] + sizes[n] ELSE f[n]]
             h == [n \in 0 .. k + 1 |->
                     IF n = 0 THEN 0 ELSE g[n - 1] + sizes[n]]
  <2>2. ASSUME NEW n \in 0 .. k + 1
        PROVE  g[n] = h[n]
    <3>1. \A m \in 0 .. k : f[m] = IF m = 0 THEN 0 ELSE f[m - 1] + sizes[m]
      BY <2>1 DEF IsSum
    <3>2. CASE n = k + 1
      BY <3>2
    <3>3. CASE n # k + 1 /\ n = 0
      BY <3>1, <3>3
    <3>4. CASE n # k + 1 /\ n # 0
      <4>1. n \in 0 .. k /\ n - 1 \in 0 .. k + 1 /\ n - 1 # k + 1
        BY <3>4
      <4>2. g[n] = f[n] /\ g[n - 1] = f[n - 1]
        BY <3>4, <4>1
      <4>3. h[n] = g[n - 1] + sizes[n]
        BY <3>4
      <4> HIDE DEF g, h
      <4> QED BY <3>1, <3>4, <4>1, <4>2, <4>3
    <3> QED BY <3>2, <3>3, <3>4
  <2>3. g = h
    BY <2>2
  <2>4. IsSum(g, sizes, k + 1)
    BY <2>3 DEF IsSum
  <2> QED BY <2>4
<1> HIDE DEF summed
<1>3. last \in summed
  BY <1>1, <1>2, Inductive
<1> QED BY <1>3 DEF summed, Sum

LEMMA SumsAgree ==
  ASSUME NEW sizes, NEW f, NEW g, NEW k \in Nat,
         IsSum(f, sizes, k), IsSum(g, sizes, k + 1)
  PROVE  f[k] = g[k]
<1> DEFINE equal == {n \in Nat : n <= k => f[n] = g[n]}
<1>1. \A n \in 0 .. k : /\ f[n] = IF n = 0 THEN 0 ELSE f[n - 1] + sizes[n]
                        /\ g[n] = IF n = 0 THEN 0 ELSE g[n - 1] + sizes[n]
  BY DEF IsSum
<1>2. 0 \in equal
  BY <1>1
<1>3. ASSUME NEW n \in Nat, n \in equal
      PROVE  n + 1 \in equal
  <2>1. SUFFICES ASSUME n + 1 <= k PROVE f[n + 1] = g[n + 1]
    OBVIOUS
  <2>2. n + 1 \in 0 .. k /\ n + 1 # 0 /\ (n + 1) - 1 = n /\ n <= k
    BY <2>1
  <2> QED BY <1>1, <1>3, <2>2
<1> HIDE DEF equal
<1>4. k \in equal
  BY <1>2, <1>3, Inductive
<1> QED BY <1>4 DEF equal

LEMMA TotalIsSum ==
  ASSUME NEW sizes, NEW last \in Nat
  PROVE  Total(sizes, last) = Sum(sizes, last)[last]
BY DEF Total, Sum, IsSum

(* One more.                                                               *)
LEMMA TotalGrows ==
  ASSUME NEW sizes, NEW k \in Nat
  PROVE  /\ Total(sizes, 0) = 0
         /\ Total(sizes, k + 1) = Total(sizes, k) + sizes[k + 1]
<1>1. Total(sizes, 0) = 0
  BY SumExists, TotalIsSum DEF IsSum
<1> DEFINE f == Sum(sizes, k)
           g == Sum(sizes, k + 1)
<1>2. IsSum(f, sizes, k) /\ IsSum(g, sizes, k + 1)
  BY SumExists
<1>3. Total(sizes, k) = f[k] /\ Total(sizes, k + 1) = g[k + 1]
  BY TotalIsSum
<1> HIDE DEF f, g
<1>4. f[k] = g[k]
  BY <1>2, SumsAgree
<1>5. g[k + 1] = g[k] + sizes[k + 1]
  BY <1>2 DEF IsSum
<1> QED BY <1>1, <1>3, <1>4, <1>5

(* What is beyond the last does not count.                                 *)
LEMMA TotalsAgree ==
  ASSUME NEW sizes, NEW others, NEW k \in Nat, \A n \in 1 .. k : sizes[n] = others[n]
  PROVE  Total(sizes, k) = Total(others, k)
<1> DEFINE equal == {n \in Nat : n <= k => Total(sizes, n) = Total(others, n)}
<1>1. 0 \in equal
  BY TotalGrows
<1>2. ASSUME NEW n \in Nat, n \in equal
      PROVE  n + 1 \in equal
  <2>1. SUFFICES ASSUME n + 1 <= k PROVE Total(sizes, n + 1) = Total(others, n + 1)
    OBVIOUS
  <2>2. n + 1 \in 1 .. k /\ Total(sizes, n) = Total(others, n)
    BY <1>2, <2>1
  <2>3. /\ Total(sizes, n + 1) = Total(sizes, n) + sizes[n + 1]
        /\ Total(others, n + 1) = Total(others, n) + others[n + 1]
    BY TotalGrows
  <2> QED BY <2>2, <2>3
<1> HIDE DEF equal
<1>3. k \in equal
  BY <1>1, <1>2, Inductive
<1> QED BY <1>3 DEF equal

(* A total of natural numbers is one.                                     *)
LEMMA TotalIsNat ==
  ASSUME NEW sizes, NEW k \in Nat, \A n \in 1 .. k : sizes[n] \in Nat
  PROVE  Total(sizes, k) \in Nat
<1> DEFINE natural == {n \in Nat : n <= k => Total(sizes, n) \in Nat}
<1>1. 0 \in natural
  BY TotalGrows
<1>2. ASSUME NEW n \in Nat, n \in natural
      PROVE  n + 1 \in natural
  <2>1. SUFFICES ASSUME n + 1 <= k PROVE Total(sizes, n + 1) \in Nat
    OBVIOUS
  <2>2. sizes[n + 1] \in Nat /\ Total(sizes, n) \in Nat
    BY <1>2, <2>1
  <2>3. Total(sizes, n + 1) = Total(sizes, n) + sizes[n + 1]
    BY TotalGrows
  <2> QED BY <2>2, <2>3
<1> HIDE DEF natural
<1>3. k \in natural
  BY <1>1, <1>2, Inductive
<1> QED BY <1>3 DEF natural

(* One entry more.                                                         *)
LEMMA ExpandedGrows ==
  ASSUME NEW entries, NEW k \in Nat
  PROVE  /\ Expanded(entries, 0) = 0
         /\ k + 1 \in DOMAIN entries =>
              Expanded(entries, k + 1) = Expanded(entries, k) + Size(entries[k + 1])
<1> DEFINE sizes == [n \in DOMAIN entries |-> Size(entries[n])]
<1>1. \A n : Expanded(entries, n) = Total(sizes, n)
  BY DEF Expanded
<1>2. k + 1 \in DOMAIN entries => sizes[k + 1] = Size(entries[k + 1])
  OBVIOUS
<1> HIDE DEF sizes
<1> QED BY <1>1, <1>2, TotalGrows

LEMMA EntryFits ==
  ASSUME NEW entries, NEW n \in Nat, ~entries[n].directory,
         EntryProblem(entries, n) = NoProblem
  PROVE  ~(Size(entries[n]) > kMaxZipExpandedBytes - Expanded(entries, n - 1))
<1> DEFINE a == Check(~entries[n].readable, "malformedArchive")
           b == Check(Size(entries[n]) > kMaxPlaneBytes, "importLimitExceeded")
           c == Check(Size(entries[n]) > kMaxZipExpandedBytes - Expanded(entries, n - 1),
                      "importLimitExceeded")
           d == Check(\E m \in 1 .. n - 1 :
                        ~entries[m].directory /\ entries[m].name = entries[n].name,
                      "malformedArchive")
           codes == <<a, b, c, d>>
<1>1. FirstFailure(codes) = NoProblem
  BY DEF EntryProblem
<1>2. c = NoProblem
  <2>1. DOMAIN codes = 1 .. 4 /\ codes[3] = c
    OBVIOUS
  <2> HIDE DEF codes, a, b, c, d
  <2> QED BY <1>1, <2>1, EveryCheckPasses
<1> QED BY <1>2, Passed DEF NoProblem

LEMMA ArchiveFits ==
  ASSUME NEW content, IsFile(content), content.archive # Nothing,
         ArchiveProblem(content) = NoProblem
  PROVE  LET entries == content.archive[1] IN
         Expanded(entries, Len(entries)) <= kMaxZipExpandedBytes
<1> DEFINE entries == content.archive[1]
           codes == [n \in DOMAIN entries |-> EntryProblem(entries, n)]
           Fits(k) == /\ Expanded(entries, k) \in Nat
                      /\ Expanded(entries, k) <= kMaxZipExpandedBytes
           fitting == {k \in Nat : k <= Len(entries) => Fits(k)}
<1>1. /\ Len(entries) \in Nat /\ DOMAIN entries = 1 .. Len(entries)
      /\ \A n \in DOMAIN entries :
           entries[n].directory \in BOOLEAN /\ Size(entries[n]) \in Nat
  BY DEF IsFile, IsContent, Size, Nothing
<1>2. FirstFailure(codes) = NoProblem
  BY DEF ArchiveProblem, NoProblem
<1>3. \A n \in DOMAIN entries : EntryProblem(entries, n) = NoProblem
  <2>1. DOMAIN codes = DOMAIN entries
        /\ \A n \in DOMAIN entries : codes[n] = EntryProblem(entries, n)
    OBVIOUS
  <2>2. DOMAIN codes \subseteq Nat
    BY <1>1, <2>1
  <2> HIDE DEF codes
  <2> QED BY <1>2, <2>1, <2>2, EveryCheckPasses
<1>4. 0 \in fitting
  BY ExpandedGrows, LimitsAssumption
<1>5. ASSUME NEW k \in Nat, k \in fitting
      PROVE  k + 1 \in fitting
  <2> SUFFICES ASSUME k + 1 <= Len(entries) PROVE Fits(k + 1)
    OBVIOUS
  <2>1. k + 1 \in DOMAIN entries /\ (k + 1) - 1 = k /\ Fits(k)
    BY <1>1, <1>5
  <2>2. Expanded(entries, k + 1) = Expanded(entries, k) + Size(entries[k + 1])
    BY <2>1, ExpandedGrows
  <2>3. CASE entries[k + 1].directory
    <3>1. Size(entries[k + 1]) = 0
      BY <2>3 DEF Size
    <3> QED BY <2>1, <2>2, <3>1
  <2>4. CASE ~entries[k + 1].directory
    <3>1. ~(Size(entries[k + 1]) > kMaxZipExpandedBytes - Expanded(entries, k))
      BY <1>3, <2>1, <2>4, EntryFits
    <3>2. Size(entries[k + 1]) \in Nat /\ kMaxZipExpandedBytes \in Nat
      BY <1>1, <2>1, LimitsAssumption
    <3> HIDE DEF entries
    <3> QED BY <2>1, <2>2, <3>1, <3>2
  <2> QED BY <2>3, <2>4
<1> HIDE DEF fitting
<1>6. Len(entries) \in fitting
  BY <1>1, <1>4, <1>5, Inductive
<1> QED BY <1>6 DEF fitting

(* What is extracted is a file of that name, and fits.                     *)
LEMMA Extracted ==
  ASSUME NEW entries, NEW name, DOMAIN entries \subseteq Nat,
         Indices(entries, name) # {}
  PROVE  \E n \in Indices(entries, name) :
           n \in DOMAIN entries /\ ~entries[n].directory /\ Entry(entries, name) = entries[n]
<1>1. Indices(entries, name) \subseteq DOMAIN entries
      /\ \A n \in Indices(entries, name) : ~entries[n].directory
  BY DEF Indices
<1>2. Min(Indices(entries, name)) \in Indices(entries, name)
  BY <1>1, LeastIsIn
<1> QED BY <1>1, <1>2 DEF Entry

LEMMA ExtractFits ==
  ASSUME NEW name, NEW code, code # NoProblem,
         ExtractProblem(name, code) = NoProblem
  PROVE  Has(name) /\ ~(Size(Entry(Archive, name)) > kMaxPlaneBytes)
<1>1. Has(name)
  BY DEF ExtractProblem
<1> DEFINE a == Check(Size(Entry(Archive, name)) > kMaxPlaneBytes, "importLimitExceeded")
           b == Check(Size(Entry(Archive, name)) > 0 /\ ~Entry(Archive, name).intact,
                      "malformedArchive")
<1>2. FirstFailure(<<a, b>>) = NoProblem
  BY <1>1 DEF ExtractProblem
<1>3. a = NoProblem
  <2> HIDE DEF a, b
  <2> QED BY <1>2, TwoPass
<1> QED BY <1>1, <1>3, Passed DEF NoProblem

(* ---- The planes -------------------------------------------------------- *)

LEMMA PlaneFits ==
  ASSUME BytesBounded, PlaneProblem = NoProblem
  PROVE  /\ Len(bytes.image) = 1 /\ bytes.image = <<bytes.image[1]>>
         /\ 4 * bytes.image[1].width * bytes.image[1].height <= kMaxPlaneBytes
<1> DEFINE image == bytes.image[1]
           area == 4 * image.width * image.height
           a == Check(~image.lossless, "malformedPlane")
           b == Check(image.width = 0 \/ image.height = 0, "malformedPlane")
           c == Check(image.width > kMaxPlaneDimension \/ image.height > kMaxPlaneDimension,
                      "importLimitExceeded")
           d == Check(area > kMaxPlaneBytes, "importLimitExceeded")
           e == Check(~image.intact, "malformedPlane")
           codes == <<a, b, c, d, e>>
<1>1. bytes.image # Nothing /\ FirstFailure(codes) = NoProblem
  BY DEF PlaneProblem, NoProblem
<1>2. /\ bytes.image \in Seq(Image) /\ Len(bytes.image) = 1 /\ image \in Image
      /\ bytes.image = <<image>>
  <2>1. bytes.image \in Seq(Image) /\ Len(bytes.image) \in Nat \ {0} /\ Len(bytes.image) <= 1
    BY <1>1, EmptySeq DEF BytesBounded, Nothing
  <2>2. Len(bytes.image) = 1
    <3>1. \A k \in Nat \ {0} : k <= 1 => k = 1
      OBVIOUS
    <3> HIDE DEF codes, image
    <3> QED BY <2>1, <3>1, Zenon
  <2>3. image \in Image
    BY <2>1, <2>2, ElementOfSeq
  <2>4. <<image>> \in Seq(Image) /\ Len(<<image>>) = 1 /\ <<image>>[1] = image
    BY <2>3
  <2> HIDE DEF image
  <2>5. \A n \in 1 .. 1 : bytes.image[n] = <<image>>[n]
    BY <2>4 DEF image
  <2> QED BY <2>1, <2>2, <2>3, <2>4, <2>5, SeqEqual
<1>3. d = NoProblem
  <2>1. DOMAIN codes = 1 .. 5 /\ codes[4] = d
    OBVIOUS
  <2> HIDE DEF codes, a, b, c, d, e
  <2> QED BY <1>1, <2>1, EveryCheckPasses
<1>4. ~(area > kMaxPlaneBytes)
  BY <1>3, Passed DEF NoProblem
<1>5. area \in Nat /\ kMaxPlaneBytes \in Nat
  <2>1. \A w, h \in Nat : 4 * w * h \in Nat
    OBVIOUS
  <2>2. image.width \in Nat /\ image.height \in Nat
    BY <1>2 DEF Image
  <2> QED BY <2>1, <2>2, LimitsAssumption
<1> QED BY <1>2, <1>4, <1>5

(* ---- The metadata ------------------------------------------------------ *)

LEMMA ShNHasBands ==
  ASSUME NEW root, HasShN(root), ShNProblem(root) = NoProblem
  PROVE  Integer(Member(root, "shN"), "bands") \in 1 .. 3
<1> DEFINE shN == Member(root, "shN")
           a == Check(shN.type # "object", "malformedMetadata")
           b == RequireIntegral(shN, "bands", "invalidShBands")
           c == Check(Integer(shN, "bands") \notin 1 .. 3, "invalidShBands")
           d == RequireIntegral(shN, "count", "malformedMetadata")
           e == Check(Integer(shN, "count") \notin 0 .. kFormatMaxGaussianCount,
                      "malformedMetadata")
           f == RequireFloatArray(shN, "codebook", kCodebookSize, "invalidCodebook")
           g == RequireFiles(shN, 2)
           codes == <<a, b, c, d, e, f, g>>
<1>1. FirstFailure(codes) = NoProblem
  BY DEF ShNProblem
<1>2. c = NoProblem
  <2>1. DOMAIN codes = 1 .. 7 /\ codes[3] = c
    OBVIOUS
  <2> HIDE DEF codes, a, b, c, d, e, f, g
  <2> QED BY <1>1, <2>1, EveryCheckPasses
<1> QED BY <1>2, Passed DEF NoProblem

LEMMA PlanesOf ==
  ASSUME NEW content, MetaProblem(content) = NoProblem
  PROVE  LET m == MetaDocument(content.json[1]) IN
         DOMAIN m.files = 1 .. IF m.shBands = 0 THEN 5 ELSE 7
<1> DEFINE root == content.json[1]
           m == MetaDocument(root)
<1>1. ParseMetaJson(root) = NoProblem
  BY DEF MetaProblem, NoProblem
<1>2. ShNProblem(root) = NoProblem
  BY <1>1, TwoPass DEF ParseMetaJson
<1>3. m.files = PlaneNames(root)
      /\ m.shBands = IF HasShN(root) THEN Integer(Member(root, "shN"), "bands") ELSE 0
  BY DEF MetaDocument
<1>4. DOMAIN PlaneNames(root) = 1 .. IF HasShN(root) THEN 7 ELSE 5
  BY DEF PlaneNames
<1> QED BY <1>2, <1>3, <1>4, ShNHasBands

LEMMA DocumentFacts ==
  ASSUME NEW x, IsDocument(x)
  PROVE  /\ x \in DOMAIN Files
         /\ DOMAIN DocumentOf[x].files = 1 .. IF DocumentOf[x].shBands = 0 THEN 5 ELSE 7
<1>1. x \in DOMAIN Files /\ MetaProblem(MetaFile(Files[x])) = NoProblem
  BY DEF IsDocument, DocumentProblem
<1>2. DocumentOf[x] = MetaDocument(MetaFile(Files[x]).json[1])
  BY DEF IsDocument, DocumentOf
<1> QED BY <1>1, <1>2, PlanesOf

(* ---- The steps of a call ----------------------------------------------- *)

LEMMA InitIInv == Init => IInv
<1> SUFFICES ASSUME Init PROVE IInv
  OBVIOUS
<1> USE DEF Pcs, Routing, Loading, Decoding, Before
<1>1. /\ pc = "idle" /\ operation = "Read" /\ bundled = FALSE /\ data = Nothing
      /\ bytes = Nothing /\ planes = <<>>
  BY DEF Init
<1>2. file \in DOMAIN Files /\ beside \in [DOMAIN beside -> DOMAIN Files]
  BY WorldsAssumption DEF Init
<1>3. Types
  BY <1>1, <1>2, EmptySeq DEF Types, Operations
<1>4. Watched
  BY DEF Init, Watched
<1>5. Directed /\ DataLoaded /\ Opened /\ MetaParsed
  BY <1>1 DEF Directed, DataLoaded, Opened, MetaParsed
<1>6. BytesLoaded /\ PlanesBounded /\ Counted /\ Sourced /\ DocumentOfOneVersion
  BY <1>1 DEF BytesLoaded, PlanesBounded, Counted, Sourced, DocumentOfOneVersion, Returned
<1> QED BY <1>3, <1>4, <1>5, <1>6 DEF IInv

(* What a replaced file disturbs: more has been there, and nothing less.   *)
LEMMA Replacing ==
  ASSUME IInv, Quiet, seen \subseteq seen', seenBeside \subseteq seenBeside',
         file' \in DOMAIN Files, file' \in seen',
         beside' \in [DOMAIN beside' -> DOMAIN Files], Beside' \subseteq seenBeside'
  PROVE  IInv'
<1> USE DEF IInv
<1>1. UNCHANGED <<operation, pc, result, error, bundled, data, bytes, meta, planes,
                  sourceBytes, fault>>
  BY DEF Quiet, document
<1>2. Types' /\ Watched'
  BY <1>1 DEF Types, Watched
<1>3. Directed' /\ Opened' /\ MetaParsed'
  BY <1>1 DEF Directed, Opened, MetaParsed
<1>4. DataLoaded'
  BY <1>1 DEF DataLoaded, MaxBytes
<1>5. BytesLoaded' /\ PlanesBounded' /\ Counted'
  BY <1>1 DEF BytesLoaded, BytesBounded, PlanesBounded, Counted
<1>6. \A name, image : Lay(name, image) => Lay(name, image)'
  BY DEF Lay
<1>7. \A name, image : Provided(name, image) => Provided(name, image)'
  BY <1>1, <1>6 DEF Provided, Archive
<1>8. Sourced'
  BY <1>1, <1>7 DEF Sourced, AllProvided, PlaneName
<1>9. DocumentOfOneVersion'
  BY <1>1, <1>6 DEF DocumentOfOneVersion, Returned
<1> QED BY <1>2, <1>3, <1>4, <1>5, <1>8, <1>9

LEMMA EditFileStep == IInv /\ EditFile => IInv'
<1> SUFFICES ASSUME IInv, EditFile PROVE IInv'
  OBVIOUS
<1>1. Quiet /\ seen \subseteq seen' /\ UNCHANGED <<beside, seenBeside>>
      /\ file' \in DOMAIN Files /\ file' \in seen'
  BY WorldsAssumption DEF EditFile
<1>2. beside' \in [DOMAIN beside' -> DOMAIN Files] /\ Beside' \subseteq seenBeside'
  BY <1>1 DEF IInv, Types, Watched, Beside
<1> QED BY <1>1, <1>2, Replacing

LEMMA EditCompanionStep == IInv /\ EditCompanion => IInv'
<1> SUFFICES ASSUME IInv, EditCompanion PROVE IInv'
  OBVIOUS
<1>1. PICK edit \in EditCompanions :
        /\ edit[1] \in DOMAIN beside
        /\ beside' = [beside EXCEPT ![edit[1]] = edit[2]]
        /\ seenBeside' = seenBeside \cup {edit}
  BY DEF EditCompanion
<1>2. Quiet /\ UNCHANGED <<file, seen>>
  BY DEF EditCompanion
<1>3. edit = <<edit[1], edit[2]>> /\ edit[2] \in DOMAIN Files
  BY WorldsAssumption
<1>4. /\ beside \in [DOMAIN beside -> DOMAIN Files] /\ Beside \subseteq seenBeside
      /\ file \in DOMAIN Files /\ file \in seen
  BY DEF IInv, Types, Watched
<1>5. /\ beside' \in [DOMAIN beside -> DOMAIN Files] /\ DOMAIN beside' = DOMAIN beside
      /\ \A name \in DOMAIN beside :
           beside'[name] = IF name = edit[1] THEN edit[2] ELSE beside[name]
  BY <1>1, <1>3, <1>4
<1>6. Beside' \subseteq seenBeside'
  BY <1>1, <1>3, <1>4, <1>5 DEF Beside
<1> QED BY <1>1, <1>2, <1>4, <1>5, <1>6, Replacing

(* A call that ends without a document.                                    *)
LEMMA SameWorld ==
  ASSUME IInv, UNCHANGED world
  PROVE  /\ Watched' /\ file' \in DOMAIN Files /\ UNCHANGED <<file, beside, seen, seenBeside>>
         /\ beside' \in [DOMAIN beside' -> DOMAIN Files]
BY DEF IInv, Types, Watched, Beside, world

LEMMA Ending ==
  ASSUME IInv, UNCHANGED <<world, operation>>, bundled' \in BOOLEAN,
         planes' \in Seq(Image), PlanesBounded',
         pc' = "return", result' # "true" \/ operation # "Read"
  PROVE  IInv'
<1> USE DEF Pcs, Routing, Loading, Decoding, Before
<1>1. Types' /\ Watched'
  BY SameWorld DEF IInv, Types
<1>2. Directed' /\ DataLoaded' /\ Opened' /\ MetaParsed' /\ BytesLoaded' /\ Counted'
      /\ Sourced' /\ DocumentOfOneVersion'
  BY DEF Directed, DataLoaded, Opened, MetaParsed, BytesLoaded, Counted, Sourced,
         DocumentOfOneVersion, Returned
<1> QED BY <1>1, <1>2 DEF IInv

LEMMA Failing ==
  ASSUME IInv, UNCHANGED <<world, operation, planes>>, bundled' \in BOOLEAN,
         pc' = "return", result' # "true" \/ operation # "Read"
  PROVE  IInv'
<1>1. planes' \in Seq(Image) /\ PlanesBounded'
  BY DEF IInv, Types, PlanesBounded
<1> QED BY <1>1, Ending

(* A call that goes on before anything is decoded.                         *)
Early == {"idle", "prefix", "gate", "probe", "load", "layout", "extract", "parse"}
LEMMA GoingOn ==
  ASSUME IInv, UNCHANGED <<world, bytes, planes>>, pc \in Early, pc' \in Early,
         operation' \in Operations, bundled' \in BOOLEAN, Directed', DataLoaded', Opened'
  PROVE  IInv'
<1> USE DEF Pcs, Routing, Loading, Decoding, Before, Early
<1>1. Types' /\ Watched'
  BY SameWorld DEF IInv, Types
<1>2. MetaParsed' /\ Sourced' /\ DocumentOfOneVersion' /\ Counted'
  BY DEF IInv, MetaParsed, Sourced, DocumentOfOneVersion, Returned, Counted
<1>3. BytesLoaded' /\ PlanesBounded'
  BY DEF IInv, BytesLoaded, BytesBounded, PlanesBounded
<1> QED BY <1>1, <1>2, <1>3 DEF IInv

LEMMA CallStep == IInv /\ Call => IInv'
<1> SUFFICES ASSUME IInv, Call PROVE IInv'
  OBVIOUS
<1> USE DEF Pcs, Routing, Loading, Decoding, Before, Early
<1>1. /\ pc = "idle" /\ operation' \in Operations
      /\ pc' = IF operation' \in {"ReadMetadata", "Read"} THEN "probe" ELSE "prefix"
      /\ UNCHANGED <<world, bundled, data, bytes, planes>>
  BY DEF Call, document
<1>2. Directed' /\ Opened' /\ DataLoaded'
  BY <1>1 DEF IInv, Directed, Opened, DataLoaded, Operations
<1> QED BY <1>1, <1>2, GoingOn DEF IInv, Types

LEMMA ReadPrefixStep == IInv /\ ReadPrefix => IInv'
<1> SUFFICES ASSUME IInv, ReadPrefix PROVE IInv'
  OBVIOUS
<1> DEFINE limit == IF operation = "CanReadBundled" THEN kZipSignatureSize
                    ELSE kCanReadPrefixLimit
<1>1. /\ pc = "prefix" /\ limit \in Nat /\ file \in DOMAIN Files
      /\ operation \in Operations /\ bundled \in BOOLEAN
      /\ UNCHANGED <<world, operation, bundled, bytes, planes>>
  BY LimitsAssumption DEF ReadPrefix, IInv, Types, kZipSignatureSize, document
<1>2. CASE LoadPrimary(limit) # NoProblem
  <2>1. pc' = "return" /\ result' = "false"
    BY <1>2 DEF ReadPrefix, Fail
  <2> QED BY <1>1, <2>1, Failing
<1>3. CASE LoadPrimary(limit) = NoProblem
  <2>1. pc' = "gate" /\ data' = Loaded(limit)
    BY <1>3 DEF ReadPrefix, Continue
  <2>2. /\ data'.version = file /\ data'.length \in Int /\ data'.length <= limit
        /\ data'.length <= Files[file].size
    BY <1>1, <1>3, <2>1, LoadIsBounded
  <2>3. file \in seen' /\ file \in DOMAIN Files
    BY <1>1, SameWorld DEF IInv, Watched
  <2>4. Directed' /\ Opened' /\ DataLoaded'
    BY <1>1, <2>1, <2>2, <2>3
    DEF IInv, Directed, Opened, DataLoaded, Routing, Loading, Decoding, Before
  <2> QED BY <1>1, <2>1, <2>4, GoingOn DEF Early
<1> QED BY <1>2, <1>3

LEMMA GateStep == IInv /\ Gate => IInv'
<1> SUFFICES ASSUME IInv, Gate PROVE IInv'
  OBVIOUS
<1>1. /\ pc = "gate" /\ operation # "Read" /\ bundled \in BOOLEAN
      /\ UNCHANGED <<world, operation, bundled, planes>> /\ pc' = "return"
  BY DEF Gate, Answer, Fail, Succeed, IInv, Types, Directed, Routing, document
<1> QED BY <1>1, Failing

LEMMA ProbeLayoutStep == IInv /\ ProbeLayout => IInv'
<1> SUFFICES ASSUME IInv, ProbeLayout PROVE IInv'
  OBVIOUS
<1>1. /\ pc = "probe" /\ file \in DOMAIN Files /\ bundled \in BOOLEAN
      /\ operation \in Operations
      /\ UNCHANGED <<world, operation, data, bytes, planes>>
  BY DEF ProbeLayout, IInv, Types, document
<1>2. bundled' \in BOOLEAN
  <2>1. bundled' = bundled \/ bundled' = HasZipSignature(Loaded(kZipSignatureSize))
    BY DEF ProbeLayout
  <2>2. HasZipSignature(Loaded(kZipSignatureSize)) \in BOOLEAN
    <3>1. Loaded(kZipSignatureSize).version = file
      BY DEF Loaded
    <3>2. Files[file].zip \in BOOLEAN
      BY <1>1, FileFacts DEF IsFile
    <3> QED BY <3>1, <3>2 DEF HasZipSignature
  <2> QED BY <1>1, <2>1, <2>2
<1>3. pc' = "load" \/ (pc' = "return" /\ result' = "false")
  BY DEF ProbeLayout, Fail, FailOr, Continue
<1>4. CASE pc' = "return" /\ result' = "false"
  BY <1>1, <1>2, <1>4, Failing
<1>5. CASE pc' = "load"
  <2>1. Directed' /\ Opened' /\ DataLoaded'
    BY <1>1, <1>5
    DEF IInv, Directed, Opened, DataLoaded, Routing, Loading, Decoding, Before
  <2> QED BY <1>1, <1>2, <1>5, <2>1, GoingOn DEF Early
<1> QED BY <1>3, <1>4, <1>5

LEMMA LoadContainerStep == IInv /\ LoadContainer => IInv'
<1> SUFFICES ASSUME IInv, LoadContainer PROVE IInv'
  OBVIOUS
<1>1. /\ pc = "load" /\ file \in DOMAIN Files /\ bundled \in BOOLEAN
      /\ operation \in Operations /\ MaxBytes(bundled) \in Nat
      /\ UNCHANGED <<world, operation, bundled, bytes, planes>>
  BY LimitsAssumption DEF LoadContainer, IInv, Types, MaxBytes, document
<1>2. CASE pc' = "return" /\ result' = "false"
  BY <1>1, <1>2, Failing
<1>3. CASE ~(pc' = "return" /\ result' = "false")
  <2>1. LoadPrimary(MaxBytes(bundled)) = NoProblem
        /\ data' = Loaded(MaxBytes(bundled)) /\ pc' = "layout"
    BY <1>3 DEF LoadContainer, FailOr, Fail, Continue
  <2>2. /\ data'.version = file /\ data'.length \in Int
        /\ data'.length <= MaxBytes(bundled) /\ data'.length <= Files[file].size
    BY <1>1, <2>1, LoadIsBounded
  <2>3. file \in seen' /\ file \in DOMAIN Files
    BY <1>1, SameWorld DEF IInv, Watched
  <2>4. Directed' /\ Opened'
    BY <1>1, <2>1 DEF IInv, Directed, Opened, Routing, Loading, Decoding
  <2>5. DataLoaded'
    BY <1>1, <2>1, <2>2, <2>3 DEF DataLoaded, Before, MaxBytes
  <2> QED BY <1>1, <2>1, <2>4, <2>5, GoingOn DEF Early
<1> QED BY <1>2, <1>3

(* From here on the loaded bytes stay.                                     *)
LEMMA DataStays ==
  ASSUME IInv, UNCHANGED <<world, operation, data, bundled>>,
         pc \notin Before \cup {"return", "gate"}, pc' \notin Before \cup {"gate"}
  PROVE  /\ DataLoaded'
         /\ data.version \in seen /\ data.version \in DOMAIN Files /\ data.version' = data.version
BY SameWorld DEF IInv, DataLoaded, MaxBytes

LEMMA OpenLayoutStep == IInv /\ OpenLayout => IInv'
<1> SUFFICES ASSUME IInv, OpenLayout PROVE IInv'
  OBVIOUS
<1> DEFINE content == Files[data.version]
<1>1. /\ pc = "layout" /\ bundled \in BOOLEAN /\ operation \in Operations
      /\ operation \in {"ReadMetadata", "Read"}
      /\ UNCHANGED <<world, operation, bundled, data, bytes, planes>>
  BY DEF OpenLayout, IInv, Types, Directed, Loading, document
<1>2. CASE pc' = "return" /\ result' = "false"
  BY <1>1, <1>2, Failing
<1>3. CASE ~(pc' = "return" /\ result' = "false")
  <2>1. /\ bundled => ArchiveProblem(content) = NoProblem /\ pc' = "extract"
        /\ ~bundled => content.brace /\ pc' = "parse"
    BY <1>1, <1>3 DEF OpenLayout, FailOr, Fail, Continue, Check, NoProblem
  <2>2. /\ DataLoaded' /\ data.version \in DOMAIN Files /\ IsFile(content)
        /\ data'.version = data.version
    BY <1>1, <2>1, DataStays, FileFacts DEF Before
  <2>3. bundled => content.archive # Nothing /\ content.zip
    <3>1. bundled => content.archive # Nothing
      BY <2>1 DEF ArchiveProblem, NoProblem
    <3> QED BY <2>2, <3>1 DEF IsFile, Nothing
  <2>4. ~bundled => content.archive = Nothing /\ ~content.zip
    BY <2>1, <2>2 DEF IsFile, Nothing
  <2>5. ~bundled => data.version \in DOMAIN DocumentProblem
    BY <2>2, <2>4 DEF DocumentProblem, HoldsDocument
  <2>6. content.zip = bundled
    BY <1>1, <2>2, <2>3, <2>4 DEF IsFile
  <2>7. Opened'
    BY <1>1, <2>1, <2>2, <2>3, <2>4, <2>5, <2>6 DEF Opened
  <2>8. Directed'
    BY <1>1, <2>1 DEF Directed, Routing, Loading, Decoding
  <2> QED BY <1>1, <2>1, <2>2, <2>7, <2>8, GoingOn DEF Early
<1> QED BY <1>2, <1>3

LEMMA ExtractMetadataStep == IInv /\ ExtractMetadata => IInv'
<1> SUFFICES ASSUME IInv, ExtractMetadata PROVE IInv'
  OBVIOUS
<1>1. /\ pc = "extract" /\ bundled \in BOOLEAN /\ operation \in Operations
      /\ operation \in {"ReadMetadata", "Read"}
      /\ UNCHANGED <<world, operation, bundled, data, bytes, planes>>
  BY DEF ExtractMetadata, IInv, Types, Directed, Loading, document
<1>2. CASE pc' = "return" /\ result' = "false"
  BY <1>1, <1>2, Failing
<1>3. CASE ~(pc' = "return" /\ result' = "false")
  <2>1. ExtractProblem(kMetaEntryName, "notSogContainer") = NoProblem /\ pc' = "parse"
    BY <1>3 DEF ExtractMetadata, FailOr, Fail, Continue
  <2>2. /\ DataLoaded' /\ data.version \in DOMAIN Files /\ data'.version = data.version
    BY <1>1, <2>1, DataStays DEF Before
  <2>3. Has(kMetaEntryName)
    BY <2>1, ExtractFits DEF NoProblem
  <2>4. data.version \in DOMAIN DocumentProblem
    BY <2>2, <2>3 DEF DocumentProblem, HoldsDocument, Has, Archive
  <2>5. Opened'
    BY <1>1, <2>1, <2>2, <2>4 DEF IInv, Opened
  <2>6. Directed'
    BY <1>1, <2>1 DEF Directed, Routing, Loading, Decoding
  <2> QED BY <1>1, <2>1, <2>2, <2>5, <2>6, GoingOn DEF Early
<1> QED BY <1>2, <1>3

(* ---- The planes, one after another ------------------------------------- *)

LEMMA SameSources ==
  ASSUME IInv, UNCHANGED <<world, bundled, data>>
  PROVE  \A name, image : Provided(name, image) <=> Provided(name, image)'
<1>1. UNCHANGED <<bundled, data, seenBeside>>
  BY DEF world
<1> QED BY <1>1 DEF Provided, Archive, Lay

LEMMA SamePlanes ==
  ASSUME IInv, UNCHANGED <<world, bundled, data, meta, planes>>, pc \in Decoding
  PROVE  AllProvided'
<1>1. AllProvided
  BY DEF IInv, Sourced
<1> QED BY <1>1, SameSources DEF AllProvided

LEMMA DecodingOn ==
  ASSUME IInv, UNCHANGED <<world, operation, bundled, data, meta>>,
         pc \in Decoding, pc' \in Decoding, planes' \in Seq(Image),
         PlanesBounded', Counted', BytesLoaded', Sourced'
  PROVE  IInv'
<1>1. /\ pc \notin Before \cup {"return", "gate"}
      /\ pc' \notin Before \cup {"gate"} /\ pc' # "return" /\ pc # "extract" /\ pc' # "extract"
      /\ pc' \notin Routing /\ pc' \notin Loading /\ pc' \in Pcs
  BY DEF Decoding, Before, Routing, Loading, Pcs
<1>2. operation = "Read" /\ operation \in Operations /\ bundled \in BOOLEAN
  BY DEF IInv, Directed, Types
<1>3. Types' /\ Watched'
  BY <1>1, <1>2, SameWorld DEF Types
<1>4. Directed'
  BY <1>1, <1>2 DEF Directed
<1>5. DataLoaded'
  BY <1>1, DataStays
<1>6. Opened' /\ MetaParsed'
  BY <1>1 DEF IInv, Opened, MetaParsed
<1>7. DocumentOfOneVersion'
  BY <1>1 DEF DocumentOfOneVersion, Returned
<1> QED BY <1>3, <1>4, <1>5, <1>6, <1>7 DEF IInv

LEMMA ParseDocumentStep == IInv /\ ParseDocument => IInv'
<1> SUFFICES ASSUME IInv, ParseDocument PROVE IInv'
  OBVIOUS
<1>1. /\ pc = "parse" /\ bundled \in BOOLEAN /\ operation \in Operations
      /\ operation \in {"ReadMetadata", "Read"} /\ planes = <<>>
      /\ UNCHANGED <<world, operation, bundled, data, bytes, planes>>
  BY DEF ParseDocument, IInv, Types, Directed, Counted, Loading
<1>2. CASE DocumentProblem[data.version] # NoProblem
  <2>1. pc' = "return" /\ result' = "false"
    BY <1>2 DEF ParseDocument, Fail
  <2> QED BY <1>1, <2>1, Failing
<1>3. CASE DocumentProblem[data.version] = NoProblem /\ operation # "Read"
  <2>1. pc' = "return"
    BY <1>1, <1>3 DEF ParseDocument, Succeed
  <2> QED BY <1>1, <1>3, <2>1, Failing
<1>4. CASE DocumentProblem[data.version] = NoProblem /\ operation = "Read"
  <2>1. pc' = "plane" /\ meta' = DocumentOf[data.version]
    BY <1>1, <1>4 DEF ParseDocument, Continue
  <2>2. IsDocument(data.version)
    BY <1>1, <1>4 DEF IInv, Opened, IsDocument
  <2>3. Types' /\ Watched'
    BY <1>1, <2>1, SameWorld DEF Types, IInv, Pcs, Decoding
  <2>4. Directed'
    BY <1>1, <1>4, <2>1 DEF Directed, Routing, Loading
  <2>5. DataLoaded'
    BY <1>1, <2>1, DataStays DEF Before
  <2>6. Opened' /\ MetaParsed'
    BY <1>1, <2>1, <2>2 DEF IInv, Opened, MetaParsed, Decoding
  <2>7. BytesLoaded' /\ PlanesBounded'
    BY <1>1, <2>1 DEF IInv, BytesLoaded, BytesBounded, PlanesBounded
  <2>8. Counted'
    BY <1>1, <2>1, EmptySeq DEF Counted, Routing, Loading
  <2>9. Sourced' /\ DocumentOfOneVersion'
    BY <1>1, <2>1 DEF Sourced, AllProvided, DocumentOfOneVersion, Returned
  <2> QED BY <2>3, <2>4, <2>5, <2>6, <2>7, <2>8, <2>9 DEF IInv
<1> QED BY <1>1, <1>2, <1>3, <1>4

(* The bytes of the next plane are loaded.                                 *)
LEMMA Taking ==
  ASSUME IInv, UNCHANGED <<world, operation, bundled, data, meta, planes>>,
         pc \in {"plane", "companion"}, pc' = "decode",
         BytesBounded', Provided(PlaneName, bytes'.image)
  PROVE  IInv'
<1>1. pc \in Decoding /\ pc' \in Decoding /\ planes' \in Seq(Image) /\ PlanesBounded'
  BY DEF Decoding, IInv, Types, PlanesBounded
<1>2. Counted'
  BY DEF IInv, Counted, Routing, Loading
<1>3. BytesLoaded'
  BY DEF BytesLoaded
<1>4. UNCHANGED PlaneName
  BY DEF PlaneName
<1>5. Provided(PlaneName, bytes.image)'
  BY <1>4, SameSources
<1>6. Sourced'
  BY <1>1, <1>5, SamePlanes DEF Sourced
<1> QED BY <1>1, <1>2, <1>3, <1>6, DecodingOn

LEMMA ExtractPlaneStep == IInv /\ ExtractPlane => IInv'
<1> SUFFICES ASSUME IInv, ExtractPlane PROVE IInv'
  OBVIOUS
<1> DEFINE name == PlaneName
           entry == Entry(Archive, name)
<1>1. /\ pc = "plane" /\ bundled /\ bundled \in BOOLEAN
      /\ UNCHANGED <<world, operation, bundled, data, meta, planes>>
  BY DEF ExtractPlane, IInv, Types, document
<1>2. CASE pc' = "return" /\ result' = "false"
  BY <1>1, <1>2, Failing
<1>3. CASE ~(pc' = "return" /\ result' = "false")
  <2>1. ExtractProblem(name, "missingPlane") = NoProblem /\ pc' = "decode"
    BY <1>3 DEF ExtractPlane, FailOr, Fail, Continue
  <2>2. Has(name) /\ ~(Size(entry) > kMaxPlaneBytes)
    BY <2>1, ExtractFits DEF NoProblem
  <2>3. bytes' = [image |-> entry.file.image, length |-> Size(entry)]
    BY <2>2 DEF ExtractPlane
  <2>4. IsFile(Files[data.version]) /\ Files[data.version].archive # <<>>
    BY <1>1, FileFacts DEF IInv, DataLoaded, Opened, Before, Decoding, Nothing
  <2>5. DOMAIN Archive \subseteq Nat
    BY <2>4 DEF IsFile, Archive
  <2>6. PICK n \in Indices(Archive, name) :
          n \in DOMAIN Archive /\ ~Archive[n].directory /\ entry = Archive[n]
    BY <2>2, <2>5, Extracted DEF Has
  <2>7. IsContent(Archive[n].file)
    BY <2>4, <2>6 DEF IsFile, Archive
  <2>8. Size(entry) = Archive[n].file.size /\ entry.file = Archive[n].file
    BY <2>6 DEF Size
  <2> HIDE DEF entry
  <2>9. /\ bytes'.length = Archive[n].file.size
        /\ bytes'.image = Archive[n].file.image
    BY <2>3, <2>8
  <2>10. ~(Archive[n].file.size > kMaxPlaneBytes)
    BY <2>2, <2>8
  <2>11. BytesBounded'
    <3>1. /\ Archive[n].file.size \in Nat /\ Archive[n].file.image \in Seq(Image)
          /\ Len(Archive[n].file.image) <= 1
      BY <2>7 DEF IsContent
    <3>2. kMaxPlaneBytes \in Nat
      BY LimitsAssumption
    <3> QED BY <2>9, <2>10, <3>1, <3>2 DEF BytesBounded
  <2>12. Provided(name, bytes'.image)
    BY <1>1, <2>6, <2>9 DEF Provided, Holds
  <2> QED BY <1>1, <2>1, <2>11, <2>12, Taking
<1> QED BY <1>2, <1>3

LEMMA ProbeCompanionStep == IInv /\ ProbeCompanion => IInv'
<1> SUFFICES ASSUME IInv, ProbeCompanion PROVE IInv'
  OBVIOUS
<1>1. /\ pc = "plane" /\ ~bundled /\ bundled \in BOOLEAN
      /\ UNCHANGED <<world, operation, bundled, data, bytes, meta, planes>>
  BY DEF ProbeCompanion, IInv, Types, document
<1>2. CASE pc' = "return" /\ result' = "false"
  BY <1>1, <1>2, Failing
<1>3. CASE ~(pc' = "return" /\ result' = "false")
  <2>1. pc' = "companion"
    BY <1>3 DEF ProbeCompanion, FailOr, Fail, Continue
  <2>2. pc \in Decoding /\ pc' \in Decoding /\ planes' \in Seq(Image) /\ PlanesBounded'
    BY <1>1, <2>1 DEF Decoding, IInv, Types, PlanesBounded
  <2>3. Counted'
    BY <1>1, <2>1 DEF IInv, Counted, Routing, Loading
  <2>4. BytesLoaded'
    BY <1>1, <2>1 DEF IInv, BytesLoaded, BytesBounded
  <2>5. Sourced'
    BY <1>1, <2>1, <2>2, SamePlanes DEF Sourced
  <2> QED BY <1>1, <2>2, <2>3, <2>4, <2>5, DecodingOn
<1> QED BY <1>2, <1>3

LEMMA TakingCompanion ==
  ASSUME IInv, UNCHANGED <<world, operation, bundled, data, meta, planes>>,
         pc \in {"plane", "companion"}, ~bundled, ~IsMissing,
         ~(Companion.size > kMaxPlaneBytes), TakeCompanion
  PROVE  IInv'
<1> DEFINE name == PlaneName
           index == beside[name]
<1>1. bytes' = [image |-> Companion.image, length |-> Companion.size] /\ pc' = "decode"
  BY DEF TakeCompanion, Continue
<1>2. /\ name \in DOMAIN beside /\ index \in DOMAIN Files /\ Companion = Files[index]
      /\ <<name, index>> \in seenBeside
  <2>1. name \in DOMAIN beside /\ Companion = Files[index]
    BY DEF IsMissing, Companion
  <2>2. beside \in [DOMAIN beside -> DOMAIN Files] /\ Beside \subseteq seenBeside
    BY DEF IInv, Types, Watched
  <2> QED BY <2>1, <2>2 DEF Beside
<1>3. IsContent(Companion) /\ kMaxPlaneBytes \in Nat
  BY <1>2, FileFacts, LimitsAssumption DEF IsFile
<1>4. BytesBounded'
  BY <1>1, <1>3 DEF BytesBounded, IsContent
<1>5. Provided(name, bytes'.image)
  <2>1. <<name, index>>[1] = name /\ <<name, index>>[2] = index
    OBVIOUS
  <2>2. Files[index].image = bytes'.image
    BY <1>1, <1>2
  <2> QED BY <1>2, <2>1, <2>2 DEF Provided, Lay
<1> QED BY <1>1, <1>4, <1>5, Taking

LEMMA LoadCompanionStep == IInv /\ LoadCompanion => IInv'
<1> SUFFICES ASSUME IInv, LoadCompanion PROVE IInv'
  OBVIOUS
<1>1. /\ pc = "companion" /\ ~bundled /\ bundled \in BOOLEAN
      /\ UNCHANGED <<world, operation, bundled, data, meta, planes>>
  BY DEF LoadCompanion, IInv, Types, Counted
<1>2. CASE pc' = "return" /\ result' = "false"
  BY <1>1, <1>2, Failing
<1>3. CASE ~(pc' = "return" /\ result' = "false")
  <2>1. ~IsMissing /\ ~(Companion.size > kMaxPlaneBytes) /\ TakeCompanion
    BY <1>3 DEF LoadCompanion, Fail
  <2> QED BY <1>1, <2>1, TakingCompanion
<1> QED BY <1>2, <1>3

LEMMA AskLoaderStep == IInv /\ AskLoader => IInv'
<1> SUFFICES ASSUME IInv, AskLoader PROVE IInv'
  OBVIOUS
<1>1. /\ pc = "plane" /\ ~bundled /\ bundled \in BOOLEAN
      /\ UNCHANGED <<world, operation, bundled, data, meta, planes>>
  BY DEF AskLoader, IInv, Types
<1>2. CASE pc' = "return" /\ result' = "false"
  BY <1>1, <1>2, Failing
<1>3. CASE ~(pc' = "return" /\ result' = "false")
  <2>1. ~IsMissing /\ ~(Companion.size > kMaxPlaneBytes) /\ TakeCompanion
    BY <1>3 DEF AskLoader, Fail
  <2> QED BY <1>1, <2>1, TakingCompanion
<1> QED BY <1>2, <1>3

(* One plane more.                                                         *)
LEMMA Decoded ==
  ASSUME IInv, PlaneProblem = NoProblem, BytesBounded,
         planes' = planes \o bytes.image
  PROVE  /\ planes' \in Seq(Image) /\ Len(planes) \in Nat
         /\ Len(planes') = Len(planes) + 1
         /\ DOMAIN planes' = 1 .. Len(planes) + 1 /\ DOMAIN planes = 1 .. Len(planes)
         /\ \A n \in 1 .. Len(planes) : planes'[n] = planes[n]
         /\ <<planes'[Len(planes) + 1]>> = bytes.image
         /\ PlanesBounded'
<1> DEFINE plane == bytes.image[1]
<1>1. planes \in Seq(Image) /\ bytes.image \in Seq(Image) /\ Len(bytes.image) = 1
      /\ bytes.image = <<plane>> /\ 4 * plane.width * plane.height <= kMaxPlaneBytes
  BY PlaneFits DEF IInv, Types, BytesBounded
<1> HIDE DEF plane
<1>2. /\ planes' \in Seq(Image) /\ Len(planes') = Len(planes) + Len(bytes.image)
      /\ \A n \in 1 .. Len(planes) + Len(bytes.image) :
           planes'[n] = IF n <= Len(planes) THEN planes[n]
                        ELSE bytes.image[n - Len(planes)]
  BY <1>1, ConcatProperties
<1>3. Len(planes) \in Nat /\ DOMAIN planes = 1 .. Len(planes)
  BY <1>1
<1>4. /\ Len(planes') = Len(planes) + 1 /\ DOMAIN planes' = 1 .. Len(planes) + 1
      /\ \A n \in 1 .. Len(planes) : planes'[n] = planes[n]
      /\ planes'[Len(planes) + 1] = bytes.image[1]
  BY <1>1, <1>2, <1>3
<1>5. bytes.image[1] = plane
  BY DEF plane
<1>6. PlanesBounded'
  <2>1. \A n \in DOMAIN planes : 4 * planes[n].width * planes[n].height <= kMaxPlaneBytes
    BY DEF IInv, PlanesBounded
  <2>2. ASSUME NEW n \in 1 .. Len(planes) + 1
        PROVE  4 * planes'[n].width * planes'[n].height <= kMaxPlaneBytes
    <3>1. CASE n \in 1 .. Len(planes)
      BY <1>3, <1>4, <2>1, <3>1
    <3>2. CASE n = Len(planes) + 1
      BY <1>1, <1>4, <1>5, <3>2
    <3>3. n \in 1 .. Len(planes) \/ n = Len(planes) + 1
      BY <1>3
    <3> QED BY <3>1, <3>2, <3>3, Zenon
  <2> QED BY <1>4, <2>2 DEF PlanesBounded
<1> QED BY <1>1, <1>2, <1>3, <1>4, <1>5, <1>6

LEMMA DecodePlaneStep == IInv /\ DecodePlane => IInv'
<1> SUFFICES ASSUME IInv, DecodePlane PROVE IInv'
  OBVIOUS
<1>1. /\ pc = "decode" /\ pc \in Decoding /\ bundled \in BOOLEAN /\ BytesBounded
      /\ UNCHANGED <<world, operation, bundled, data, bytes, meta>>
  BY DEF DecodePlane, IInv, Types, BytesLoaded, Decoding
<1>2. CASE PlaneProblem # NoProblem
  <2>1. pc' = "return" /\ result' = "false" /\ UNCHANGED planes
    BY <1>2 DEF DecodePlane, Fail
  <2> QED BY <1>1, <2>1, Failing
<1>3. CASE PlaneProblem = NoProblem
  <2>1. planes' = planes \o bytes.image
        /\ pc' = CASE Len(planes) + 1 = 5 -> "check"
                   [] Len(planes) + 1 = 7 -> "palette"
                   [] OTHER -> "plane"
    BY <1>3 DEF DecodePlane, Continue
  <2>2. /\ planes' \in Seq(Image) /\ Len(planes) \in Nat
        /\ Len(planes') = Len(planes) + 1
        /\ DOMAIN planes' = 1 .. Len(planes) + 1 /\ DOMAIN planes = 1 .. Len(planes)
        /\ \A n \in 1 .. Len(planes) : planes'[n] = planes[n]
        /\ <<planes'[Len(planes) + 1]>> = bytes.image
        /\ PlanesBounded'
    BY <1>1, <1>3, <2>1, Decoded
  <2>3. Len(planes) \in 0 .. 4 \/ (Len(planes) \in {5, 6} /\ meta.shBands # 0)
    BY <1>1 DEF IInv, Counted
  <2>4. \/ pc' = "check" /\ Len(planes) = 4
        \/ pc' = "palette" /\ Len(planes) = 6
        \/ pc' = "plane" /\ Len(planes) \notin {4, 6}
    <3>1. Len(planes) \in Nat
      BY <2>2
    <3> DEFINE length == Len(planes)
    <3> HIDE DEF length
    <3>2. length \in Nat
          /\ pc' = CASE length + 1 = 5 -> "check"
                     [] length + 1 = 7 -> "palette"
                     [] OTHER -> "plane"
      BY <2>1, <3>1 DEF length
    <3>3. \/ pc' = "check" /\ length = 4
          \/ pc' = "palette" /\ length = 6
          \/ pc' = "plane" /\ length \notin {4, 6}
      BY <3>2
    <3> QED BY <3>3 DEF length
  <2>5. pc' \in Decoding /\ pc' # "decode" /\ pc' # "return" /\ pc' # "companion"
    BY <2>4 DEF Decoding
  <2>6. Counted'
    BY <1>1, <2>2, <2>3, <2>4 DEF Counted, Routing, Loading
  <2>7. BytesLoaded'
    BY <1>1, <2>5 DEF BytesLoaded, BytesBounded
  <2>8. AllProvided'
    <3>1. AllProvided /\ Provided(meta.files[Len(planes) + 1], bytes.image)
      BY <1>1 DEF IInv, Sourced, PlaneName
    <3>2. ASSUME NEW n \in 1 .. Len(planes) + 1
          PROVE  Provided(meta.files[n], <<planes'[n]>>)
      <4>1. CASE n \in 1 .. Len(planes)
        BY <2>2, <3>1, <4>1 DEF AllProvided
      <4>2. CASE n = Len(planes) + 1
        BY <2>2, <3>1, <4>2
      <4> QED BY <2>2, <4>1, <4>2
    <3>3. ASSUME NEW n \in DOMAIN planes'
          PROVE  Provided(meta.files[n], <<planes[n]>>)'
      BY <1>1, <2>2, <3>2, SameSources
    <3> QED BY <3>3 DEF AllProvided
  <2>9. Sourced'
    BY <2>5, <2>8 DEF Sourced
  <2> QED BY <1>1, <2>2, <2>5, <2>6, <2>7, <2>9, DecodingOn
<1> QED BY <1>2, <1>3

(* A call that ends with a document.                                       *)
LEMMA Delivering ==
  ASSUME IInv, UNCHANGED <<world, operation, bundled, data, meta, planes>>,
         pc \in Decoding, pc' = "return", DOMAIN planes = DOMAIN meta.files
  PROVE  IInv'
<1> USE DEF Pcs, Routing, Loading, Decoding, Before
<1>1. Types' /\ Watched'
  BY SameWorld DEF IInv, Types
<1>2. Directed' /\ DataLoaded' /\ Opened' /\ MetaParsed' /\ BytesLoaded' /\ Counted'
      /\ Sourced'
  BY DEF Directed, DataLoaded, Opened, MetaParsed, BytesLoaded, Counted, Sourced
<1>3. PlanesBounded'
  BY DEF IInv, PlanesBounded
<1>4. DocumentOfOneVersion'
  <2>1. PICK x \in DOMAIN Files : x = data.version /\ x = data'.version
    BY DEF IInv, DataLoaded
  <2>2. /\ x \in seen' /\ IsDocument(x) /\ meta' = DocumentOf[x]
        /\ Files[x].zip = bundled' /\ DOMAIN planes' = DOMAIN meta'.files
    BY <2>1, SameWorld DEF IInv, DataLoaded, MetaParsed, Opened
  <2>3. AllProvided'
    BY SamePlanes
  <2>4. ASSUME NEW n \in DOMAIN planes'
        PROVE  (IF bundled THEN Holds(Files[x].archive[1], meta.files[n], <<planes[n]>>)
                ELSE Lay(meta.files[n], <<planes[n]>>))'
    BY <2>1, <2>3 DEF AllProvided, Provided, Archive
  <2> QED BY <2>2, <2>4 DEF DocumentOfOneVersion
<1> QED BY <1>1, <1>2, <1>3, <1>4 DEF IInv

LEMMA CheckPlanesStep == IInv /\ CheckPlanes => IInv'
<1> SUFFICES ASSUME IInv, CheckPlanes PROVE IInv'
  OBVIOUS
<1>1. /\ pc = "check" /\ pc \in Decoding /\ bundled \in BOOLEAN
      /\ Len(planes) = 5 /\ planes \in Seq(Image) /\ DOMAIN planes = 1 .. 5
      /\ UNCHANGED <<world, operation, bundled, data, bytes, meta, planes>>
  BY DEF CheckPlanes, IInv, Types, Counted, Decoding, document
<1>2. meta.shBands = 0 => DOMAIN planes = DOMAIN meta.files
  BY <1>1, DocumentFacts DEF IInv, MetaParsed
<1>3. \/ pc' = "return" /\ result' = "false"
      \/ pc' = "return" /\ meta.shBands = 0
      \/ pc' = "plane" /\ meta.shBands # 0
  BY DEF CheckPlanes, Fail, Succeed, Continue
<1>4. CASE pc' = "return" /\ result' = "false"
  BY <1>1, <1>4, Failing
<1>5. CASE pc' = "return" /\ meta.shBands = 0
  BY <1>1, <1>2, <1>5, Delivering
<1>6. CASE pc' = "plane" /\ meta.shBands # 0
  <2>1. pc' \in Decoding /\ PlanesBounded'
    BY <1>1, <1>6 DEF Decoding, IInv, PlanesBounded
  <2>2. Counted'
    BY <1>1, <1>6 DEF Counted, Routing, Loading
  <2>3. BytesLoaded'
    BY <1>1, <1>6 DEF IInv, BytesLoaded, BytesBounded
  <2>4. Sourced'
    BY <1>1, <1>6, SamePlanes DEF Sourced
  <2> QED BY <1>1, <2>1, <2>2, <2>3, <2>4, DecodingOn
<1> QED BY <1>3, <1>4, <1>5, <1>6

LEMMA CheckPaletteStep == IInv /\ CheckPalette => IInv'
<1> SUFFICES ASSUME IInv, CheckPalette PROVE IInv'
  OBVIOUS
<1>1. /\ pc = "palette" /\ pc \in Decoding /\ bundled \in BOOLEAN
      /\ Len(planes) = 7 /\ planes \in Seq(Image) /\ DOMAIN planes = 1 .. 7
      /\ meta.shBands # 0
      /\ UNCHANGED <<world, operation, bundled, data, meta, planes>>
  BY DEF CheckPalette, IInv, Types, Counted, Decoding, document
<1>2. DOMAIN planes = DOMAIN meta.files
  BY <1>1, DocumentFacts DEF IInv, MetaParsed
<1>3. pc' = "return"
  BY DEF CheckPalette, Fail, Succeed
<1> QED BY <1>1, <1>2, <1>3, Delivering

LEMMA ReturnStep == IInv /\ Return => IInv'
<1> SUFFICES ASSUME IInv, Return PROVE IInv'
  OBVIOUS
<1> USE DEF Pcs, Routing, Loading, Decoding, Before
<1>1. /\ pc' = "idle" /\ bundled' = FALSE /\ data' = Nothing /\ bytes' = Nothing
      /\ planes' = <<>> /\ seen' = {file} /\ seenBeside' = Beside
      /\ UNCHANGED <<file, beside, operation>>
  BY DEF Return
<1>2. Types'
  BY <1>1, EmptySeq DEF IInv, Types
<1>3. Watched'
  BY <1>1 DEF Watched, Beside
<1>4. Directed' /\ DataLoaded' /\ Opened' /\ MetaParsed'
  BY <1>1 DEF Directed, DataLoaded, Opened, MetaParsed
<1>5. BytesLoaded' /\ PlanesBounded' /\ Counted' /\ Sourced' /\ DocumentOfOneVersion'
  BY <1>1 DEF BytesLoaded, PlanesBounded, Counted, Sourced, DocumentOfOneVersion, Returned
<1> QED BY <1>2, <1>3, <1>4, <1>5 DEF IInv

LEMMA RefusedStep == IInv /\ (Refused \/ Throw) => IInv'
<1> SUFFICES ASSUME IInv, Refused \/ Throw PROVE IInv'
  OBVIOUS
<1>1. pc' = "return" /\ result' # "true" /\ UNCHANGED <<world, operation, bundled, planes>>
  BY DEF Refused, Throw, Fail, document
<1> QED BY <1>1, Failing DEF IInv, Types

LEMMA NextIInv == IInv /\ [Next]_vars => IInv'
<1> SUFFICES ASSUME IInv, [Next]_vars PROVE IInv'
  OBVIOUS
<1>1. CASE EditFile \/ EditCompanion \/ Call
  BY <1>1, EditFileStep, EditCompanionStep, CallStep
<1>2. CASE Refused \/ Throw \/ Return
  BY <1>2, RefusedStep, ReturnStep
<1>3. CASE ReadPrefix \/ Gate \/ ProbeLayout \/ LoadContainer \/ OpenLayout
           \/ ExtractMetadata \/ ParseDocument
  BY <1>3, ReadPrefixStep, GateStep, ProbeLayoutStep, LoadContainerStep,
     OpenLayoutStep, ExtractMetadataStep, ParseDocumentStep
<1>4. CASE ExtractPlane \/ ProbeCompanion \/ LoadCompanion \/ AskLoader
           \/ DecodePlane \/ CheckPlanes \/ CheckPalette
  BY <1>4, ExtractPlaneStep, ProbeCompanionStep, LoadCompanionStep, AskLoaderStep,
     DecodePlaneStep, CheckPlanesStep, CheckPaletteStep
<1>5. CASE UNCHANGED vars
  <2>1. Quiet /\ UNCHANGED <<file, beside, seen, seenBeside>>
    BY <1>5 DEF vars, Quiet, world
  <2>2. /\ file \in DOMAIN Files /\ file \in seen /\ Beside \subseteq seenBeside
        /\ beside \in [DOMAIN beside -> DOMAIN Files]
    BY DEF IInv, Types, Watched
  <2> QED BY <2>1, <2>2, Replacing DEF Beside
<1> QED BY <1>1, <1>2, <1>3, <1>4, <1>5 DEF Next, Step

(* ---- Of every call ----------------------------------------------------- *)

THEOREM Invariance == Spec => []IInv
<1>1. Init => IInv
  BY InitIInv
<1>2. IInv /\ [Next]_vars => IInv'
  BY NextIInv
<1> QED BY <1>1, <1>2, PTL DEF Spec

(* Whatever files are, are replaced by, or a loader hands over, what a     *)
(* call holds stays within the limits (SogReader.cpp:899-961).             *)
THEOREM MemoryIsBounded == Spec => []BoundedMemory
<1>1. IInv => BoundedMemory
  <2> SUFFICES ASSUME IInv PROVE BoundedMemory
    OBVIOUS
  <2>1. data # Nothing /\ pc # "return" =>
          /\ data.length <= Files[data.version].size
          /\ data.length <= CASE operation = "CanReadBundled"   -> kZipSignatureSize
                              [] operation = "CanReadUnbundled" -> kCanReadPrefixLimit
                              [] OTHER -> MaxBytes(bundled)
    <3> SUFFICES ASSUME data # Nothing, pc # "return"
                 PROVE  /\ data.length <= Files[data.version].size
                        /\ data.length <=
                             CASE operation = "CanReadBundled"   -> kZipSignatureSize
                               [] operation = "CanReadUnbundled" -> kCanReadPrefixLimit
                               [] OTHER -> MaxBytes(bundled)
      OBVIOUS
    <3>1. pc \notin Before /\ pc \in Pcs
      BY DEF IInv, DataLoaded, Types
    <3>2. data.length <= Files[data.version].size
      BY <3>1 DEF IInv, DataLoaded
    <3>3. CASE pc = "gate"
      BY <3>2, <3>3 DEF IInv, DataLoaded, Directed, Routing
    <3>4. CASE pc # "gate"
      <4>1. data.length <= MaxBytes(bundled)
        BY <3>1, <3>4 DEF IInv, DataLoaded
      <4>2. operation \in {"ReadMetadata", "Read"}
        BY <3>1, <3>4 DEF IInv, Directed, Pcs, Before, Routing, Loading, Decoding
      <4> QED BY <3>2, <4>1, <4>2
    <3> QED BY <3>3, <3>4
  <2>2. bytes # Nothing /\ pc # "return" => bytes.length <= kMaxPlaneBytes
    BY DEF IInv, BytesLoaded, BytesBounded
  <2>3. \A n \in DOMAIN planes : 4 * planes[n].width * planes[n].height <= kMaxPlaneBytes
    BY DEF IInv, PlanesBounded
  <2>4. pc \in {"extract", "parse", "plane", "decode", "check", "palette"} /\ bundled =>
          Expanded(Archive, Len(Archive)) <= kMaxZipExpandedBytes
    <3> SUFFICES ASSUME pc \in {"extract", "parse", "plane", "decode", "check", "palette"},
                        bundled
                 PROVE  Expanded(Archive, Len(Archive)) <= kMaxZipExpandedBytes
      OBVIOUS
    <3>1. /\ data.version \in DOMAIN Files
          /\ Files[data.version].archive # Nothing
          /\ ArchiveProblem(Files[data.version]) = NoProblem
      BY DEF IInv, DataLoaded, Opened, Before, Decoding
    <3> QED BY <3>1, FileFacts, ArchiveFits DEF Archive
  <2> QED BY <2>1, <2>2, <2>3, <2>4 DEF BoundedMemory
<1> QED BY <1>1, Invariance, PTL

(* ---- What the checks of a document say --------------------------------- *)

LEMMA AllPass ==
  ASSUME NEW codes, DOMAIN codes \subseteq Nat
  PROVE  FirstFailure(codes) = NoProblem <=> \A n \in DOMAIN codes : codes[n] = NoProblem
<1>1. (\A n \in DOMAIN codes : codes[n] = NoProblem) => FirstFailure(codes) = NoProblem
  BY DEF FirstFailure
<1> QED BY <1>1, EveryCheckPasses

LEMMA Checks ==
  \A code : code # NoProblem =>
    \A fails \in BOOLEAN : Check(fails, code) = NoProblem <=> ~fails
BY DEF Check

LEMMA ThreePass ==
  \A a, b, c : FirstFailure(<<a, b, c>>) = NoProblem
                 <=> a = NoProblem /\ b = NoProblem /\ c = NoProblem
<1> TAKE a, b, c
<1> DEFINE codes == <<a, b, c>>
<1>1. /\ DOMAIN codes = 1 .. 3 /\ codes[1] = a /\ codes[2] = b /\ codes[3] = c
  OBVIOUS
<1>2. \A n \in 1 .. 3 : n = 1 \/ n = 2 \/ n = 3
  OBVIOUS
<1> HIDE DEF codes
<1>3. FirstFailure(codes) = NoProblem <=> \A n \in 1 .. 3 : codes[n] = NoProblem
  BY <1>1, AllPass
<1> QED BY <1>1, <1>2, <1>3 DEF codes

LEMMA BothPass ==
  \A a, b : FirstFailure(<<a, b>>) = NoProblem <=> a = NoProblem /\ b = NoProblem
<1> TAKE a, b
<1> DEFINE codes == <<a, b>>
<1>1. DOMAIN codes = 1 .. 2 /\ codes[1] = a /\ codes[2] = b
  OBVIOUS
<1>2. \A n \in 1 .. 2 : n = 1 \/ n = 2
  OBVIOUS
<1> HIDE DEF codes
<1>3. FirstFailure(codes) = NoProblem <=> \A n \in 1 .. 2 : codes[n] = NoProblem
  BY <1>1, AllPass
<1> QED BY <1>1, <1>2, <1>3 DEF codes

LEMMA SevenPass ==
  \A a, b, c, d, e, f, g : FirstFailure(<<a, b, c, d, e, f, g>>) = NoProblem
    <=> /\ a = NoProblem /\ b = NoProblem /\ c = NoProblem /\ d = NoProblem
        /\ e = NoProblem /\ f = NoProblem /\ g = NoProblem
<1> TAKE a, b, c, d, e, f, g
<1> DEFINE codes == <<a, b, c, d, e, f, g>>
<1>1. /\ DOMAIN codes = 1 .. 7 /\ codes[1] = a /\ codes[2] = b /\ codes[3] = c
      /\ codes[4] = d /\ codes[5] = e /\ codes[6] = f /\ codes[7] = g
  OBVIOUS
<1>2. \A n \in 1 .. 7 : n = 1 \/ n = 2 \/ n = 3 \/ n = 4 \/ n = 5 \/ n = 6 \/ n = 7
  OBVIOUS
<1> HIDE DEF codes
<1>3. FirstFailure(codes) = NoProblem <=> \A n \in 1 .. 7 : codes[n] = NoProblem
  BY <1>1, AllPass
<1> QED BY <1>1, <1>2, <1>3 DEF codes

(* ---- What the schema says of a value ----------------------------------- *)

LEMMA MemberHasFields ==
  ASSUME NEW v, HasFields(v), \A w \in Inside(v) : HasFields(w), NEW key
  PROVE  HasFields(Member(v, key))
         /\ (Member(v, key) \in Inside(v) \/ Member(v, key) = JsonValue)
<1>1. HasFields(JsonValue)
  BY DEF HasFields, JsonValue
<1> DEFINE named == {n \in DOMAIN v.members : v.members[n].name = key}
<1>2. CASE Find(v, key) = Nothing
  BY <1>1, <1>2 DEF Member
<1>3. CASE Find(v, key) # Nothing
  <2>1. v.type = "object" /\ named # {}
    BY <1>3 DEF Find
  <2>2. named \subseteq Nat
    BY DEF HasFields
  <2>3. PICK x \in named : \A y \in named : x <= y
    BY <2>1, <2>2, HasLeast
  <2>4. (CHOOSE n \in named : \A m \in named : n <= m) \in named
    BY <2>3
  <2>5. PICK c \in named : Find(v, key) = <<v.members[c].value>>
    BY <2>1, <2>4 DEF Find
  <2>6. Member(v, key) = v.members[c].value
    BY <1>3, <2>5 DEF Member
  <2> QED BY <2>5, <2>6 DEF Inside
<1> QED BY <1>2, <1>3

(* A member of the root, and of a member, and an item of that.             *)
LEMMA Fields ==
  ASSUME NEW root, IsTree(root), NEW key, NEW inner
  PROVE  /\ HasFields(root)
         /\ HasFields(Member(root, key))
         /\ HasFields(Member(Member(root, key), inner))
         /\ LET items == Member(Member(root, key), inner).items IN
            \A n \in DOMAIN items : HasFields(items[n])
<1> DEFINE v == Member(root, key)
           w == Member(v, inner)
<1>1. HasFields(JsonValue) /\ Inside(JsonValue) = {}
  BY DEF HasFields, JsonValue, Inside
<1>2. HasFields(v) /\ (v \in Inside(root) \/ v = JsonValue)
  BY MemberHasFields DEF IsTree
<1> HIDE DEF v
<1>3. \A x \in Inside(v) : HasFields(x) /\ \A y \in Inside(x) : HasFields(y)
  BY <1>1, <1>2 DEF IsTree
<1>4. HasFields(w) /\ (w \in Inside(v) \/ w = JsonValue)
  BY <1>2, <1>3, MemberHasFields
<1> HIDE DEF w
<1>5. \A y \in Inside(w) : HasFields(y)
  BY <1>1, <1>3, <1>4
<1>6. \A n \in DOMAIN w.items : HasFields(w.items[n])
  BY <1>5 DEF Inside
<1> QED BY <1>2, <1>4, <1>6 DEF v, w, IsTree

(* ---- Plane names ------------------------------------------------------- *)

Bytes == 0 .. 255

LEMMA ThreeLetters ==
  ASSUME NEW x \in 48 .. 90, NEW y \in 48 .. 90, NEW z \in 48 .. 90
  PROVE  LET device == <<x, y, z>> IN
         /\ Len(device) = 3 /\ DOMAIN device = 1 .. 3
         /\ device = [n \in 1 .. 3 |-> device[n]]
         /\ \A n \in 1 .. 3 : device[n] \in 48 .. 90
OBVIOUS

LEMMA FourLetters ==
  ASSUME NEW w \in 48 .. 90, NEW x \in 48 .. 90, NEW y \in 48 .. 90, NEW z \in 48 .. 90
  PROVE  LET device == <<w, x, y, z>> IN
         /\ Len(device) = 4 /\ DOMAIN device = 1 .. 4
         /\ device = [n \in 1 .. 4 |-> device[n]]
         /\ \A n \in 1 .. 4 : device[n] \in 48 .. 90
OBVIOUS

IsDevice(device) ==
  /\ Len(device) \in {3, 4} /\ DOMAIN device = 1 .. Len(device)
  /\ device = [n \in 1 .. Len(device) |-> device[n]]
  /\ \A n \in 1 .. Len(device) : device[n] \in 48 .. 90

LEMMA Devices == \A device \in kReserved : IsDevice(device)
<1>1. ASSUME NEW x \in 48 .. 90, NEW y \in 48 .. 90, NEW z \in 48 .. 90
      PROVE  IsDevice(<<x, y, z>>)
  <2> DEFINE device == <<x, y, z>>
  <2>1. /\ Len(device) = 3 /\ DOMAIN device = 1 .. 3
        /\ device = [n \in 1 .. 3 |-> device[n]]
        /\ \A n \in 1 .. 3 : device[n] \in 48 .. 90
    BY ThreeLetters
  <2> HIDE DEF device
  <2>2. IsDevice(device)
    BY <2>1 DEF IsDevice
  <2> QED BY <2>2 DEF device
<1>2. ASSUME NEW w \in 48 .. 90, NEW x \in 48 .. 90, NEW y \in 48 .. 90,
             NEW z \in 48 .. 90
      PROVE  IsDevice(<<w, x, y, z>>)
  <2> DEFINE device == <<w, x, y, z>>
  <2>1. /\ Len(device) = 4 /\ DOMAIN device = 1 .. 4
        /\ device = [n \in 1 .. 4 |-> device[n]]
        /\ \A n \in 1 .. 4 : device[n] \in 48 .. 90
    BY FourLetters
  <2> HIDE DEF device
  <2>2. IsDevice(device)
    BY <2>1 DEF IsDevice
  <2> QED BY <2>2 DEF device
<1> HIDE DEF IsDevice
<1>3. \A device \in {<<67, 79, 78>>, <<80, 82, 78>>, <<65, 85, 88>>, <<78, 85, 76>>} :
        IsDevice(device)
  <2>1. /\ 67 \in 48 .. 90 /\ 79 \in 48 .. 90 /\ 78 \in 48 .. 90 /\ 80 \in 48 .. 90
        /\ 82 \in 48 .. 90 /\ 65 \in 48 .. 90 /\ 85 \in 48 .. 90 /\ 88 \in 48 .. 90
        /\ 76 \in 48 .. 90
    OBVIOUS
  <2>2. /\ IsDevice(<<67, 79, 78>>) /\ IsDevice(<<80, 82, 78>>)
        /\ IsDevice(<<65, 85, 88>>) /\ IsDevice(<<78, 85, 76>>)
    BY <1>1, <2>1
  <2> QED BY <2>2, Zenon
<1>4. \A d \in 49 .. 57 : IsDevice(<<67, 79, 77, d>>) /\ IsDevice(<<76, 80, 84, d>>)
  <2> TAKE d \in 49 .. 57
  <2>1. /\ 67 \in 48 .. 90 /\ 79 \in 48 .. 90 /\ 77 \in 48 .. 90 /\ d \in 48 .. 90
        /\ 76 \in 48 .. 90 /\ 80 \in 48 .. 90 /\ 84 \in 48 .. 90
    OBVIOUS
  <2> QED BY <1>2, <2>1
<1>5. \A device \in {<<67, 79, 77, d>> : d \in 49 .. 57}
                    \cup {<<76, 80, 84, d>> : d \in 49 .. 57} : IsDevice(device)
  BY <1>4, Zenon
<1> QED BY <1>3, <1>5, Zenon DEF kReserved

LEMMA GreatestIsIn ==
  ASSUME NEW k \in Nat, NEW S, S \subseteq 0 .. k, S # {}
  PROVE  Max(S) \in S /\ \A y \in S : y <= Max(S)
<1> DEFINE R == {k - x : x \in S}
<1>1. R \subseteq Nat /\ R # {}
  <2>1. \A x \in S : k - x \in Nat
    OBVIOUS
  <2> QED BY <2>1
<1>2. PICK m \in R : \A y \in R : m <= y
  BY <1>1, HasLeast
<1>3. PICK x \in S : m = k - x
  BY <1>2
<1>4. \A y \in S : k - x <= k - y
  BY <1>2, <1>3
<1>5. \A y \in S : x >= y
  <2> HIDE DEF R
  <2> QED BY <1>4
<1>6. Max(S) \in S /\ \A y \in S : Max(S) >= y
  BY <1>5 DEF Max
<1>7. \A x1, y1 \in 0 .. k : x1 >= y1 => y1 <= x1
  OBVIOUS
<1> QED BY <1>6, <1>7

Kept(name) ==
  LET dots == {n \in DOMAIN name : name[n] = Dot}
  IN  {n \in DOMAIN name : (\A d \in dots : n < d) /\ name[n] # Space}

LEMMA StemFacts ==
  ASSUME NEW name \in Seq(Bytes)
  PROVE  LET last == Max(Kept(name) \cup {0}) IN
         /\ last \in Kept(name) \cup {0} /\ \A n \in Kept(name) : n <= last
         /\ last \in 0 .. Len(name)
         /\ Stem(name) \in Seq(Bytes) /\ Len(Stem(name)) = last
         /\ DOMAIN Stem(name) = 1 .. last
         /\ \A n \in 1 .. last : Stem(name)[n] = name[n]
<1> DEFINE last == Max(Kept(name) \cup {0})
<1>1. Len(name) \in Nat /\ DOMAIN name = 1 .. Len(name)
  OBVIOUS
<1>2. Kept(name) \cup {0} \subseteq 0 .. Len(name)
  BY <1>1 DEF Kept
<1>3. last \in Kept(name) \cup {0} /\ \A n \in Kept(name) \cup {0} : n <= last
  BY <1>1, <1>2, GreatestIsIn
<1>4. last \in 0 .. Len(name)
  BY <1>2, <1>3
<1>5. Stem(name) = SubSeq(name, 1, last)
  BY DEF Stem, Kept
<1> HIDE DEF last
<1>6. 1 \in Int /\ last \in Int /\ \A n \in 1 .. last : name[n] \in Bytes
  BY <1>1, <1>4
<1>7. /\ SubSeq(name, 1, last) \in Seq(Bytes)
      /\ Len(SubSeq(name, 1, last)) = IF 1 <= last THEN last - 1 + 1 ELSE 0
      /\ \A i \in 1 .. last - 1 + 1 : SubSeq(name, 1, last)[i] = name[1 + i - 1]
  BY <1>6, SubSeqProperties
<1>8. Len(Stem(name)) = last /\ Stem(name) \in Seq(Bytes)
  BY <1>4, <1>5, <1>7
<1>9. \A n \in 1 .. last : Stem(name)[n] = name[n]
  BY <1>4, <1>5, <1>7
<1>10. DOMAIN Stem(name) = 1 .. last
  BY <1>8
<1> QED BY <1>3, <1>4, <1>8, <1>9, <1>10 DEF last

(* A device name, then spaces, then a dot or the end of the name.          *)
NamesDevice(name, device, last) ==
  /\ Len(device) <= Len(name)
  /\ \A n \in 1 .. Len(device) : Upper(name[n]) = device[n]
  /\ last \in Len(device) .. Len(name)
  /\ \A n \in Len(device) + 1 .. last : name[n] = Space
  /\ last = Len(name) \/ name[last + 1] = Dot

LEMMA ReservedNamesDevice ==
  ASSUME NEW name \in Seq(Bytes), IsReservedDeviceName(name)
  PROVE  \E device \in kReserved : \E last \in Nat : NamesDevice(name, device, last)
<1> DEFINE m == Max(Kept(name) \cup {0})
           dots == {n \in DOMAIN name : name[n] = Dot}
           device == [n \in 1 .. m |-> Upper(Stem(name)[n])]
<1>0. Len(name) \in Nat /\ DOMAIN name = 1 .. Len(name)
  OBVIOUS
<1>1. /\ m \in Kept(name) \cup {0} /\ \A n \in Kept(name) : n <= m
      /\ m \in 0 .. Len(name) /\ DOMAIN Stem(name) = 1 .. m
      /\ \A n \in 1 .. m : Stem(name)[n] = name[n]
  BY StemFacts
<1> HIDE DEF m
<1>2. device \in kReserved
  BY <1>1 DEF IsReservedDeviceName
<1>3. /\ Len(device) \in {3, 4} /\ DOMAIN device = 1 .. Len(device)
  BY <1>2, Devices DEF IsDevice
<1>4. Len(device) = m
  <2>1. 1 .. m = 1 .. Len(device) /\ m \in Nat /\ Len(device) \in Nat
    BY <1>1, <1>3
  <2> HIDE DEF device
  <2> QED BY <2>1
<1>5. \A n \in 1 .. m : Upper(name[n]) = device[n]
  BY <1>1
<1> HIDE DEF device
<1>6. m \in Kept(name) /\ m \in Nat /\ m >= 3
  BY <1>1, <1>3, <1>4
<1>7. CASE dots = {}
  <2>1. \A n \in m + 1 .. Len(name) : name[n] = Space
    <3> TAKE n \in m + 1 .. Len(name)
    <3>1. n \in DOMAIN name /\ ~(n <= m)
      BY <1>0, <1>6
    <3>2. n \notin Kept(name)
      BY <1>1, <3>1
    <3> QED BY <1>7, <3>1, <3>2 DEF Kept
  <2>2. NamesDevice(name, device, Len(name))
    BY <1>0, <1>1, <1>4, <1>5, <1>6, <2>1 DEF NamesDevice
  <2> QED BY <1>0, <1>2, <2>2
<1>8. CASE dots # {}
  <2>1. dots \subseteq Nat
    BY <1>0
  <2>2. PICK d \in dots : \A e \in dots : d <= e
    BY <1>8, <2>1, HasLeast
  <2>3. d \in 1 .. Len(name) /\ name[d] = Dot /\ m < d
    BY <1>0, <1>6, <2>2 DEF Kept
  <2>4. \A n \in m + 1 .. d - 1 : name[n] = Space
    <3> TAKE n \in m + 1 .. d - 1
    <3>1. n \in DOMAIN name /\ ~(n <= m) /\ \A e \in dots : n < e
      BY <1>0, <1>6, <2>1, <2>2, <2>3
    <3>2. n \notin Kept(name)
      BY <1>1, <3>1
    <3> QED BY <3>1, <3>2 DEF Kept
  <2>5. /\ d - 1 \in Nat /\ (d - 1) + 1 = d /\ d - 1 \in m .. Len(name)
        /\ m <= Len(name)
    BY <1>0, <1>6, <2>3
  <2>6. NamesDevice(name, device, d - 1)
    BY <1>4, <1>5, <2>3, <2>4, <2>5 DEF NamesDevice
  <2> QED BY <1>2, <2>5, <2>6
<1> QED BY <1>7, <1>8

LEMMA DeviceIsReserved ==
  ASSUME NEW name \in Seq(Bytes), NEW device \in kReserved, NEW last,
         NamesDevice(name, device, last)
  PROVE  IsReservedDeviceName(name)
<1> DEFINE m == Max(Kept(name) \cup {0})
           L == Len(device)
           dots == {n \in DOMAIN name : name[n] = Dot}
<1>0. Len(name) \in Nat /\ DOMAIN name = 1 .. Len(name)
  OBVIOUS
<1>1. /\ m \in Kept(name) \cup {0} /\ \A n \in Kept(name) : n <= m
      /\ m \in 0 .. Len(name) /\ DOMAIN Stem(name) = 1 .. m
      /\ \A n \in 1 .. m : Stem(name)[n] = name[n]
  BY StemFacts
<1>2. /\ L \in {3, 4} /\ device = [n \in 1 .. L |-> device[n]]
      /\ \A n \in 1 .. L : device[n] \in 48 .. 90
  BY Devices DEF IsDevice
<1>3. /\ L <= Len(name) /\ last \in L .. Len(name)
      /\ \A n \in 1 .. L : Upper(name[n]) = device[n]
      /\ \A n \in L + 1 .. last : name[n] = Space
      /\ last = Len(name) \/ name[last + 1] = Dot
  BY DEF NamesDevice
<1> HIDE DEF m, L
<1>4. \A n \in 1 .. L : name[n] # Dot /\ name[n] # Space
  <2> TAKE n \in 1 .. L
  <2>1. Upper(name[n]) \in 48 .. 90
    BY <1>2, <1>3
  <2>2. 46 \notin 97 .. 122 /\ 32 \notin 97 .. 122
        /\ 46 \notin 48 .. 90 /\ 32 \notin 48 .. 90
    OBVIOUS
  <2> QED BY <2>1, <2>2, Zenon DEF Upper, Dot, Space
<1>5. L \in Kept(name)
  <2>1. \A d \in dots : L < d
    <3> TAKE d \in dots
    <3>1. d \in 1 .. Len(name) /\ d \notin 1 .. L
      BY <1>0, <1>4
    <3> QED BY <1>0, <1>2, <3>1
  <2> QED BY <1>0, <1>2, <1>3, <1>4, <2>1 DEF Kept
<1>6. L <= m
  BY <1>1, <1>5
<1>7. m \in Kept(name)
  BY <1>1, <1>2, <1>6
<1>8. m <= L
  <2> SUFFICES ASSUME L < m PROVE FALSE
    BY <1>1, <1>2
  <2>1. name[m] # Space /\ \A d \in dots : m < d
    BY <1>7 DEF Kept
  <2>2. CASE m <= last
    <3>1. m \in L + 1 .. last
      BY <1>1, <1>2, <1>3, <2>2
    <3> QED BY <1>3, <2>1, <3>1
  <2>3. CASE last < m
    <3>1. last + 1 \in 1 .. Len(name) /\ name[last + 1] = Dot
      BY <1>0, <1>1, <1>2, <1>3, <2>3
    <3>2. m < last + 1
      BY <1>0, <2>1, <3>1
    <3> QED BY <1>0, <1>1, <1>2, <1>3, <2>3, <3>2
  <2>4. m \in Int /\ last \in Int
    BY <1>0, <1>1, <1>2, <1>3
  <2>5. m <= last \/ last < m
    BY <2>4
  <2> QED BY <2>2, <2>3, <2>5, Zenon
<1>9. m = L
  BY <1>1, <1>2, <1>6, <1>8
<1>10. [n \in DOMAIN Stem(name) |-> Upper(Stem(name)[n])] = device
  BY <1>1, <1>2, <1>3, <1>9
<1> QED BY <1>10 DEF IsReservedDeviceName

LEMMA SafeIsPortable ==
  ASSUME NEW name \in Seq(Bytes)
  PROVE  IsSafePlaneName(name) <=> IsPortable(name)
<1>1. IsReservedDeviceName(name)
        <=> \E device \in kReserved :
              LET length == Len(device) IN
              /\ length <= Len(name)
              /\ \A n \in 1 .. length : Upper(name[n]) = device[n]
              /\ \E last \in length .. Len(name) :
                   /\ \A n \in length + 1 .. last : name[n] = Space
                   /\ last = Len(name) \/ name[last + 1] = Dot
  BY ReservedNamesDevice, DeviceIsReserved DEF NamesDevice
<1>2. name # <<>> <=> Len(name) >= 1
  BY EmptySeq
<1>3. \A n \in DOMAIN name : name[n] \in Bytes
  OBVIOUS
<1>4. (\A n \in DOMAIN name : name[n] >= 32 /\ name[n] \notin {47, 92, 58})
        <=> (\A n \in DOMAIN name : name[n] \in (32 .. 255) \ {47, 92, 58})
  <2>1. \A c \in Bytes : (c >= 32 /\ c \notin {47, 92, 58})
                          <=> c \in (32 .. 255) \ {47, 92, 58}
    BY DEF Bytes
  <2> QED BY <1>3, <2>1, Zenon
<1>5. Len(name) \in 1 .. kMaxNameLength <=> Len(name) >= 1 /\ Len(name) <= kMaxNameLength
  BY SchemaAssumption
<1> QED BY <1>1, <1>2, <1>4, <1>5 DEF IsSafePlaneName, IsPortable

(* ---- The schema -------------------------------------------------------- *)

LEMMA OneFails ==
  ASSUME NEW codes, DOMAIN codes \subseteq Nat
  PROVE  FirstFailure(codes) = NoProblem
         \/ \E n \in DOMAIN codes : FirstFailure(codes) = codes[n]
<1> DEFINE failing == {n \in DOMAIN codes : codes[n] # NoProblem}
<1>1. CASE failing = {}
  BY <1>1 DEF FirstFailure
<1>2. CASE failing # {}
  <2>1. failing \subseteq Nat
    OBVIOUS
  <2>2. PICK x \in failing : \A y \in failing : x <= y
    BY <1>2, <2>1, HasLeast
  <2>3. (CHOOSE n \in failing : \A m \in failing : n <= m) \in failing
    BY <2>2
  <2>4. FirstFailure(codes) = codes[CHOOSE n \in failing : \A m \in failing : n <= m]
    BY <1>2 DEF FirstFailure
  <2> QED BY <2>3, <2>4
<1> QED BY <1>1, <1>2

(* What a refusal may say, but for the version of a document.              *)
Reasons ==
  {NoProblem, "malformedMetadata", "invalidShBands", "invalidCodebook",
   "invalidGaussianCount", "emptyPointSet", "importLimitExceeded",
   "unreadableFile", "malformedArchive", "notSogContainer", "missingPlane",
   "malformedPlane", "modelAllocationFailed"}

LEMMA ReasonFacts ==
  /\ NoProblem \in Reasons
  /\ \A code \in Reasons : code # "internalError" /\ code # "unsupportedVersion"
  /\ \A fails : \A code \in Reasons : Check(fails, code) \in Reasons
  /\ "internalError" # NoProblem /\ "unsupportedVersion" # NoProblem
BY DEF Reasons, NoProblem, Check

LEMMA ThreeIn ==
  \A S, a, b, c : NoProblem \in S /\ a \in S /\ b \in S /\ c \in S
    => FirstFailure(<<a, b, c>>) \in S
<1> TAKE S, a, b, c
<1> DEFINE codes == <<a, b, c>>
<1>1. DOMAIN codes = 1 .. 3 /\ codes[1] = a /\ codes[2] = b /\ codes[3] = c
  OBVIOUS
<1>2. \A n \in 1 .. 3 : n = 1 \/ n = 2 \/ n = 3
  OBVIOUS
<1> HIDE DEF codes
<1>3. FirstFailure(codes) = NoProblem
      \/ \E n \in 1 .. 3 : FirstFailure(codes) = codes[n]
  BY <1>1, OneFails
<1> QED BY <1>1, <1>2, <1>3 DEF codes

LEMMA TwoIn ==
  \A S, a, b : NoProblem \in S /\ a \in S /\ b \in S => FirstFailure(<<a, b>>) \in S
<1> TAKE S, a, b
<1> DEFINE codes == <<a, b>>
<1>1. DOMAIN codes = 1 .. 2 /\ codes[1] = a /\ codes[2] = b
  OBVIOUS
<1>2. \A n \in 1 .. 2 : n = 1 \/ n = 2
  OBVIOUS
<1> HIDE DEF codes
<1>3. FirstFailure(codes) = NoProblem
      \/ \E n \in 1 .. 2 : FirstFailure(codes) = codes[n]
  BY <1>1, OneFails
<1> QED BY <1>1, <1>2, <1>3 DEF codes

LEMMA SevenIn ==
  \A S, a, b, c, d, e, f, g :
    NoProblem \in S /\ a \in S /\ b \in S /\ c \in S /\ d \in S /\ e \in S /\ f \in S
      /\ g \in S => FirstFailure(<<a, b, c, d, e, f, g>>) \in S
<1> TAKE S, a, b, c, d, e, f, g
<1> DEFINE codes == <<a, b, c, d, e, f, g>>
<1>1. /\ DOMAIN codes = 1 .. 7 /\ codes[1] = a /\ codes[2] = b /\ codes[3] = c
      /\ codes[4] = d /\ codes[5] = e /\ codes[6] = f /\ codes[7] = g
  OBVIOUS
<1>2. \A n \in 1 .. 7 : n = 1 \/ n = 2 \/ n = 3 \/ n = 4 \/ n = 5 \/ n = 6 \/ n = 7
  OBVIOUS
<1> HIDE DEF codes
<1>3. FirstFailure(codes) = NoProblem
      \/ \E n \in 1 .. 7 : FirstFailure(codes) = codes[n]
  BY <1>1, OneFails
<1> QED BY <1>1, <1>2, <1>3 DEF codes

(* The list of the required properties, in the order of RequiredProblem.   *)
LEMMA TwentyPass ==
  \A a1, a2, a3, a4, a5, a6, a7, a8, a9, b1, b2, b3, b4, b5, b6, b7, b8, b9, c1, c2 :
    LET codes == <<a1, a2, a3, a4, a5, a6, a7, a8, a9, b1, b2, b3, b4, b5, b6, b7,
                   b8, b9, c1, c2>> IN
    /\ FirstFailure(codes) = NoProblem
         <=> /\ a1 = NoProblem /\ a2 = NoProblem /\ a3 = NoProblem /\ a4 = NoProblem
             /\ a5 = NoProblem /\ a6 = NoProblem /\ a7 = NoProblem /\ a8 = NoProblem
             /\ a9 = NoProblem /\ b1 = NoProblem /\ b2 = NoProblem /\ b3 = NoProblem
             /\ b4 = NoProblem /\ b5 = NoProblem /\ b6 = NoProblem /\ b7 = NoProblem
             /\ b8 = NoProblem /\ b9 = NoProblem /\ c1 = NoProblem /\ c2 = NoProblem
    /\ \A S : /\ NoProblem \in S
              /\ a1 \in S /\ a2 \in S /\ a3 \in S /\ a4 \in S /\ a5 \in S /\ a6 \in S
              /\ a7 \in S /\ a8 \in S /\ a9 \in S /\ b1 \in S /\ b2 \in S /\ b3 \in S
              /\ b4 \in S /\ b5 \in S /\ b6 \in S /\ b7 \in S /\ b8 \in S /\ b9 \in S
              /\ c1 \in S /\ c2 \in S
              => FirstFailure(codes) \in S
<1> TAKE a1, a2, a3, a4, a5, a6, a7, a8, a9, b1, b2, b3, b4, b5, b6, b7, b8, b9, c1, c2
<1> DEFINE codes == <<a1, a2, a3, a4, a5, a6, a7, a8, a9, b1, b2, b3, b4, b5, b6, b7,
                      b8, b9, c1, c2>>
<1>1. /\ DOMAIN codes = 1 .. 20
      /\ codes[1] = a1 /\ codes[2] = a2 /\ codes[3] = a3 /\ codes[4] = a4
      /\ codes[5] = a5 /\ codes[6] = a6 /\ codes[7] = a7 /\ codes[8] = a8
      /\ codes[9] = a9 /\ codes[10] = b1 /\ codes[11] = b2 /\ codes[12] = b3
      /\ codes[13] = b4 /\ codes[14] = b5 /\ codes[15] = b6 /\ codes[16] = b7
      /\ codes[17] = b8 /\ codes[18] = b9 /\ codes[19] = c1 /\ codes[20] = c2
  OBVIOUS
<1>2. \A n \in 1 .. 20 :
        \/ n = 1 \/ n = 2 \/ n = 3 \/ n = 4 \/ n = 5 \/ n = 6 \/ n = 7 \/ n = 8
        \/ n = 9 \/ n = 10 \/ n = 11 \/ n = 12 \/ n = 13 \/ n = 14 \/ n = 15
        \/ n = 16 \/ n = 17 \/ n = 18 \/ n = 19 \/ n = 20
  OBVIOUS
<1>3. /\ 1 \in 1 .. 20 /\ 2 \in 1 .. 20 /\ 3 \in 1 .. 20 /\ 4 \in 1 .. 20
      /\ 5 \in 1 .. 20 /\ 6 \in 1 .. 20 /\ 7 \in 1 .. 20 /\ 8 \in 1 .. 20
      /\ 9 \in 1 .. 20 /\ 10 \in 1 .. 20 /\ 11 \in 1 .. 20 /\ 12 \in 1 .. 20
      /\ 13 \in 1 .. 20 /\ 14 \in 1 .. 20 /\ 15 \in 1 .. 20 /\ 16 \in 1 .. 20
      /\ 17 \in 1 .. 20 /\ 18 \in 1 .. 20 /\ 19 \in 1 .. 20 /\ 20 \in 1 .. 20
  OBVIOUS
<1> HIDE DEF codes
<1>4. FirstFailure(codes) = NoProblem <=> \A n \in 1 .. 20 : codes[n] = NoProblem
  BY <1>1, AllPass
<1>5. FirstFailure(codes) = NoProblem
      \/ \E n \in 1 .. 20 : FirstFailure(codes) = codes[n]
  BY <1>1, OneFails
<1>6. FirstFailure(codes) = NoProblem
        <=> /\ a1 = NoProblem /\ a2 = NoProblem /\ a3 = NoProblem /\ a4 = NoProblem
            /\ a5 = NoProblem /\ a6 = NoProblem /\ a7 = NoProblem /\ a8 = NoProblem
            /\ a9 = NoProblem /\ b1 = NoProblem /\ b2 = NoProblem /\ b3 = NoProblem
            /\ b4 = NoProblem /\ b5 = NoProblem /\ b6 = NoProblem /\ b7 = NoProblem
            /\ b8 = NoProblem /\ b9 = NoProblem /\ c1 = NoProblem /\ c2 = NoProblem
  BY <1>1, <1>2, <1>3, <1>4
<1>7. \A S : /\ NoProblem \in S
             /\ a1 \in S /\ a2 \in S /\ a3 \in S /\ a4 \in S /\ a5 \in S /\ a6 \in S
             /\ a7 \in S /\ a8 \in S /\ a9 \in S /\ b1 \in S /\ b2 \in S /\ b3 \in S
             /\ b4 \in S /\ b5 \in S /\ b6 \in S /\ b7 \in S /\ b8 \in S /\ b9 \in S
             /\ c1 \in S /\ c2 \in S
             => FirstFailure(codes) \in S
  BY <1>1, <1>2, <1>5
<1> QED BY <1>6, <1>7 DEF codes

(* ---- Each check of the schema ------------------------------------------ *)

LEMMA ObjectRequired ==
  ASSUME NEW parent, NEW key
  PROVE  /\ RequireObject(parent, key) = NoProblem
              <=> Member(parent, key).type = "object"
         /\ RequireObject(parent, key) \in Reasons
<1>1. "malformedMetadata" # NoProblem /\ "malformedMetadata" \in Reasons
  BY DEF NoProblem, Reasons
<1> QED BY <1>1, ReasonFacts DEF RequireObject, Check

IsEven(value) == value.type = "number" /\ IsIntegral(value.number)

LEMMA IntegralRequired ==
  ASSUME NEW parent, NEW key, NEW code, code # NoProblem
  PROVE  /\ RequireIntegral(parent, key, code) = NoProblem <=> IsEven(Member(parent, key))
         /\ code \in Reasons => RequireIntegral(parent, key, code) \in Reasons
<1> DEFINE value == Member(parent, key)
<1>1. "malformedMetadata" # NoProblem /\ "malformedMetadata" \in Reasons
  BY DEF NoProblem, Reasons
<1>2. RequireIntegral(parent, key, code)
        = FirstFailure(<<Check(value.type # "number", "malformedMetadata"),
                         Check(~IsIntegral(value.number), code)>>)
  BY DEF RequireIntegral
<1> HIDE DEF value
<1>3. /\ Check(value.type # "number", "malformedMetadata") = NoProblem
           <=> value.type = "number"
      /\ Check(~IsIntegral(value.number), code) = NoProblem <=> IsIntegral(value.number)
  BY <1>1 DEF Check, IsIntegral
<1>4. RequireIntegral(parent, key, code) = NoProblem
        <=> value.type = "number" /\ IsIntegral(value.number)
  BY <1>2, <1>3, BothPass
<1>5. code \in Reasons => RequireIntegral(parent, key, code) \in Reasons
  BY <1>1, <1>2, ReasonFacts, TwoIn
<1> QED BY <1>4, <1>5 DEF value, IsEven

LEMMA Halves ==
  \A x \in Int : IsIntegral(x) =>
    /\ x \div 2 \in Int /\ x = 2 * (x \div 2)
BY DEF IsIntegral

LEMMA EvenIn ==
  ASSUME NEW value, value.number \in Int, NEW from \in Int, NEW to \in Int
  PROVE  IsNumberIn(value, Doubles(from, to))
           <=> IsEven(value) /\ value.number \div 2 \in from .. to
<1> DEFINE x == value.number
<1>1. x \in Int /\ (IsIntegral(x) => x \div 2 \in Int /\ x = 2 * (x \div 2))
  BY Halves
<1>2. \A n \in Int : IsIntegral(2 * n) /\ (2 * n) \div 2 = n
  BY DEF IsIntegral
<1>3. x \in Doubles(from, to) <=> IsIntegral(x) /\ x \div 2 \in from .. to
  <2>1. ASSUME x \in Doubles(from, to)
        PROVE  IsIntegral(x) /\ x \div 2 \in from .. to
    <3>1. PICK n \in from .. to : x = 2 * n
      BY <2>1 DEF Doubles
    <3> QED BY <1>2, <3>1
  <2>2. ASSUME IsIntegral(x), x \div 2 \in from .. to
        PROVE  x \in Doubles(from, to)
    BY <1>1, <2>2 DEF Doubles
  <2> QED BY <2>1, <2>2
<1> QED BY <1>3 DEF IsNumberIn, IsEven

IsFloatList(value, length) ==
  /\ value.type = "array" /\ DOMAIN value.items = 1 .. length
  /\ \A n \in 1 .. length :
       IsNumberIn(value.items[n], -kFloatLimit .. kFloatLimit)

LEMMA IntervalsEqual == \A a, b \in Nat : 1 .. a = 1 .. b => a = b
<1> TAKE a, b \in Nat
<1> HAVE 1 .. a = 1 .. b
<1>1. a > 0 => a \in 1 .. b
  OBVIOUS
<1>2. b > 0 => b \in 1 .. a
  OBVIOUS
<1>3. (a > 0 => a <= b) /\ (b > 0 => b <= a)
  BY <1>1, <1>2
<1> QED BY <1>3

LEMMA FloatArrayRequired ==
  ASSUME NEW parent, NEW key, NEW length \in Nat, NEW code, code # NoProblem,
         HasFields(Member(parent, key))
  PROVE  /\ RequireFloatArray(parent, key, length, code) = NoProblem
              <=> IsFloatList(Member(parent, key), length)
         /\ code \in Reasons => RequireFloatArray(parent, key, length, code) \in Reasons
<1> DEFINE value == Member(parent, key)
           a == value.type # "array"
           b == Len(value.items) # length
           c == \E n \in DOMAIN value.items : ~IsFloat(value.items[n])
<1>1. RequireFloatArray(parent, key, length, code)
        = FirstFailure(<<Check(a, code), Check(b, code), Check(c, code)>>)
  BY DEF RequireFloatArray
<1>2. /\ Check(a, code) = NoProblem <=> ~a
      /\ Check(b, code) = NoProblem <=> ~b
      /\ Check(c, code) = NoProblem <=> ~c
  BY Zenon DEF Check
<1>3. Len(value.items) \in Nat /\ DOMAIN value.items = 1 .. Len(value.items)
  BY DEF HasFields
<1>4. ~b <=> DOMAIN value.items = 1 .. length
  BY <1>3, IntervalsEqual
<1>5. \A n : IsFloat(value.items[n])
                <=> IsNumberIn(value.items[n], -kFloatLimit .. kFloatLimit)
  BY DEF IsFloat, IsNumberIn
<1>6. ~a /\ ~b /\ ~c <=> IsFloatList(value, length)
  BY <1>4, <1>5, Zenon DEF IsFloatList
<1> HIDE DEF a, b, c
<1>7. RequireFloatArray(parent, key, length, code) = NoProblem
        <=> IsFloatList(value, length)
  BY <1>1, <1>2, <1>6, ThreePass
<1>8. code \in Reasons => RequireFloatArray(parent, key, length, code) \in Reasons
  BY <1>1, ReasonFacts, ThreeIn
<1> QED BY <1>7, <1>8

IsNameList(value, length) ==
  /\ value.type = "array" /\ DOMAIN value.items = 1 .. length
  /\ \A n \in 1 .. length :
       value.items[n].type = "string" /\ IsPortable(value.items[n].text)

LEMMA FilesRequired ==
  ASSUME NEW property, NEW length \in Nat, HasFields(Member(property, "files")),
         \A n \in DOMAIN Member(property, "files").items :
           HasFields(Member(property, "files").items[n])
  PROVE  /\ RequireFiles(property, length) = NoProblem
              <=> IsNameList(Member(property, "files"), length)
         /\ RequireFiles(property, length) \in Reasons
<1> DEFINE files == Member(property, "files")
           code == "malformedMetadata"
           a == files.type # "array"
           b == Len(files.items) # length
           c == \E n \in DOMAIN files.items :
                  \/ files.items[n].type # "string"
                  \/ ~IsSafePlaneName(files.items[n].text)
<1>0. code # NoProblem /\ code \in Reasons
  BY DEF NoProblem, Reasons
<1>1. RequireFiles(property, length)
        = FirstFailure(<<Check(a, code), Check(b, code), Check(c, code)>>)
  BY DEF RequireFiles
<1> HIDE DEF code
<1>2. /\ Check(a, code) = NoProblem <=> ~a
      /\ Check(b, code) = NoProblem <=> ~b
      /\ Check(c, code) = NoProblem <=> ~c
  BY <1>0, Zenon DEF Check
<1>3. Len(files.items) \in Nat /\ DOMAIN files.items = 1 .. Len(files.items)
  BY DEF HasFields
<1>4. ~b <=> DOMAIN files.items = 1 .. length
  BY <1>3, IntervalsEqual
<1>5. \A n \in DOMAIN files.items :
        IsSafePlaneName(files.items[n].text) <=> IsPortable(files.items[n].text)
  BY SafeIsPortable DEF HasFields, Bytes
<1>6. ~a /\ ~b /\ ~c <=> IsNameList(files, length)
  BY <1>4, <1>5, Zenon DEF IsNameList
<1> HIDE DEF a, b, c
<1>7. RequireFiles(property, length) = NoProblem <=> IsNameList(files, length)
  BY <1>1, <1>2, <1>6, ThreePass
<1>8. RequireFiles(property, length) \in Reasons
  BY <1>0, <1>1, ReasonFacts, ThreeIn
<1> QED BY <1>7, <1>8

LEMMA ListForms ==
  ASSUME NEW property, NEW value, NEW length
  PROVE  /\ IsPlaneList(property, length)
              <=> property.type = "object"
                  /\ IsNameList(Member(property, "files"), length)
         /\ IsCodebook(value) <=> IsFloatList(value, kCodebookSize)
         /\ IsList(value, length,
                   LAMBDA item : IsNumberIn(item, -kFloatLimit .. kFloatLimit))
              <=> IsFloatList(value, length)
BY Zenon DEF IsPlaneList, IsNameList, IsCodebook, IsFloatList, IsList

(* ---- The schema, all of it --------------------------------------------- *)

LEMMA VersionRequired ==
  ASSUME NEW root, IsTree(root)
  PROVE  (/\ Check(Find(root, "version") = Nothing, "unsupportedVersion") = NoProblem
          /\ RequireIntegral(root, "version", "unsupportedVersion") = NoProblem
          /\ Check(Integer(root, "version") # kSupportedVersion, "unsupportedVersion")
               = NoProblem)
         <=> IsNumberIn(Member(root, "version"), {2 * kSupportedVersion})
<1> DEFINE version == Member(root, "version")
<1>0. "unsupportedVersion" # NoProblem
  BY DEF NoProblem
<1>1. version.number \in Int
  BY Fields DEF HasFields
<1>2. /\ RequireIntegral(root, "version", "unsupportedVersion") = NoProblem
           <=> IsEven(version)
      /\ Check(Integer(root, "version") # kSupportedVersion, "unsupportedVersion")
           = NoProblem <=> version.number \div 2 = 2
      /\ Check(Find(root, "version") = Nothing, "unsupportedVersion") = NoProblem
           <=> Find(root, "version") # Nothing
  BY <1>0, IntegralRequired DEF Check, Integer, kSupportedVersion
<1>3. version.type = "number" => Find(root, "version") # Nothing
  BY DEF Member, JsonValue
<1>4. IsNumberIn(version, {4}) <=> IsEven(version) /\ version.number \div 2 = 2
  <2>1. version.number = 4 <=> IsIntegral(version.number) /\ version.number \div 2 = 2
    BY <1>1 DEF IsIntegral
  <2> QED BY <2>1 DEF IsNumberIn, IsEven
<1>5. 2 * kSupportedVersion = 4
  BY DEF kSupportedVersion
<1> HIDE DEF version
<1> QED BY <1>2, <1>3, <1>4, <1>5 DEF IsEven, version

LEMMA CountRequired ==
  ASSUME NEW root, IsTree(root)
  PROVE  (/\ RequireIntegral(root, "count", "invalidGaussianCount") = NoProblem
          /\ Check(Integer(root, "count") \notin 0 .. kFormatMaxGaussianCount,
                   "invalidGaussianCount") = NoProblem
          /\ Check(Integer(root, "count") = 0, "emptyPointSet") = NoProblem
          /\ Check(Integer(root, "count") > kMaxGaussianCount, "importLimitExceeded")
               = NoProblem)
         <=> IsNumberIn(Member(root, "count"),
                        Doubles(1, Least(kMaxGaussianCount, kFormatMaxGaussianCount)))
<1> DEFINE count == Member(root, "count")
           n == Integer(root, "count")
           least == Least(kMaxGaussianCount, kFormatMaxGaussianCount)
<1>0. /\ "invalidGaussianCount" # NoProblem /\ "emptyPointSet" # NoProblem
      /\ "importLimitExceeded" # NoProblem
  BY DEF NoProblem
<1>1. count.number \in Int /\ n = count.number \div 2
  BY Fields DEF HasFields, Integer
<1>2. kMaxGaussianCount \in Nat /\ kFormatMaxGaussianCount \in Nat /\ least \in Nat
  BY SchemaAssumption DEF Least
<1>3. /\ RequireIntegral(root, "count", "invalidGaussianCount") = NoProblem <=> IsEven(count)
      /\ Check(n \notin 0 .. kFormatMaxGaussianCount, "invalidGaussianCount") = NoProblem
           <=> n \in 0 .. kFormatMaxGaussianCount
      /\ Check(n = 0, "emptyPointSet") = NoProblem <=> n # 0
      /\ Check(n > kMaxGaussianCount, "importLimitExceeded") = NoProblem
           <=> ~(n > kMaxGaussianCount)
  BY <1>0, IntegralRequired DEF Check
<1>4. IsNumberIn(count, Doubles(1, least)) <=> IsEven(count) /\ count.number \div 2 \in 1 .. least
  BY <1>1, <1>2, EvenIn
<1>5. n \in Int => (n \in 1 .. least
        <=> n \in 0 .. kFormatMaxGaussianCount /\ n # 0 /\ ~(n > kMaxGaussianCount))
  BY <1>2 DEF Least
<1>6. count.number \div 2 \in Int
  BY <1>1
<1> HIDE DEF count, n, least
<1> QED BY <1>1, <1>3, <1>4, <1>5, <1>6 DEF count, n, least

RequiredSchema(root) ==
  LET Property(key) == Member(root, key) IN
  /\ root.type = "object"
  /\ IsNumberIn(Property("version"), {2 * kSupportedVersion})
  /\ IsNumberIn(Property("count"),
                Doubles(1, Least(kMaxGaussianCount, kFormatMaxGaussianCount)))
  /\ IsPlaneList(Property("means"), 2)
  /\ IsFloatList(Member(Property("means"), "mins"), 3)
  /\ IsFloatList(Member(Property("means"), "maxs"), 3)
  /\ IsPlaneList(Property("scales"), 1) /\ IsCodebook(Member(Property("scales"), "codebook"))
  /\ IsPlaneList(Property("quats"), 1)
  /\ IsPlaneList(Property("sh0"), 1) /\ IsCodebook(Member(Property("sh0"), "codebook"))

LEMMA PlanesRequired ==
  ASSUME NEW root, IsTree(root), NEW key, NEW length \in Nat
  PROVE  /\ RequireFiles(Member(root, key), length) = NoProblem
              <=> IsNameList(Member(Member(root, key), "files"), length)
         /\ RequireFiles(Member(root, key), length) \in Reasons
         /\ RequireFloatArray(Member(root, key), "codebook", kCodebookSize,
                              "invalidCodebook") = NoProblem
              <=> IsCodebook(Member(Member(root, key), "codebook"))
         /\ RequireFloatArray(Member(root, key), "codebook", kCodebookSize,
                              "invalidCodebook") \in Reasons
<1>1. /\ HasFields(Member(Member(root, key), "files"))
      /\ HasFields(Member(Member(root, key), "codebook"))
      /\ \A n \in DOMAIN Member(Member(root, key), "files").items :
           HasFields(Member(Member(root, key), "files").items[n])
  BY Fields
<1>2. "invalidCodebook" # NoProblem /\ "invalidCodebook" \in Reasons
      /\ kCodebookSize \in Nat
  BY SchemaAssumption DEF NoProblem, Reasons
<1>3. /\ RequireFloatArray(Member(root, key), "codebook", kCodebookSize,
                           "invalidCodebook") = NoProblem
           <=> IsFloatList(Member(Member(root, key), "codebook"), kCodebookSize)
      /\ RequireFloatArray(Member(root, key), "codebook", kCodebookSize,
                           "invalidCodebook") \in Reasons
  BY <1>1, <1>2, FloatArrayRequired
<1> QED BY <1>1, <1>3, FilesRequired, ListForms

LEMMA RequiredIsChecked ==
  ASSUME NEW root, IsTree(root)
  PROVE  /\ RequiredProblem(root) = NoProblem <=> RequiredSchema(root)
         /\ RequiredProblem(root) \in Reasons \cup {"unsupportedVersion"}
         /\ IsNumberIn(Member(root, "version"), {2 * kSupportedVersion})
              => RequiredProblem(root) \in Reasons
<1> DEFINE
     means == Member(root, "means")
     count == Integer(root, "count")
     a1 == Check(root.type # "object", "malformedMetadata")
     a2 == Check(Find(root, "version") = Nothing, "unsupportedVersion")
     a3 == RequireIntegral(root, "version", "unsupportedVersion")
     a4 == Check(Integer(root, "version") # kSupportedVersion, "unsupportedVersion")
     a5 == RequireIntegral(root, "count", "invalidGaussianCount")
     a6 == Check(count \notin 0 .. kFormatMaxGaussianCount, "invalidGaussianCount")
     a7 == Check(count = 0, "emptyPointSet")
     a8 == Check(count > kMaxGaussianCount, "importLimitExceeded")
     a9 == RequireObject(root, "means")
     b1 == RequireFloatArray(means, "mins", 3, "malformedMetadata")
     b2 == RequireFloatArray(means, "maxs", 3, "malformedMetadata")
     b3 == RequireFiles(means, 2)
     b4 == RequireObject(root, "scales")
     b5 == RequireFloatArray(Member(root, "scales"), "codebook", kCodebookSize,
                             "invalidCodebook")
     b6 == RequireFiles(Member(root, "scales"), 1)
     b7 == RequireObject(root, "quats")
     b8 == RequireFiles(Member(root, "quats"), 1)
     b9 == RequireObject(root, "sh0")
     c1 == RequireFloatArray(Member(root, "sh0"), "codebook", kCodebookSize,
                             "invalidCodebook")
     c2 == RequireFiles(Member(root, "sh0"), 1)
     Within(S) ==
       /\ a1 \in S /\ a2 \in S /\ a3 \in S /\ a4 \in S /\ a5 \in S /\ a6 \in S
       /\ a7 \in S /\ a8 \in S /\ a9 \in S /\ b1 \in S /\ b2 \in S /\ b3 \in S
       /\ b4 \in S /\ b5 \in S /\ b6 \in S /\ b7 \in S /\ b8 \in S /\ b9 \in S
       /\ c1 \in S /\ c2 \in S
<1>0. /\ "malformedMetadata" # NoProblem /\ "malformedMetadata" \in Reasons
      /\ "invalidGaussianCount" # NoProblem /\ "invalidGaussianCount" \in Reasons
      /\ "emptyPointSet" \in Reasons /\ "importLimitExceeded" \in Reasons
      /\ "unsupportedVersion" # NoProblem
  BY DEF NoProblem, Reasons
<1>1. /\ a1 = NoProblem <=> root.type = "object"
      /\ a1 \in Reasons
  BY <1>0, ReasonFacts DEF Check
<1>2. (a2 = NoProblem /\ a3 = NoProblem /\ a4 = NoProblem)
        <=> IsNumberIn(Member(root, "version"), {2 * kSupportedVersion})
  BY VersionRequired
<1>3. (a5 = NoProblem /\ a6 = NoProblem /\ a7 = NoProblem /\ a8 = NoProblem)
        <=> IsNumberIn(Member(root, "count"),
                       Doubles(1, Least(kMaxGaussianCount, kFormatMaxGaussianCount)))
  BY CountRequired
<1>4. a5 \in Reasons /\ a6 \in Reasons /\ a7 \in Reasons /\ a8 \in Reasons
  BY <1>0, ReasonFacts, IntegralRequired
<1>5. /\ a9 = NoProblem <=> means.type = "object"
      /\ b4 = NoProblem <=> Member(root, "scales").type = "object"
      /\ b7 = NoProblem <=> Member(root, "quats").type = "object"
      /\ b9 = NoProblem <=> Member(root, "sh0").type = "object"
      /\ a9 \in Reasons /\ b4 \in Reasons /\ b7 \in Reasons /\ b9 \in Reasons
  BY ObjectRequired
<1>6. /\ b1 = NoProblem <=> IsFloatList(Member(means, "mins"), 3)
      /\ b2 = NoProblem <=> IsFloatList(Member(means, "maxs"), 3)
      /\ b1 \in Reasons /\ b2 \in Reasons
  <2>1. HasFields(Member(means, "mins")) /\ HasFields(Member(means, "maxs")) /\ 3 \in Nat
    BY Fields
  <2> QED BY <1>0, <2>1, FloatArrayRequired
<1>7. /\ b3 = NoProblem <=> IsNameList(Member(means, "files"), 2)
      /\ b6 = NoProblem <=> IsNameList(Member(Member(root, "scales"), "files"), 1)
      /\ b8 = NoProblem <=> IsNameList(Member(Member(root, "quats"), "files"), 1)
      /\ c2 = NoProblem <=> IsNameList(Member(Member(root, "sh0"), "files"), 1)
      /\ b5 = NoProblem <=> IsCodebook(Member(Member(root, "scales"), "codebook"))
      /\ c1 = NoProblem <=> IsCodebook(Member(Member(root, "sh0"), "codebook"))
      /\ b3 \in Reasons /\ b6 \in Reasons /\ b8 \in Reasons /\ c2 \in Reasons
      /\ b5 \in Reasons /\ c1 \in Reasons
  <2>1. 1 \in Nat /\ 2 \in Nat
    OBVIOUS
  <2> QED BY <2>1, PlanesRequired
<1>8. RequiredProblem(root)
        = FirstFailure(<<a1, a2, a3, a4, a5, a6, a7, a8, a9, b1, b2, b3, b4, b5, b6,
                         b7, b8, b9, c1, c2>>)
  BY Zenon DEF RequiredProblem
<1>9. \A fails : \A code, S : NoProblem \in S /\ code \in S => Check(fails, code) \in S
  BY DEF Check
<1>10. a2 \in Reasons \cup {"unsupportedVersion"}
       /\ a3 \in Reasons \cup {"unsupportedVersion"}
       /\ a4 \in Reasons \cup {"unsupportedVersion"}
  <2>1. /\ NoProblem \in Reasons \cup {"unsupportedVersion"}
        /\ "malformedMetadata" \in Reasons \cup {"unsupportedVersion"}
        /\ "unsupportedVersion" \in Reasons \cup {"unsupportedVersion"}
    BY <1>0, ReasonFacts
  <2>2. a3 \in Reasons \cup {"unsupportedVersion"}
    BY <1>9, <2>1, TwoIn DEF RequireIntegral
  <2> QED BY <1>9, <2>1, <2>2
<1>11. RequiredProblem(root) = NoProblem
         <=> /\ a1 = NoProblem /\ a2 = NoProblem /\ a3 = NoProblem /\ a4 = NoProblem
             /\ a5 = NoProblem /\ a6 = NoProblem /\ a7 = NoProblem /\ a8 = NoProblem
             /\ a9 = NoProblem /\ b1 = NoProblem /\ b2 = NoProblem /\ b3 = NoProblem
             /\ b4 = NoProblem /\ b5 = NoProblem /\ b6 = NoProblem /\ b7 = NoProblem
             /\ b8 = NoProblem /\ b9 = NoProblem /\ c1 = NoProblem /\ c2 = NoProblem
  <2> HIDE DEF a1, a2, a3, a4, a5, a6, a7, a8, a9, b1, b2, b3, b4, b5, b6, b7, b8, b9,
               c1, c2
  <2> QED BY <1>8, TwentyPass
<1>12. \A S : NoProblem \in S /\ Within(S) => RequiredProblem(root) \in S
  <2> HIDE DEF a1, a2, a3, a4, a5, a6, a7, a8, a9, b1, b2, b3, b4, b5, b6, b7, b8, b9,
               c1, c2
  <2> QED BY <1>8, TwentyPass
<1> HIDE DEF a1, a2, a3, a4, a5, a6, a7, a8, a9, b1, b2, b3, b4, b5, b6, b7, b8, b9,
             c1, c2
<1>13. RequiredProblem(root) = NoProblem <=> RequiredSchema(root)
  BY <1>1, <1>2, <1>3, <1>5, <1>6, <1>7, <1>11, ListForms, Zenon DEF RequiredSchema
<1>14. Within(Reasons \cup {"unsupportedVersion"})
  BY <1>1, <1>4, <1>5, <1>6, <1>7, <1>10
<1>15. RequiredProblem(root) \in Reasons \cup {"unsupportedVersion"}
  BY <1>12, <1>14, ReasonFacts
<1>16. IsNumberIn(Member(root, "version"), {2 * kSupportedVersion}) => Within(Reasons)
  BY <1>1, <1>2, <1>4, <1>5, <1>6, <1>7, ReasonFacts
<1> QED BY <1>12, <1>13, <1>15, <1>16, ReasonFacts

ShNSchema(shN) ==
  /\ IsPlaneList(shN, 2) /\ IsCodebook(Member(shN, "codebook"))
  /\ IsNumberIn(Member(shN, "bands"), {2, 4, 6})
  /\ IsNumberIn(Member(shN, "count"), Doubles(0, kFormatMaxGaussianCount))

LEMMA ShNIsChecked ==
  ASSUME NEW root, IsTree(root)
  PROVE  /\ ShNProblem(root) = NoProblem
              <=> \/ Member(root, "shN").type = "null"
                  \/ ShNSchema(Member(root, "shN"))
         /\ ShNProblem(root) \in Reasons
<1> DEFINE
     shN == Member(root, "shN")
     a == Check(shN.type # "object", "malformedMetadata")
     b == RequireIntegral(shN, "bands", "invalidShBands")
     c == Check(Integer(shN, "bands") \notin 1 .. 3, "invalidShBands")
     d == RequireIntegral(shN, "count", "malformedMetadata")
     e == Check(Integer(shN, "count") \notin 0 .. kFormatMaxGaussianCount,
                "malformedMetadata")
     f == RequireFloatArray(shN, "codebook", kCodebookSize, "invalidCodebook")
     g == RequireFiles(shN, 2)
<1>0. /\ "malformedMetadata" # NoProblem /\ "malformedMetadata" \in Reasons
      /\ "invalidShBands" # NoProblem /\ "invalidShBands" \in Reasons
  BY DEF NoProblem, Reasons
<1>1. Member(shN, "bands").number \in Int /\ Member(shN, "count").number \in Int
  BY Fields DEF HasFields
<1>2. a = NoProblem <=> shN.type = "object"
  BY <1>0 DEF Check
<1>3. (b = NoProblem /\ c = NoProblem) <=> IsNumberIn(Member(shN, "bands"), {2, 4, 6})
  <2>1. /\ b = NoProblem <=> IsEven(Member(shN, "bands"))
        /\ c = NoProblem <=> Integer(shN, "bands") \in 1 .. 3
    BY <1>0, IntegralRequired DEF Check
  <2>2. Doubles(1, 3) = {2, 4, 6}
    BY DEF Doubles
  <2>3. IsNumberIn(Member(shN, "bands"), Doubles(1, 3))
          <=> IsEven(Member(shN, "bands")) /\ Member(shN, "bands").number \div 2 \in 1 .. 3
    <3>1. 1 \in Int /\ 3 \in Int
      OBVIOUS
    <3> QED BY <1>1, <3>1, EvenIn
  <2> QED BY <2>1, <2>2, <2>3, Zenon DEF Integer
<1>4. (d = NoProblem /\ e = NoProblem)
        <=> IsNumberIn(Member(shN, "count"), Doubles(0, kFormatMaxGaussianCount))
  <2>1. /\ d = NoProblem <=> IsEven(Member(shN, "count"))
        /\ e = NoProblem <=> Integer(shN, "count") \in 0 .. kFormatMaxGaussianCount
    BY <1>0, IntegralRequired DEF Check
  <2>2. IsNumberIn(Member(shN, "count"), Doubles(0, kFormatMaxGaussianCount))
          <=> IsEven(Member(shN, "count"))
              /\ Member(shN, "count").number \div 2 \in 0 .. kFormatMaxGaussianCount
    <3>1. 0 \in Int /\ kFormatMaxGaussianCount \in Int
      BY SchemaAssumption
    <3> QED BY <1>1, <3>1, EvenIn
  <2> QED BY <2>1, <2>2, Zenon DEF Integer
<1>5. /\ f = NoProblem <=> IsCodebook(Member(shN, "codebook"))
      /\ g = NoProblem <=> IsNameList(Member(shN, "files"), 2)
      /\ f \in Reasons /\ g \in Reasons
  <2>1. 2 \in Nat
    OBVIOUS
  <2> QED BY <2>1, PlanesRequired
<1>6. a \in Reasons /\ b \in Reasons /\ c \in Reasons /\ d \in Reasons /\ e \in Reasons
  BY <1>0, ReasonFacts, IntegralRequired
<1>7. HasShN(root) => ShNProblem(root) = FirstFailure(<<a, b, c, d, e, f, g>>)
  BY Zenon DEF ShNProblem
<1>8. /\ ~HasShN(root) => ShNProblem(root) = NoProblem
      /\ HasShN(root) <=> shN.type # "null"
  BY DEF ShNProblem, HasShN
<1> HIDE DEF a, b, c, d, e, f, g
<1>9. HasShN(root) => /\ ShNProblem(root) = NoProblem
                          <=> /\ a = NoProblem /\ b = NoProblem /\ c = NoProblem
                              /\ d = NoProblem /\ e = NoProblem /\ f = NoProblem
                              /\ g = NoProblem
                      /\ ShNProblem(root) \in Reasons
  BY <1>5, <1>6, <1>7, SevenPass, SevenIn, ReasonFacts
<1> HIDE DEF shN
<1>10. ShNSchema(shN) <=> /\ a = NoProblem /\ b = NoProblem /\ c = NoProblem
                          /\ d = NoProblem /\ e = NoProblem /\ f = NoProblem
                          /\ g = NoProblem
  BY <1>2, <1>3, <1>4, <1>5, ListForms, Zenon DEF ShNSchema
<1>11. "object" # "null" /\ (ShNSchema(shN) => shN.type = "object")
  BY <1>2, <1>10
<1> QED BY <1>8, <1>9, <1>10, <1>11, ReasonFacts DEF shN

LEMMA NamesAreChecked ==
  ASSUME NEW root
  PROVE  /\ ValidatePlaneNames(root) = NoProblem <=> IsInjective(PlaneNames(root))
         /\ ValidatePlaneNames(root) \in Reasons
<1> DEFINE names == PlaneNames(root)
<1>1. DOMAIN names \subseteq Int
  BY DEF PlaneNames
<1>2. "malformedMetadata" # NoProblem /\ "malformedMetadata" \in Reasons
  BY DEF NoProblem, Reasons
<1>3. ValidatePlaneNames(root)
        = Check(\E i, j \in DOMAIN names : j < i /\ names[i] = names[j],
                "malformedMetadata")
  BY DEF ValidatePlaneNames
<1> HIDE DEF names
<1>4. (\E i, j \in DOMAIN names : j < i /\ names[i] = names[j]) <=> ~IsInjective(names)
  <2>1. \A i, j \in DOMAIN names : i # j => i < j \/ j < i
    BY <1>1
  <2>2. \A i, j \in DOMAIN names : i < j => i # j
    BY <1>1
  <2> QED BY <2>1, <2>2 DEF IsInjective
<1>5. ValidatePlaneNames(root) = NoProblem <=> IsInjective(names)
  BY <1>2, <1>3, <1>4, Zenon DEF Check
<1> QED BY <1>2, <1>3, <1>5, ReasonFacts DEF names

LEMMA SchemaForm ==
  ASSUME NEW root
  PROVE  IsSchema(root)
           <=> /\ RequiredSchema(root)
               /\ \/ Member(root, "shN").type = "null"
                  \/ ShNSchema(Member(root, "shN"))
               /\ IsInjective(PlaneNames(root))
<1>1. \A value : IsList(value, 3,
                        LAMBDA item : IsNumberIn(item, -kFloatLimit .. kFloatLimit))
                   <=> IsFloatList(value, 3)
  BY ListForms
<1>2. (\A bound \in {"mins", "maxs"} :
         IsList(Member(Member(root, "means"), bound), 3,
                LAMBDA item : IsNumberIn(item, -kFloatLimit .. kFloatLimit)))
        <=> /\ IsFloatList(Member(Member(root, "means"), "mins"), 3)
            /\ IsFloatList(Member(Member(root, "means"), "maxs"), 3)
  BY <1>1, Zenon
<1> QED BY <1>2, Zenon DEF IsSchema, RequiredSchema, ShNSchema

(* ParseMetaJson accepts the documents of the schema.                      *)
LEMMA SchemaIsChecked ==
  ASSUME NEW root, IsTree(root)
  PROVE  /\ ParseMetaJson(root) = NoProblem <=> IsSchema(root)
         /\ ParseMetaJson(root) \in Reasons \cup {"unsupportedVersion"}
         /\ IsNumberIn(Member(root, "version"), {2 * kSupportedVersion})
              => ParseMetaJson(root) # "unsupportedVersion"
<1> DEFINE a == RequiredProblem(root)
           b == ShNProblem(root)
           first == FirstFailure(<<a, b>>)
<1>1. ParseMetaJson(root) = IF first # NoProblem THEN first ELSE ValidatePlaneNames(root)
  BY DEF ParseMetaJson
<1>2. /\ first = NoProblem <=> a = NoProblem /\ b = NoProblem
      /\ \A S : NoProblem \in S /\ a \in S /\ b \in S => first \in S
  BY BothPass, TwoIn
<1> HIDE DEF a, b, first
<1>3. /\ a = NoProblem <=> RequiredSchema(root)
      /\ a \in Reasons \cup {"unsupportedVersion"}
      /\ IsNumberIn(Member(root, "version"), {2 * kSupportedVersion}) => a \in Reasons
  BY RequiredIsChecked DEF a
<1>4. /\ b = NoProblem <=> \/ Member(root, "shN").type = "null"
                           \/ ShNSchema(Member(root, "shN"))
      /\ b \in Reasons
  BY ShNIsChecked DEF b
<1>5. ParseMetaJson(root) = NoProblem <=> IsSchema(root)
  BY <1>1, <1>2, <1>3, <1>4, NamesAreChecked, SchemaForm
<1>6. ParseMetaJson(root) \in Reasons \cup {"unsupportedVersion"}
  <2> DEFINE S == Reasons \cup {"unsupportedVersion"}
  <2>1. NoProblem \in S /\ a \in S /\ b \in S /\ ValidatePlaneNames(root) \in S
    BY <1>3, <1>4, NamesAreChecked, ReasonFacts
  <2> HIDE DEF S
  <2>2. ParseMetaJson(root) \in S
    BY <1>1, <1>2, <2>1
  <2> QED BY <2>2 DEF S
<1>7. IsNumberIn(Member(root, "version"), {2 * kSupportedVersion})
        => ParseMetaJson(root) \in Reasons
  BY <1>1, <1>2, <1>3, <1>4, NamesAreChecked, ReasonFacts
<1> QED BY <1>5, <1>6, <1>7, ReasonFacts

LEMMA SchemaLooksLikeSog ==
  ASSUME NEW root, IsSchema(root)
  PROVE  IsSogDocument(root)
<1>1. /\ root.type = "object"
      /\ IsNumberIn(Member(root, "version"), {2 * kSupportedVersion})
      /\ IsPlaneList(Member(root, "means"), 2) /\ IsPlaneList(Member(root, "scales"), 1)
      /\ IsPlaneList(Member(root, "quats"), 1) /\ IsPlaneList(Member(root, "sh0"), 1)
  BY SchemaForm DEF RequiredSchema
<1>2. \A property \in {"means", "scales", "quats", "sh0"} :
        \E length \in {1, 2} : IsPlaneList(Member(root, property), length)
  BY <1>1, Zenon
<1>3. ASSUME NEW property \in {"means", "scales", "quats", "sh0"}
      PROVE  LET files == Member(Member(root, property), "files") IN
             /\ Member(root, property).type = "object"
             /\ files.type = "array" /\ files.items # <<>>
             /\ \A n \in DOMAIN files.items : files.items[n].type = "string"
  <2> DEFINE files == Member(Member(root, property), "files")
  <2>1. PICK length \in {1, 2} : IsPlaneList(Member(root, property), length)
    BY <1>2
  <2>2. /\ Member(root, property).type = "object" /\ files.type = "array"
        /\ DOMAIN files.items = 1 .. length
        /\ \A n \in 1 .. length : files.items[n].type = "string"
    BY <2>1, Zenon DEF IsPlaneList, IsList
  <2>3. files.items # <<>>
    <3>1. 1 \in DOMAIN files.items
      BY <2>2
    <3>2. DOMAIN <<>> = {}
      OBVIOUS
    <3> QED BY <3>1, <3>2, Zenon
  <2> QED BY <2>2, <2>3
<1> QED BY <1>1, <1>3 DEF IsSogDocument, IsNumberIn

(* ---- The archive, all of it -------------------------------------------- *)

LEMMA FourChecks ==
  \A a, b, c, d :
    /\ FirstFailure(<<a, b, c, d>>) = NoProblem
         <=> a = NoProblem /\ b = NoProblem /\ c = NoProblem /\ d = NoProblem
    /\ \A S : NoProblem \in S /\ a \in S /\ b \in S /\ c \in S /\ d \in S
                => FirstFailure(<<a, b, c, d>>) \in S
<1> TAKE a, b, c, d
<1> DEFINE codes == <<a, b, c, d>>
<1>1. /\ DOMAIN codes = 1 .. 4
      /\ codes[1] = a /\ codes[2] = b /\ codes[3] = c /\ codes[4] = d
  OBVIOUS
<1>2. \A n \in 1 .. 4 : n = 1 \/ n = 2 \/ n = 3 \/ n = 4
  OBVIOUS
<1> HIDE DEF codes
<1>3. /\ FirstFailure(codes) = NoProblem <=> \A n \in 1 .. 4 : codes[n] = NoProblem
      /\ \/ FirstFailure(codes) = NoProblem
         \/ \E n \in 1 .. 4 : FirstFailure(codes) = codes[n]
  BY <1>1, AllPass, OneFails
<1> QED BY <1>1, <1>2, <1>3 DEF codes

LEMMA FiveChecks ==
  \A a, b, c, d, e :
    /\ FirstFailure(<<a, b, c, d, e>>) = NoProblem
         <=> a = NoProblem /\ b = NoProblem /\ c = NoProblem /\ d = NoProblem
             /\ e = NoProblem
    /\ \A S : NoProblem \in S /\ a \in S /\ b \in S /\ c \in S /\ d \in S /\ e \in S
                => FirstFailure(<<a, b, c, d, e>>) \in S
<1> TAKE a, b, c, d, e
<1> DEFINE codes == <<a, b, c, d, e>>
<1>1. /\ DOMAIN codes = 1 .. 5
      /\ codes[1] = a /\ codes[2] = b /\ codes[3] = c /\ codes[4] = d /\ codes[5] = e
  OBVIOUS
<1>2. \A n \in 1 .. 5 : n = 1 \/ n = 2 \/ n = 3 \/ n = 4 \/ n = 5
  OBVIOUS
<1> HIDE DEF codes
<1>3. /\ FirstFailure(codes) = NoProblem <=> \A n \in 1 .. 5 : codes[n] = NoProblem
      /\ \/ FirstFailure(codes) = NoProblem
         \/ \E n \in 1 .. 5 : FirstFailure(codes) = codes[n]
  BY <1>1, AllPass, OneFails
<1> QED BY <1>1, <1>2, <1>3 DEF codes

AreEntries(entries) ==
  /\ Len(entries) \in Nat /\ DOMAIN entries = 1 .. Len(entries)
  /\ \A n \in DOMAIN entries :
       /\ entries[n].directory \in BOOLEAN /\ IsContent(entries[n].file)
       /\ Size(entries[n]) \in Nat

LEMMA EntriesOf ==
  ASSUME NEW v, IsFile(v), v.archive # Nothing
  PROVE  AreEntries(v.archive[1]) /\ v.zip
BY DEF AreEntries, IsFile, IsContent, Size, Nothing

EntryPasses(entries, n) ==
  \/ entries[n].directory
  \/ /\ entries[n].readable /\ ~(Size(entries[n]) > kMaxPlaneBytes)
     /\ ~(Size(entries[n]) > kMaxZipExpandedBytes - Expanded(entries, n - 1))
     /\ \A m \in 1 .. n - 1 :
          ~(~entries[m].directory /\ entries[m].name = entries[n].name)

LEMMA EntryIsChecked ==
  ASSUME NEW entries, NEW n
  PROVE  /\ EntryProblem(entries, n) = NoProblem <=> EntryPasses(entries, n)
         /\ EntryProblem(entries, n) \in Reasons
<1> DEFINE
     p == ~entries[n].readable
     q == Size(entries[n]) > kMaxPlaneBytes
     r == Size(entries[n]) > kMaxZipExpandedBytes - Expanded(entries, n - 1)
     s == \E m \in 1 .. n - 1 :
            ~entries[m].directory /\ entries[m].name = entries[n].name
     a == Check(p, "malformedArchive")
     b == Check(q, "importLimitExceeded")
     c == Check(r, "importLimitExceeded")
     d == Check(s, "malformedArchive")
<1>0. /\ "malformedArchive" # NoProblem /\ "malformedArchive" \in Reasons
      /\ "importLimitExceeded" # NoProblem /\ "importLimitExceeded" \in Reasons
  BY DEF NoProblem, Reasons
<1>1. EntryProblem(entries, n)
        = IF entries[n].directory THEN NoProblem ELSE FirstFailure(<<a, b, c, d>>)
  BY DEF EntryProblem
<1>2. EntryPasses(entries, n) <=> (entries[n].directory \/ (~p /\ ~q /\ ~r /\ ~s))
  BY Zenon DEF EntryPasses
<1> HIDE DEF p, q, r, s
<1>3. /\ a = NoProblem <=> ~p
      /\ b = NoProblem <=> ~q
      /\ c = NoProblem <=> ~r
      /\ d = NoProblem <=> ~s
  BY <1>0, Zenon DEF Check
<1>4. a \in Reasons /\ b \in Reasons /\ c \in Reasons /\ d \in Reasons
  BY <1>0, ReasonFacts
<1> HIDE DEF a, b, c, d
<1>5. /\ FirstFailure(<<a, b, c, d>>) = NoProblem <=> ~p /\ ~q /\ ~r /\ ~s
      /\ FirstFailure(<<a, b, c, d>>) \in Reasons
  BY <1>3, <1>4, FourChecks, ReasonFacts
<1> QED BY <1>1, <1>2, <1>5, ReasonFacts

(* What precedes an entry expands to no more than all of them do.          *)
LEMMA ExpandedBounds ==
  ASSUME NEW entries, AreEntries(entries)
  PROVE  /\ \A k \in 0 .. Len(entries) : Expanded(entries, k) \in Nat
         /\ \A k \in 0 .. Len(entries) :
              Expanded(entries, k) <= Expanded(entries, Len(entries))
<1> DEFINE L == Len(entries)
           sums == {k \in Nat : k <= L => Expanded(entries, k) \in Nat}
           bounded == {j \in Nat : j <= L =>
                         Expanded(entries, L - j) <= Expanded(entries, L)}
<1>0. L \in Nat /\ DOMAIN entries = 1 .. L
  BY DEF AreEntries
<1>1. \A k \in Nat : k + 1 <= L =>
        /\ Size(entries[k + 1]) \in Nat
        /\ Expanded(entries, k + 1) = Expanded(entries, k) + Size(entries[k + 1])
  <2> TAKE k \in Nat
  <2>1. k + 1 <= L => k + 1 \in DOMAIN entries
    BY <1>0
  <2> QED BY <2>1, ExpandedGrows DEF AreEntries
<1> HIDE DEF L
<1>2. 0 \in sums
  BY ExpandedGrows
<1>3. ASSUME NEW k \in Nat, k \in sums PROVE k + 1 \in sums
  BY <1>0, <1>1, <1>3
<1>4. \A k \in Nat : k \in sums
  <2> HIDE DEF sums
  <2> QED BY <1>2, <1>3, Inductive
<1>5. \A k \in 0 .. L : Expanded(entries, k) \in Nat
  BY <1>0, <1>4
<1>6. 0 \in bounded
  BY <1>0, <1>5
<1>7. ASSUME NEW j \in Nat, j \in bounded PROVE j + 1 \in bounded
  <2> SUFFICES ASSUME j + 1 <= L
               PROVE  Expanded(entries, L - (j + 1)) <= Expanded(entries, L)
    OBVIOUS
  <2> DEFINE k == L - (j + 1)
  <2>1. k \in Nat /\ k + 1 = L - j /\ k + 1 <= L /\ j <= L /\ k \in 0 .. L
        /\ k + 1 \in 0 .. L /\ L \in 0 .. L
    BY <1>0
  <2>2. Expanded(entries, k + 1) <= Expanded(entries, L)
    BY <1>7, <2>1
  <2> HIDE DEF k
  <2>3. Expanded(entries, k) <= Expanded(entries, k + 1)
    BY <1>1, <1>5, <2>1
  <2>4. Expanded(entries, k) <= Expanded(entries, L)
    BY <1>5, <2>1, <2>2, <2>3
  <2> QED BY <2>4 DEF k
<1>8. \A j \in Nat : j \in bounded
  <2> HIDE DEF bounded
  <2> QED BY <1>6, <1>7, Inductive
<1>9. ASSUME NEW k \in 0 .. L PROVE Expanded(entries, k) <= Expanded(entries, L)
  <2>1. L - k \in Nat /\ L - k <= L /\ L - (L - k) = k
    BY <1>0
  <2> QED BY <1>8, <2>1
<1> QED BY <1>5, <1>9 DEF L

(* ZipArchive::Init accepts the archives within the limits.                *)
LEMMA ArchiveIsChecked ==
  ASSUME NEW v, IsFile(v)
  PROVE  /\ ArchiveProblem(v) = NoProblem <=> IsArchive(v)
         /\ ArchiveProblem(v) \in Reasons
<1>0. /\ "malformedArchive" # NoProblem /\ "malformedArchive" \in Reasons
      /\ "importLimitExceeded" # NoProblem /\ "importLimitExceeded" \in Reasons
  BY DEF NoProblem, Reasons
<1>1. CASE v.archive = Nothing
  BY <1>0, <1>1 DEF ArchiveProblem, IsArchive
<1>2. CASE v.archive # Nothing
  <2> DEFINE entries == v.archive[1]
             codes == [n \in DOMAIN entries |-> EntryProblem(entries, n)]
             files == {n \in DOMAIN entries : ~entries[n].directory}
  <2>1. /\ AreEntries(entries) /\ Len(entries) \in Nat
        /\ DOMAIN entries = 1 .. Len(entries)
    BY <1>2, EntriesOf DEF AreEntries
  <2>2. ArchiveProblem(v) = IF Len(entries) > kMaxZipEntryCount
                            THEN "importLimitExceeded" ELSE FirstFailure(codes)
    BY <1>2 DEF ArchiveProblem
  <2>3. /\ FirstFailure(codes) = NoProblem <=> \A n \in DOMAIN entries : codes[n] = NoProblem
        /\ FirstFailure(codes) \in Reasons
    <3>1. DOMAIN codes = DOMAIN entries /\ DOMAIN codes \subseteq Nat
      BY <2>1
    <3>2. \A n \in DOMAIN codes : codes[n] \in Reasons
      BY EntryIsChecked
    <3> HIDE DEF codes
    <3> QED BY <3>1, <3>2, AllPass, OneFails, ReasonFacts
  <2>4. FirstFailure(codes) = NoProblem
          <=> \A n \in DOMAIN entries : EntryPasses(entries, n)
    <3>1. \A n \in DOMAIN entries : codes[n] = EntryProblem(entries, n)
      OBVIOUS
    <3> HIDE DEF codes, entries
    <3> QED BY <2>3, <3>1, EntryIsChecked
  <2>5. IsArchive(v) <=>
          /\ Len(entries) <= kMaxZipEntryCount
          /\ \A n \in files : entries[n].readable /\ Size(entries[n]) <= kMaxPlaneBytes
          /\ Expanded(entries, Len(entries)) <= kMaxZipExpandedBytes
          /\ \A m, n \in files : entries[m].name = entries[n].name => m = n
    BY <1>2, Zenon DEF IsArchive
  <2>6. kMaxZipEntryCount \in Nat /\ kMaxPlaneBytes \in Nat /\ kMaxZipExpandedBytes \in Nat
    BY LimitsAssumption
  <2>7. ASSUME ArchiveProblem(v) = NoProblem
        PROVE  IsArchive(v)
    <3>1. ~(Len(entries) > kMaxZipEntryCount)
          /\ \A n \in DOMAIN entries : EntryPasses(entries, n)
      BY <1>0, <2>2, <2>4, <2>7
    <3>2. Expanded(entries, Len(entries)) <= kMaxZipExpandedBytes
      BY <1>2, <2>7, ArchiveFits
    <3> HIDE DEF entries, codes
    <3>3. \A n \in files : entries[n].readable /\ Size(entries[n]) <= kMaxPlaneBytes
      BY <2>1, <2>6, <3>1 DEF EntryPasses, AreEntries
    <3>4. ASSUME NEW m \in files, NEW n \in files, entries[m].name = entries[n].name, m < n
          PROVE  FALSE
      <4>1. m \in 1 .. n - 1
        BY <2>1, <3>4
      <4> QED BY <3>1, <3>4, <4>1 DEF EntryPasses
    <3>5. \A m, n \in files : m = n \/ m < n \/ n < m
      BY <2>1
    <3> QED BY <2>1, <2>5, <2>6, <3>1, <3>2, <3>3, <3>4, <3>5
  <2>8. ASSUME IsArchive(v)
        PROVE  ArchiveProblem(v) = NoProblem
    <3> HIDE DEF entries
    <3>1. ASSUME NEW n \in DOMAIN entries, ~entries[n].directory
          PROVE  EntryPasses(entries, n)
      <4>1. n \in files /\ entries[n].readable /\ Size(entries[n]) <= kMaxPlaneBytes
            /\ Size(entries[n]) \in Nat
        BY <2>1, <2>5, <2>8, <3>1 DEF AreEntries
      <4>2. /\ n - 1 \in Nat /\ (n - 1) + 1 = n /\ n \in 0 .. Len(entries)
            /\ n - 1 \in 0 .. Len(entries) /\ Len(entries) \in 0 .. Len(entries)
        BY <2>1, <3>1
      <4>3. Expanded(entries, n) = Expanded(entries, n - 1) + Size(entries[n])
        BY <4>2, ExpandedGrows
      <4>4. /\ Expanded(entries, n) <= Expanded(entries, Len(entries))
            /\ Expanded(entries, n) \in Nat /\ Expanded(entries, n - 1) \in Nat
            /\ Expanded(entries, Len(entries)) \in Nat
            /\ Expanded(entries, Len(entries)) <= kMaxZipExpandedBytes
        BY <2>1, <2>5, <2>8, <4>2, ExpandedBounds
      <4>5. ~(Size(entries[n]) > kMaxZipExpandedBytes - Expanded(entries, n - 1))
        BY <2>6, <4>1, <4>3, <4>4
      <4>6. ASSUME NEW m \in 1 .. n - 1, ~entries[m].directory,
                   entries[m].name = entries[n].name
            PROVE  FALSE
        <5>1. m \in files /\ m # n
          BY <2>1, <3>1, <4>6
        <5> QED BY <2>5, <2>8, <4>1, <4>6, <5>1
      <4> QED BY <2>6, <4>1, <4>5, <4>6 DEF EntryPasses
    <3>2. \A n \in DOMAIN entries : EntryPasses(entries, n)
      BY <3>1 DEF EntryPasses
    <3> QED BY <2>1, <2>2, <2>4, <2>5, <2>6, <2>8, <3>2
  <2>9. ArchiveProblem(v) \in Reasons
    BY <1>0, <2>2, <2>3
  <2> QED BY <2>7, <2>8, <2>9
<1> QED BY <1>1, <1>2

(* ---- What a layout holds ----------------------------------------------- *)

(* An archive has at most one file of a name.                              *)
LEMMA NamedOnce ==
  ASSUME NEW v, IsFile(v), IsArchive(v), NEW name
  PROVE  LET entries == v.archive[1]
             entry   == Entry(entries, name)
         IN  /\ AreEntries(entries)
             /\ Indices(entries, name) # {} =>
                  /\ \E n \in DOMAIN entries :
                       entry = entries[n] /\ Indices(entries, name) = {n}
                  /\ ~entry.directory /\ Size(entry) = entry.file.size
                  /\ Size(entry) \in Nat /\ Size(entry) <= kMaxPlaneBytes
                  /\ IsContent(entry.file)
<1> DEFINE entries == v.archive[1]
           entry == Entry(entries, name)
           files == {n \in DOMAIN entries : ~entries[n].directory}
<1>1. v.archive # Nothing
  BY DEF IsArchive
<1>2. AreEntries(entries)
  BY <1>1, EntriesOf
<1>3. /\ \A n \in files : Size(entries[n]) <= kMaxPlaneBytes
      /\ \A m, n \in files : entries[m].name = entries[n].name => m = n
  BY DEF IsArchive
<1> HIDE DEF entries
<1>4. ASSUME Indices(entries, name) # {}
      PROVE  /\ \E n \in DOMAIN entries :
                  entry = entries[n] /\ Indices(entries, name) = {n}
             /\ ~entry.directory /\ Size(entry) = entry.file.size
             /\ Size(entry) \in Nat /\ Size(entry) <= kMaxPlaneBytes
             /\ IsContent(entry.file)
  <2>1. DOMAIN entries \subseteq Nat
    BY <1>2 DEF AreEntries
  <2>2. PICK n \in Indices(entries, name) :
          n \in DOMAIN entries /\ ~entries[n].directory /\ entry = entries[n]
    BY <1>4, <2>1, Extracted
  <2>3. \A m \in Indices(entries, name) : m = n
    BY <1>3, <2>2 DEF Indices
  <2>4. Indices(entries, name) = {n}
    BY <2>2, <2>3
  <2> QED BY <1>2, <1>3, <2>2, <2>4 DEF AreEntries, Size
<1> QED BY <1>2, <1>4 DEF entries

LEMMA FilesOfArchive ==
  ASSUME NEW v, IsFile(v), IsArchive(v), NEW companions, NEW name
  PROVE  LET entry == Entry(v.archive[1], name) IN
         /\ v.zip
         /\ FilesNamed(v, companions, name) # {}
              <=> /\ Indices(v.archive[1], name) # {}
                  /\ ~(Size(entry) > 0 /\ ~entry.intact)
         /\ FilesNamed(v, companions, name) # {} =>
              FilesNamed(v, companions, name) = {entry.file}
<1> DEFINE entries == v.archive[1]
           entry == Entry(entries, name)
           Whole(x) == x.intact \/ x.file.size = 0
<1>1. v.zip /\ AreEntries(entries)
  BY EntriesOf, NamedOnce DEF IsArchive
<1>2. FilesNamed(v, companions, name)
        = {e.file : e \in {x \in Range(entries) : ~x.directory /\ x.name = name /\ Whole(x)}}
  BY <1>1 DEF FilesNamed
<1>3. Range(entries) = {entries[n] : n \in DOMAIN entries}
  BY DEF Range
<1>4. CASE Indices(entries, name) = {}
  BY <1>1, <1>2, <1>3, <1>4 DEF Indices
<1>5. CASE Indices(entries, name) # {}
  <2>1. PICK n \in DOMAIN entries :
          entry = entries[n] /\ Indices(entries, name) = {n}
    BY <1>5, NamedOnce
  <2>2. /\ ~entry.directory /\ Size(entry) = entry.file.size /\ Size(entry) \in Nat
    BY <1>5, NamedOnce
  <2> HIDE DEF entries, Whole, entry
  <2>3. \A x \in Range(entries) : ~x.directory /\ x.name = name <=> x = entry
    BY <1>3, <2>1, <2>2 DEF Indices
  <2>4. entry \in Range(entries)
    BY <1>3, <2>1
  <2>5. FilesNamed(v, companions, name) = IF Whole(entry) THEN {entry.file} ELSE {}
    BY <1>2, <2>3, <2>4
  <2>6. Whole(entry) <=> ~(Size(entry) > 0 /\ ~entry.intact)
    BY <2>2 DEF Whole
  <2> QED BY <1>1, <1>5, <2>5, <2>6 DEF entries, entry
<1> QED BY <1>4, <1>5

(* ZipArchive::Extract gives the file of that name, if there is a whole one. *)
LEMMA ExtractIsChecked ==
  ASSUME IsFile(Files[data.version]), IsArchive(Files[data.version]),
         NEW companions, NEW name, NEW code \in Reasons, code # NoProblem
  PROVE  /\ ExtractProblem(name, code) = NoProblem
              <=> FilesNamed(Files[data.version], companions, name) # {}
         /\ ExtractProblem(name, code) \in Reasons
         /\ FilesNamed(Files[data.version], companions, name) # {} =>
              /\ Has(name)
              /\ FilesNamed(Files[data.version], companions, name)
                   = {Entry(Archive, name).file}
              /\ Size(Entry(Archive, name)) = Entry(Archive, name).file.size
              /\ IsContent(Entry(Archive, name).file)
<1> DEFINE v == Files[data.version]
           entry == Entry(Archive, name)
           p == Size(entry) > kMaxPlaneBytes
           q == Size(entry) > 0 /\ ~entry.intact
<1>0. /\ "malformedArchive" # NoProblem /\ "malformedArchive" \in Reasons
      /\ "importLimitExceeded" # NoProblem /\ "importLimitExceeded" \in Reasons
  BY DEF NoProblem, Reasons
<1>1. Archive = v.archive[1] /\ (Has(name) <=> Indices(v.archive[1], name) # {})
  BY DEF Archive, Has
<1>2. ExtractProblem(name, code)
        = IF ~Has(name) THEN code
          ELSE FirstFailure(<<Check(p, "importLimitExceeded"),
                              Check(q, "malformedArchive")>>)
  BY DEF ExtractProblem
<1>3. /\ FilesNamed(v, companions, name) # {}
           <=> Indices(v.archive[1], name) # {} /\ ~q
      /\ FilesNamed(v, companions, name) # {} =>
           FilesNamed(v, companions, name) = {entry.file}
  BY <1>1, FilesOfArchive
<1>4. Has(name) => /\ ~p /\ Size(entry) = entry.file.size /\ IsContent(entry.file)
  <2>1. Has(name) => /\ Size(entry) = entry.file.size /\ IsContent(entry.file)
                     /\ Size(entry) \in Nat /\ Size(entry) <= kMaxPlaneBytes
    BY <1>1, NamedOnce
  <2> QED BY <2>1, LimitsAssumption
<1> HIDE DEF p, q, v, entry
<1>5. /\ Check(p, "importLimitExceeded") = NoProblem <=> ~p
      /\ Check(q, "malformedArchive") = NoProblem <=> ~q
  BY <1>0, Zenon DEF Check
<1>6. /\ FirstFailure(<<Check(p, "importLimitExceeded"), Check(q, "malformedArchive")>>)
           = NoProblem <=> ~p /\ ~q
      /\ FirstFailure(<<Check(p, "importLimitExceeded"), Check(q, "malformedArchive")>>)
           \in Reasons
  BY <1>0, <1>5, BothPass, TwoIn, ReasonFacts
<1>7. ExtractProblem(name, code) = NoProblem <=> FilesNamed(v, companions, name) # {}
  BY <1>1, <1>2, <1>3, <1>4, <1>6
<1>8. ExtractProblem(name, code) \in Reasons
  BY <1>2, <1>6
<1> QED BY <1>1, <1>3, <1>4, <1>7, <1>8 DEF v, entry

(* The document of a layout that holds one.                                *)
LEMMA DocumentIsChecked ==
  ASSUME NEW x \in DOMAIN Files, NEW companions,
         Files[x].zip =>
           IsArchive(Files[x]) /\ FilesNamed(Files[x], companions, kMetaEntryName) # {}
  PROVE  LET v == Files[x] IN
         /\ x \in DOMAIN DocumentProblem
         /\ IsContent(MetaFile(v))
         /\ Documents(v, companions)
              = IF v.zip /\ MetaFile(v).size > kMaxMetadataBytes THEN {} ELSE {MetaFile(v)}
         /\ DocumentProblem[x] \in Reasons \cup {"unsupportedVersion"}
         /\ DocumentProblem[x] = NoProblem
              <=> /\ ~(MetaFile(v).size > kMaxMetadataBytes)
                  /\ MetaFile(v).json # Nothing /\ IsSchema(MetaFile(v).json[1])
<1> DEFINE v == Files[x]
           f == MetaFile(v)
<1>1. IsFile(v) /\ IsContent(v)
  BY FileFacts DEF IsFile
<1>2. HoldsDocument(v) /\ IsContent(f)
  <2>1. CASE v.zip
    <3>1. IsArchive(v) /\ Indices(v.archive[1], kMetaEntryName) # {}
      BY <1>1, <2>1, FilesOfArchive
    <3>2. v.archive # Nothing /\ IsContent(Entry(v.archive[1], kMetaEntryName).file)
      BY <1>1, <3>1, NamedOnce DEF IsArchive
    <3> QED BY <3>1, <3>2 DEF HoldsDocument, MetaFile
  <2>2. CASE ~v.zip
    <3>1. v.archive = Nothing
      BY <1>1, <2>2 DEF IsFile, Nothing
    <3> QED BY <1>1, <3>1 DEF HoldsDocument, MetaFile
  <2> QED BY <2>1, <2>2
<1>3. x \in DOMAIN DocumentProblem /\ DocumentProblem[x] = MetaProblem(f)
  BY <1>2 DEF DocumentProblem
<1>4. kMaxMetadataBytes \in Nat /\ f.size \in Nat
  BY <1>2, LimitsAssumption DEF IsContent
<1>5. Documents(v, companions)
        = IF v.zip /\ f.size > kMaxMetadataBytes THEN {} ELSE {f}
  <2>1. CASE v.zip
    <3>1. FilesNamed(v, companions, kMetaEntryName) = {f}
      <4>1. v.archive # Nothing
        BY <2>1 DEF IsArchive
      <4> QED BY <1>1, <2>1, <4>1, FilesOfArchive DEF MetaFile
    <3>2. Documents(v, companions)
            = {g \in FilesNamed(v, companions, kMetaEntryName) : g.size <= kMaxMetadataBytes}
      BY <2>1 DEF Documents
    <3> HIDE DEF f, v
    <3> QED BY <1>4, <2>1, <3>1, <3>2
  <2>2. CASE ~v.zip
    <3>1. v.archive = Nothing
      BY <1>1, <2>2 DEF IsFile, Nothing
    <3> QED BY <2>2, <3>1 DEF Documents, MetaFile
  <2> QED BY <2>1, <2>2
<1>6. /\ MetaProblem(f) \in Reasons \cup {"unsupportedVersion"}
      /\ MetaProblem(f) = NoProblem
           <=> ~(f.size > kMaxMetadataBytes) /\ f.json # Nothing /\ IsSchema(f.json[1])
  <2>1. /\ "malformedMetadata" # NoProblem /\ "malformedMetadata" \in Reasons
        /\ "importLimitExceeded" # NoProblem /\ "importLimitExceeded" \in Reasons
    BY DEF NoProblem, Reasons
  <2>2. f.json # Nothing =>
          /\ ParseMetaJson(f.json[1]) = NoProblem <=> IsSchema(f.json[1])
          /\ ParseMetaJson(f.json[1]) \in Reasons \cup {"unsupportedVersion"}
    BY <1>2, SchemaIsChecked DEF IsContent
  <2> HIDE DEF f
  <2> QED BY <2>1, <2>2 DEF MetaProblem
<1> QED BY <1>2, <1>3, <1>5, <1>6

LEMMA MetadataFacts ==
  ASSUME NEW x \in DOMAIN Files, NEW companions, NEW f,
         Documents(Files[x], companions) = {f}, f.json # Nothing, IsSchema(f.json[1]),
         IsContent(f)
  PROVE  LET m == MetaDocument(Root(Files[x], companions)) IN
         /\ Root(Files[x], companions) = f.json[1]
         /\ m.gaussianCount \in Nat /\ m.paletteCount \in Nat /\ m.shBands \in Nat
<1> DEFINE root == f.json[1]
           m == MetaDocument(root)
<1>1. Root(Files[x], companions) = root
  BY DEF Root
<1>2. IsTree(root)
  BY DEF IsContent
<1>3. m.gaussianCount = Integer(root, "count")
      /\ m.shBands = (IF HasShN(root) THEN Integer(Member(root, "shN"), "bands") ELSE 0)
      /\ m.paletteCount = (IF HasShN(root) THEN Integer(Member(root, "shN"), "count") ELSE 0)
  BY DEF MetaDocument
<1> HIDE DEF root
<1>4. IsSchema(root)
  BY DEF root
<1>5. IsNumberIn(Member(root, "count"),
                 Doubles(1, Least(kMaxGaussianCount, kFormatMaxGaussianCount)))
  BY <1>4, SchemaForm DEF RequiredSchema
<1>6. Integer(root, "count") \in Nat
  <2>1. Member(root, "count").number \in Int /\ 1 \in Int
        /\ Least(kMaxGaussianCount, kFormatMaxGaussianCount) \in Int
    <3>1. Member(root, "count").number \in Int
      BY <1>2, Fields DEF HasFields
    <3> QED BY <3>1, SchemaAssumption DEF Least
  <2>2. Member(root, "count").number \div 2
          \in 1 .. Least(kMaxGaussianCount, kFormatMaxGaussianCount)
    BY <1>5, <2>1, EvenIn
  <2> QED BY <2>1, <2>2 DEF Integer
<1>7. HasShN(root) => /\ Integer(Member(root, "shN"), "bands") \in Nat
                      /\ Integer(Member(root, "shN"), "count") \in Nat
  <2> SUFFICES ASSUME HasShN(root)
               PROVE  /\ Integer(Member(root, "shN"), "bands") \in Nat
                      /\ Integer(Member(root, "shN"), "count") \in Nat
    OBVIOUS
  <2> DEFINE bands == Member(Member(root, "shN"), "bands")
             count == Member(Member(root, "shN"), "count")
  <2>1. ShNSchema(Member(root, "shN"))
    BY <1>4, SchemaForm DEF HasShN
  <2>2. bands.number \in {2, 4, 6}
    BY <2>1 DEF ShNSchema, IsNumberIn
  <2>3. count.number \in Int /\ 0 \in Int /\ kFormatMaxGaussianCount \in Int
    BY <1>2, Fields, SchemaAssumption DEF HasFields
  <2>4. count.number \div 2 \in 0 .. kFormatMaxGaussianCount
    BY <2>1, <2>3, EvenIn DEF ShNSchema
  <2>5. Integer(Member(root, "shN"), "bands") = bands.number \div 2
        /\ Integer(Member(root, "shN"), "count") = count.number \div 2
    BY DEF Integer
  <2> HIDE DEF bands, count
  <2> QED BY <2>2, <2>3, <2>4, <2>5
<1>8. m.gaussianCount \in Nat /\ m.paletteCount \in Nat /\ m.shBands \in Nat
  BY <1>3, <1>6, <1>7
<1> QED BY <1>1, <1>8 DEF root

(* ---- The planes, checked ----------------------------------------------- *)

LEMMA PlaneIsChecked ==
  ASSUME BytesBounded
  PROVE  /\ PlaneProblem = NoProblem
              <=> bytes.image # Nothing /\ IsPlane(bytes.image[1])
         /\ PlaneProblem \in Reasons
         /\ bytes.image # Nothing =>
              bytes.image = <<bytes.image[1]>> /\ bytes.image[1] \in Image
<1> DEFINE image == bytes.image[1]
           p == ~image.lossless
           q == image.width = 0 \/ image.height = 0
           r == image.width > kMaxPlaneDimension \/ image.height > kMaxPlaneDimension
           s == 4 * image.width * image.height > kMaxPlaneBytes
           t == ~image.intact
           a == Check(p, "malformedPlane")
           b == Check(q, "malformedPlane")
           c == Check(r, "importLimitExceeded")
           d == Check(s, "importLimitExceeded")
           e == Check(t, "malformedPlane")
<1>0. /\ "malformedPlane" # NoProblem /\ "malformedPlane" \in Reasons
      /\ "importLimitExceeded" # NoProblem /\ "importLimitExceeded" \in Reasons
  BY DEF NoProblem, Reasons
<1>1. PlaneProblem = IF bytes.image = Nothing THEN "malformedPlane"
                     ELSE FirstFailure(<<a, b, c, d, e>>)
  BY DEF PlaneProblem
<1>2. bytes.image # Nothing => bytes.image = <<image>> /\ image \in Image
  <2> SUFFICES ASSUME bytes.image # Nothing
               PROVE  bytes.image = <<image>> /\ image \in Image
    OBVIOUS
  <2>1. bytes.image \in Seq(Image) /\ Len(bytes.image) \in Nat \ {0} /\ Len(bytes.image) <= 1
    BY EmptySeq DEF BytesBounded, Nothing
  <2>2. Len(bytes.image) = 1
    <3>1. \A k \in Nat \ {0} : k <= 1 => k = 1
      OBVIOUS
    <3> HIDE DEF a, b, c, d, e, image
    <3> QED BY <2>1, <3>1, Zenon
  <2>3. image \in Image
    BY <2>1, <2>2, ElementOfSeq
  <2>4. <<image>> \in Seq(Image) /\ Len(<<image>>) = 1 /\ <<image>>[1] = image
    BY <2>3
  <2> HIDE DEF image
  <2>5. \A n \in 1 .. 1 : bytes.image[n] = <<image>>[n]
    BY <2>4 DEF image
  <2> QED BY <2>1, <2>2, <2>3, <2>4, <2>5, SeqEqual
<1>3. image \in Image => (IsPlane(image) <=> ~p /\ ~q /\ ~r /\ ~s /\ ~t)
  <2> SUFFICES ASSUME image \in Image
               PROVE  IsPlane(image) <=> ~p /\ ~q /\ ~r /\ ~s /\ ~t
    OBVIOUS
  <2>1. image.width \in Nat /\ image.height \in Nat
    BY DEF Image
  <2>2. \A w, h \in Nat : 4 * w * h \in Nat
    OBVIOUS
  <2>3. 4 * image.width * image.height \in Nat /\ kMaxPlaneBytes \in Nat
        /\ kMaxPlaneDimension \in Nat
    BY <2>1, <2>2, LimitsAssumption
  <2>4. ~s <=> 4 * image.width * image.height <= kMaxPlaneBytes
    BY <2>3
  <2>5. ~q /\ ~r <=> /\ image.width > 0 /\ image.height > 0
                     /\ image.width <= kMaxPlaneDimension
                     /\ image.height <= kMaxPlaneDimension
    BY <2>1, <2>3
  <2> HIDE DEF q, r, s
  <2> QED BY <2>4, <2>5, Zenon DEF IsPlane
<1>4. /\ a = NoProblem <=> ~p
      /\ b = NoProblem <=> ~q
      /\ c = NoProblem <=> ~r
      /\ d = NoProblem <=> ~s
      /\ e = NoProblem <=> ~t
  <2> HIDE DEF p, q, r, s, t
  <2> QED BY <1>0, Zenon DEF Check
<1>5. a \in Reasons /\ b \in Reasons /\ c \in Reasons /\ d \in Reasons /\ e \in Reasons
  BY <1>0, ReasonFacts
<1> HIDE DEF a, b, c, d, e, p, q, r, s, t
<1>6. /\ FirstFailure(<<a, b, c, d, e>>) = NoProblem <=> ~p /\ ~q /\ ~r /\ ~s /\ ~t
      /\ FirstFailure(<<a, b, c, d, e>>) \in Reasons
  BY <1>4, <1>5, FiveChecks, ReasonFacts
<1> QED BY <1>0, <1>1, <1>2, <1>3, <1>6

(* A plane has a texel for every Gaussian.                                 *)
Covers(image) == image.width * image.height >= meta.gaussianCount
CoversPalette(image) ==
  /\ image.width = kShCentroidsPerRow * (meta.shBands * (meta.shBands + 2))
  /\ kShCentroidsPerRow * image.height >= meta.paletteCount

LEMMA SizeIsChecked ==
  ASSUME NEW image \in Image, meta.gaussianCount \in Nat
  PROVE  /\ PerGaussianProblem(image) = NoProblem <=> Covers(image)
         /\ PerGaussianProblem(image) \in Reasons
<1>1. "invalidGaussianCount" # NoProblem /\ "invalidGaussianCount" \in Reasons
  BY DEF NoProblem, Reasons
<1>2. \A w, h \in Nat : w * h \in Nat
  OBVIOUS
<1>3. image.width * image.height \in Nat
  BY <1>2 DEF Image
<1>4. ~(meta.gaussianCount > image.width * image.height) <=> Covers(image)
  BY <1>3 DEF Covers
<1> HIDE DEF Covers
<1> QED BY <1>1, <1>4, ReasonFacts, Zenon DEF PerGaussianProblem, Check

LEMMA PaletteIsChecked ==
  ASSUME NEW centroids \in Image, NEW labels \in Image,
         meta.gaussianCount \in Nat, meta.paletteCount \in Nat
  PROVE  /\ PaletteProblem(centroids, labels) = NoProblem
              <=> Covers(labels) /\ CoversPalette(centroids)
         /\ PaletteProblem(centroids, labels) \in Reasons
<1> DEFINE a == PerGaussianProblem(labels)
           q == centroids.width # kShCentroidsPerRow * Coefficients(meta.shBands)
           r == meta.paletteCount > kShCentroidsPerRow * centroids.height
           b == Check(q, "malformedPlane")
           c == Check(r, "malformedPlane")
<1>0. "malformedPlane" # NoProblem /\ "malformedPlane" \in Reasons
  BY DEF NoProblem, Reasons
<1>1. PaletteProblem(centroids, labels) = FirstFailure(<<a, b, c>>)
  BY DEF PaletteProblem
<1>2. (a = NoProblem <=> Covers(labels)) /\ a \in Reasons
  BY SizeIsChecked
<1>3. ~q /\ ~r <=> CoversPalette(centroids)
  <2>1. \A w, h \in Nat : w * h \in Nat
    OBVIOUS
  <2>2. kShCentroidsPerRow * centroids.height \in Nat
    BY <2>1, LimitsAssumption DEF Image
  <2>3. ~r <=> kShCentroidsPerRow * centroids.height >= meta.paletteCount
    BY <2>2
  <2> HIDE DEF r
  <2> QED BY <2>3, Zenon DEF CoversPalette, Coefficients
<1> HIDE DEF a, q, r
<1>4. /\ b = NoProblem <=> ~q
      /\ c = NoProblem <=> ~r
      /\ b \in Reasons /\ c \in Reasons
  BY <1>0, ReasonFacts, Zenon DEF Check
<1> HIDE DEF b, c
<1> QED BY <1>1, <1>2, <1>3, <1>4, ThreePass, ThreeIn, ReasonFacts

(* ---- A call that is left alone ----------------------------------------- *)

(* What each method has to accept, and what it says by accepting.          *)
Owed ==
  /\ operation # "ReadMetadata" => IsContainer(Primary, beside)
  /\ operation = "ReadMetadata" => HasMetadata(Primary, beside)
  /\ operation = "CanReadBundled" => Primary.zip
  /\ operation = "CanReadUnbundled" =>
       ~Primary.zip /\ Primary.size <= kCanReadPrefixLimit
Claimed ==
  /\ operation = "Read" => IsContainer(Primary, beside)
  /\ operation = "ReadMetadata" =>
       HasMetadata(Primary, beside) /\ meta = MetaDocument(Root(Primary, beside))
  /\ operation = "CanReadBundled" => Primary.zip
  /\ operation = "CanReadUnbundled" =>
       /\ ~Primary.zip /\ Primary.brace /\ Primary.size <= kCanReadPrefixLimit
       /\ ParseMetaJson(Primary.json[1]) # "unsupportedVersion"

(* Nothing is said before the call returns.                                *)
Running ==
  /\ pc # "return" => result = "none"
  /\ result # "false" => error = NoProblem

GateLimit == IF operation = "CanReadBundled" THEN kZipSignatureSize
             ELSE kCanReadPrefixLimit
Routed == pc = "gate" => data.length = Least(Primary.size, GateLimit)
Probed ==
  pc \in {"load", "layout", "extract", "parse"} \cup Decoding =>
    Primary.opens /\ bundled = Primary.zip /\ ~(Primary.size > MaxBytes(bundled))
Archived ==
  /\ pc = "extract" => bundled
  /\ bundled /\ pc \in {"extract", "parse"} \cup Decoding => IsArchive(Primary)
Found ==
  pc = "parse" =>
    IF bundled THEN FilesNamed(Primary, beside, kMetaEntryName) # {} ELSE Primary.brace
Parsed ==
  pc \in Decoding =>
    HasMetadata(Primary, beside) /\ meta = MetaDocument(Root(Primary, beside))
                                 /\ meta.gaussianCount \in Nat /\ meta.paletteCount \in Nat
PlanesMeant ==
  pc \in Decoding =>
    \A n \in DOMAIN planes :
      IsPlane(planes[n]) /\ Images(Primary, beside, meta.files[n]) = {planes[n]}
BytesMeant ==
  pc = "decode" =>
    \E f \in FilesNamed(Primary, beside, PlaneName) :
      FilesNamed(Primary, beside, PlaneName) = {f} /\ f.image = bytes.image
LargeEnough ==
  pc \in Decoding \ {"check"} /\ Len(planes) >= 5 => \A n \in 1 .. 5 : Covers(planes[n])

(* The answer is the one the files deserve, and a refusal says why.        *)
Answered ==
  pc = "return" =>
    /\ result \in {"true", "false"}
    /\ result = "true" => Claimed
    /\ result = "false" =>
         ~Owed /\ (operation = "Read" => error \notin {NoProblem, "internalError"})

Underway ==
  /\ Routed /\ Probed /\ Archived /\ Found /\ Parsed /\ PlanesMeant /\ BytesMeant
  /\ LargeEnough
JInv == Running /\ (Undisturbed => Underway /\ Answered)

(* What is said of the files stays while they do.                          *)
LEMMA Steady ==
  ASSUME UNCHANGED <<world, fault>>
  PROVE  /\ UNCHANGED <<file, beside, seen, seenBeside, loader, fault>>
         /\ Primary' = Primary
         /\ Undisturbed' = Undisturbed
         /\ IsContainer(Primary, beside)' = IsContainer(Primary, beside)
         /\ HasMetadata(Primary, beside)' = HasMetadata(Primary, beside)
         /\ IsArchive(Primary)' = IsArchive(Primary)
         /\ MetaDocument(Root(Primary, beside))' = MetaDocument(Root(Primary, beside))
<1>1. UNCHANGED <<file, beside, seen, seenBeside, loader, fault>>
  BY DEF world
<1>2. Primary' = Primary
  BY <1>1 DEF Primary
<1>3. Undisturbed' = Undisturbed
  BY <1>1 DEF Undisturbed, Beside
<1>4. IsContainer(Primary, beside)' = IsContainer(Primary, beside)
  BY <1>1, <1>2
<1>5. HasMetadata(Primary, beside)' = HasMetadata(Primary, beside)
  BY <1>1, <1>2
<1>6. IsArchive(Primary)' = IsArchive(Primary)
  BY <1>1, <1>2
<1>7. MetaDocument(Root(Primary, beside))' = MetaDocument(Root(Primary, beside))
  BY <1>1, <1>2
<1> QED BY <1>1, <1>2, <1>3, <1>4, <1>5, <1>6, <1>7

(* A call that is left alone has loaded the file that is there.            *)
LEMMA Alone ==
  ASSUME IInv, Undisturbed
  PROVE  /\ IsFile(Primary) /\ file \in DOMAIN Files /\ Primary.size \in Nat
         /\ pc \notin Before \cup {"return"} =>
              data.version = file /\ Files[data.version] = Primary
         /\ loader # "overreads"
<1>1. file \in DOMAIN Files /\ seen = {file} /\ loader # "overreads"
  BY DEF IInv, Types, Undisturbed
<1>2. pc \notin Before \cup {"return"} => data.version = file
  BY <1>1 DEF IInv, DataLoaded
<1> QED BY <1>1, <1>2, FileFacts DEF Primary

LEMMA LoadAlone ==
  ASSUME IInv, Undisturbed, NEW limit \in Nat
  PROVE  /\ LoadPrimary(limit) = NoProblem <=> Primary.opens
         /\ LoadPrimary(limit) \in Reasons
         /\ Loaded(limit).version = file
         /\ Loaded(limit).length = Least(Primary.size, limit)
<1> DEFINE length == Loaded(limit).length
           p == ~Primary.opens
           q == length > limit \/ length > Primary.size
           a == Check(p, "unreadableFile")
           b == Check(q, "internalError")
<1>1. Primary.size \in Nat /\ loader # "overreads"
  BY Alone
<1>2. length = Least(Primary.size, limit) /\ Loaded(limit).version = file
  BY <1>1 DEF Loaded, Least
<1>3. ~q
  <2> HIDE DEF length
  <2> QED BY <1>1, <1>2 DEF Least
<1>4. LoadPrimary(limit) = FirstFailure(<<a, b>>)
  BY DEF LoadPrimary
<1>5. "unreadableFile" # NoProblem /\ "unreadableFile" \in Reasons
  BY DEF NoProblem, Reasons
<1> HIDE DEF q, length
<1>6. b = NoProblem /\ (a = NoProblem <=> Primary.opens) /\ a \in Reasons
  BY <1>3, <1>5, ReasonFacts DEF Check
<1> HIDE DEF a, b, p
<1>7. LoadPrimary(limit) = NoProblem <=> Primary.opens
  BY <1>4, <1>6, BothPass
<1>8. LoadPrimary(limit) \in Reasons
  BY <1>4, <1>6, TwoIn, ReasonFacts
<1> QED BY <1>2, <1>7, <1>8 DEF length

(* A call is owed nothing over a file without metadata.                    *)
LEMMA NothingOwed ==
  ASSUME operation \in Operations
  PROVE  /\ ~HasMetadata(Primary, beside) => ~Owed
         /\ operation # "ReadMetadata" /\ ~IsContainer(Primary, beside) => ~Owed
         /\ ~Primary.opens => ~Owed
         /\ Primary.size \in Nat /\ Primary.zip \in BOOLEAN
              /\ Primary.size > MaxBytes(Primary.zip) => ~Owed
         /\ Primary.zip /\ ~IsArchive(Primary) => ~Owed
         /\ ~Primary.zip /\ ~Primary.brace => ~Owed
<1>1. ~HasMetadata(Primary, beside) => ~Owed
  BY DEF Owed, IsContainer
<1>2. operation # "ReadMetadata" /\ ~IsContainer(Primary, beside) => ~Owed
  BY DEF Owed
<1>3. HasMetadata(Primary, beside) =>
        /\ Primary.opens
        /\ Primary.zip => IsArchive(Primary) /\ Primary.size <= kMaxZipArchiveBytes
        /\ ~Primary.zip => Primary.brace /\ Primary.size <= kMaxMetadataBytes
  BY DEF HasMetadata
<1>4. Primary.size \in Nat /\ Primary.zip \in BOOLEAN
        /\ Primary.size > MaxBytes(Primary.zip) => ~HasMetadata(Primary, beside)
  BY <1>3, LimitsAssumption DEF MaxBytes
<1> QED BY <1>1, <1>2, <1>3, <1>4

(* ---- The ways a step ends ---------------------------------------------- *)

LEMMA RefusedAgrees ==
  ASSUME IInv, JInv, pc # "return", NEW code, Fail(code),
         UNCHANGED <<world, operation, fault>>,
         Undisturbed => ~Owed /\ (operation = "Read" =>
                                    /\ code \in Reasons \cup {"unsupportedVersion"}
                                    /\ code # NoProblem)
  PROVE  JInv'
<1>1. /\ pc' = "return" /\ result' = "false"
      /\ operation = "Read" => error' = code
  BY DEF Fail, IsGate
<1>2. Running'
  BY <1>1 DEF Running
<1>3. Underway'
  BY <1>1 DEF Underway, Routed, Probed, Archived, Found, Parsed, PlanesMeant, BytesMeant,
              LargeEnough, Decoding
<1>4. Owed' = Owed
  BY Steady DEF Owed
<1>5. Undisturbed' => Answered'
  BY <1>1, <1>4, Steady, ReasonFacts DEF Answered
<1> QED BY <1>2, <1>3, <1>5 DEF JInv

LEMMA AcceptedAgrees ==
  ASSUME IInv, JInv, pc # "return", Succeed, UNCHANGED <<world, operation, fault>>,
         Undisturbed => Claimed'
  PROVE  JInv'
<1>1. pc' = "return" /\ result' = "true" /\ error' = error
  BY DEF Succeed
<1>2. Running'
  BY <1>1 DEF JInv, Running
<1>3. Underway'
  BY <1>1 DEF Underway, Routed, Probed, Archived, Found, Parsed, PlanesMeant, BytesMeant,
              LargeEnough, Decoding
<1>4. Undisturbed' => Answered'
  BY <1>1, Steady DEF Answered
<1> QED BY <1>2, <1>3, <1>4 DEF JInv

LEMMA ContinuedAgrees ==
  ASSUME IInv, JInv, pc # "return", pc' # "return", UNCHANGED <<result, error>>,
         UNCHANGED <<world, fault>>, Undisturbed => Underway'
  PROVE  JInv'
<1>1. Running'
  BY DEF JInv, Running
<1>2. Undisturbed' => Underway' /\ Answered'
  BY Steady DEF Answered
<1> QED BY <1>1, <1>2 DEF JInv

(* Once it is disturbed, nothing is asked of a call but that it is quiet.  *)
LEMMA DisturbedAgrees ==
  ASSUME Running', ~Undisturbed'
  PROVE  JInv'
BY DEF JInv

(* ---- Each step: what it refuses is not owed ----------------------------- *)

LEMMA ReadPrefixAgrees == IInv /\ JInv /\ ReadPrefix => JInv'
<1> SUFFICES ASSUME IInv, JInv, ReadPrefix PROVE JInv'
  OBVIOUS
<1>0. /\ pc = "prefix" /\ operation \in {"CanReadBundled", "CanReadUnbundled"}
      /\ operation \in Operations /\ GateLimit \in Nat
      /\ UNCHANGED <<world, operation, fault>>
  BY LimitsAssumption
     DEF ReadPrefix, IInv, Types, Directed, Routing, GateLimit, kZipSignatureSize
<1>1. CASE LoadPrimary(GateLimit) # NoProblem
  <2>1. Fail(LoadPrimary(GateLimit))
    BY <1>1 DEF ReadPrefix, GateLimit
  <2>2. Undisturbed => ~Owed
    BY <1>0, <1>1, LoadAlone, NothingOwed
  <2> QED BY <1>0, <2>1, <2>2, RefusedAgrees
<1>2. CASE LoadPrimary(GateLimit) = NoProblem
  <2>1. data' = Loaded(GateLimit) /\ pc' = "gate" /\ UNCHANGED <<result, error>>
    BY <1>2 DEF ReadPrefix, GateLimit, Continue
  <2>2. GateLimit' = GateLimit
    BY <1>0 DEF GateLimit
  <2>3. Undisturbed => data'.length = Least(Primary.size, GateLimit)
    BY <1>0, <2>1, LoadAlone
  <2>4. Undisturbed => Routed'
    BY <1>0, <2>2, <2>3, Steady DEF Routed
  <2>5. Probed' /\ Archived' /\ Found' /\ Parsed' /\ PlanesMeant' /\ BytesMeant'
        /\ LargeEnough'
    BY <2>1 DEF Probed, Archived, Found, Parsed, PlanesMeant, BytesMeant, LargeEnough,
                Decoding
  <2> QED BY <1>0, <2>1, <2>4, <2>5, ContinuedAgrees DEF Underway
<1> QED BY <1>1, <1>2

LEMMA GateAgrees == IInv /\ JInv /\ Gate => JInv'
<1> SUFFICES ASSUME IInv, JInv, Gate PROVE JInv'
  OBVIOUS
<1>0. /\ pc = "gate" /\ operation \in {"CanReadBundled", "CanReadUnbundled"}
      /\ operation \in Operations /\ UNCHANGED <<world, operation, fault>>
  BY DEF Gate, IInv, Types, Directed, Routing
<1>1. Undisturbed => /\ Files[data.version] = Primary /\ IsFile(Primary)
                     /\ Primary.size \in Nat /\ data.length = Least(Primary.size, GateLimit)
  BY <1>0, Alone DEF JInv, Underway, Routed, Before
<1>2. CASE operation = "CanReadBundled"
  <2>1. Undisturbed => (HasZipSignature(data) <=> Primary.zip)
    <3> SUFFICES ASSUME Undisturbed PROVE HasZipSignature(data) <=> Primary.zip
      OBVIOUS
    <3>1. Primary.zip => Primary.size >= kZipSignatureSize
      BY <1>1 DEF IsFile
    <3>2. Primary.zip => data.length >= kZipSignatureSize
      BY <1>1, <1>2, <3>1 DEF GateLimit, Least, kZipSignatureSize
    <3> QED BY <1>1, <3>2 DEF HasZipSignature
  <2>2. CASE HasZipSignature(data)
    <3>1. Succeed
      BY <1>2, <2>2 DEF Gate, Answer
    <3>2. Undisturbed => Claimed'
      BY <1>0, <1>2, <2>1, <2>2, Steady DEF Claimed
    <3> QED BY <1>0, <3>1, <3>2, AcceptedAgrees
  <2>3. CASE ~HasZipSignature(data)
    <3>1. Fail("")
      BY <1>2, <2>3 DEF Gate, Answer
    <3>2. Undisturbed => ~Owed
      BY <1>2, <2>1, <2>3 DEF Owed
    <3> QED BY <1>0, <3>1, <3>2, RefusedAgrees
  <2> QED BY <2>2, <2>3
<1>3. CASE operation = "CanReadUnbundled"
  <2> DEFINE v == Files[data.version]
             claimed == v.size <= data.length /\ v.json # Nothing /\ IsSogDocument(v.json[1])
  <2>0. Answer(claimed)
    BY <1>0, <1>3 DEF Gate
  <2>1. CASE claimed
    <3>1. Succeed
      BY <2>0, <2>1 DEF Answer
    <3>2. Undisturbed => Claimed'
      <4> SUFFICES ASSUME Undisturbed PROVE Claimed'
        OBVIOUS
      <4>1. /\ Primary.json # Nothing /\ IsSogDocument(Primary.json[1])
            /\ IsTree(Primary.json[1])
        BY <1>1, <2>1 DEF IsFile, IsContent
      <4>2. Primary.brace /\ ~Primary.zip
        BY <1>1, <4>1 DEF IsFile, IsSogDocument
      <4>3. IsNumberIn(Member(Primary.json[1], "version"), {2 * kSupportedVersion})
        BY <4>1 DEF IsSogDocument, IsNumberIn
      <4>4. ParseMetaJson(Primary.json[1]) # "unsupportedVersion"
        BY <4>1, <4>3, SchemaIsChecked
      <4>5. Primary' = Primary
        BY <1>0, Steady
      <4>6. Primary.size <= kCanReadPrefixLimit
        BY <1>1, <1>3, <2>1, LimitsAssumption DEF GateLimit, Least
      <4> QED BY <1>0, <1>3, <4>2, <4>4, <4>5, <4>6 DEF Claimed
    <3> QED BY <1>0, <3>1, <3>2, AcceptedAgrees
  <2>2. CASE ~claimed
    <3>1. Fail("")
      BY <2>0, <2>2 DEF Answer
    <3>2. Undisturbed => ~Owed
      <4> SUFFICES ASSUME Undisturbed, Owed PROVE FALSE
        OBVIOUS
      <4>1. HasMetadata(Primary, beside) /\ ~Primary.zip
            /\ Primary.size <= kCanReadPrefixLimit
        BY <1>3 DEF Owed, IsContainer
      <4>2. Primary.json # Nothing /\ IsSchema(Primary.json[1])
        BY <4>1 DEF HasMetadata, Documents
      <4>3. data.length = Primary.size
        BY <1>1, <1>3, <4>1, LimitsAssumption DEF GateLimit, Least
      <4> QED BY <1>1, <2>2, <4>2, <4>3, SchemaLooksLikeSog
    <3> QED BY <1>0, <3>1, <3>2, RefusedAgrees
  <2> QED BY <2>1, <2>2
<1> QED BY <1>0, <1>2, <1>3

LEMMA ProbeLayoutAgrees == IInv /\ JInv /\ ProbeLayout => JInv'
<1> SUFFICES ASSUME IInv, JInv, ProbeLayout PROVE JInv'
  OBVIOUS
<1> DEFINE probe == Loaded(kZipSignatureSize)
           large == Primary.size > MaxBytes(HasZipSignature(probe))
<1>0. /\ pc = "probe" /\ operation \in Operations /\ kZipSignatureSize \in Nat
      /\ UNCHANGED <<world, operation, fault>>
  BY DEF ProbeLayout, IInv, Types, kZipSignatureSize
<1>1. Undisturbed => (HasZipSignature(probe) <=> Primary.zip) /\ Primary.zip \in BOOLEAN
                     /\ Primary.size \in Nat
  <2> SUFFICES ASSUME Undisturbed
               PROVE  (HasZipSignature(probe) <=> Primary.zip) /\ Primary.zip \in BOOLEAN
                      /\ Primary.size \in Nat
    OBVIOUS
  <2>1. IsFile(Primary) /\ Primary.size \in Nat
    BY Alone
  <2>2. Primary.zip => Primary.size >= kZipSignatureSize
    BY <2>1 DEF IsFile
  <2>3. probe.version = file /\ probe.length = Least(Primary.size, kZipSignatureSize)
    BY <1>0, LoadAlone
  <2>4. Primary.zip => probe.length >= kZipSignatureSize
    BY <2>1, <2>2, <2>3 DEF Least, kZipSignatureSize
  <2> HIDE DEF probe
  <2> QED BY <2>1, <2>3, <2>4 DEF HasZipSignature, Primary, IsFile
<1>2. CASE LoadPrimary(kZipSignatureSize) # NoProblem
  <2>1. Fail(LoadPrimary(kZipSignatureSize))
    BY <1>2 DEF ProbeLayout
  <2>2. Undisturbed => ~Owed /\ LoadPrimary(kZipSignatureSize) \in Reasons
    BY <1>0, <1>2, LoadAlone, NothingOwed
  <2> QED BY <1>0, <1>2, <2>1, <2>2, RefusedAgrees
<1>3. CASE LoadPrimary(kZipSignatureSize) = NoProblem
  <2>0. /\ bundled' = HasZipSignature(probe)
        /\ FailOr(Check(large, "importLimitExceeded"), "load")
    BY <1>3 DEF ProbeLayout
  <2>1. "importLimitExceeded" # NoProblem /\ "importLimitExceeded" \in Reasons
    BY DEF NoProblem, Reasons
  <2>2. CASE large
    <3>1. Fail("importLimitExceeded")
      BY <2>0, <2>1, <2>2 DEF FailOr, Check
    <3>2. Undisturbed => ~Owed
      <4>1. Undisturbed => Primary.size > MaxBytes(Primary.zip)
        BY <1>1, <2>2 DEF MaxBytes
      <4> QED BY <1>0, <1>1, <4>1, NothingOwed
    <3> QED BY <1>0, <2>1, <3>1, <3>2, RefusedAgrees
  <2>3. CASE ~large
    <3>1. pc' = "load" /\ UNCHANGED <<result, error>>
      BY <2>0, <2>3 DEF FailOr, Check, Continue
    <3>2. Undisturbed => Primary.opens /\ bundled' = Primary.zip
                         /\ ~(Primary.size > MaxBytes(bundled'))
      BY <1>0, <1>1, <1>3, <2>0, <2>3, LoadAlone DEF HasZipSignature
    <3>3. Undisturbed => Probed'
      BY <1>0, <3>2, Steady DEF Probed, MaxBytes
    <3>4. Routed' /\ Archived' /\ Found' /\ Parsed' /\ PlanesMeant' /\ BytesMeant'
          /\ LargeEnough'
      BY <3>1 DEF Routed, Archived, Found, Parsed, PlanesMeant, BytesMeant, LargeEnough,
                  Decoding
    <3> QED BY <1>0, <3>1, <3>3, <3>4, ContinuedAgrees DEF Underway
  <2> QED BY <2>2, <2>3
<1> QED BY <1>2, <1>3

LEMMA LoadContainerAgrees == IInv /\ JInv /\ LoadContainer => JInv'
<1> SUFFICES ASSUME IInv, JInv, LoadContainer PROVE JInv'
  OBVIOUS
<1> DEFINE limit == MaxBytes(bundled)
<1>0. /\ pc = "load" /\ limit \in Nat /\ UNCHANGED <<world, operation, bundled, fault>>
  BY LimitsAssumption DEF LoadContainer, MaxBytes
<1>1. Undisturbed => Primary.opens /\ bundled = Primary.zip /\ ~(Primary.size > limit)
  BY <1>0 DEF JInv, Underway, Probed
<1>2. CASE LoadPrimary(limit) # NoProblem
  <2>1. Fail(LoadPrimary(limit))
    BY <1>2 DEF LoadContainer
  <2>2. ~Undisturbed
    BY <1>0, <1>1, <1>2, LoadAlone
  <2> QED BY <1>0, <2>1, <2>2, RefusedAgrees
<1>3. CASE LoadPrimary(limit) = NoProblem
  <2>0. FailOr(Check(Primary.size > limit, "importLimitExceeded"), "layout")
    BY <1>3 DEF LoadContainer
  <2>1. CASE Primary.size > limit
    <3>1. Fail("importLimitExceeded")
      BY <2>0, <2>1 DEF FailOr, Check, NoProblem
    <3> QED BY <1>0, <1>1, <2>1, <3>1, RefusedAgrees
  <2>2. CASE ~(Primary.size > limit)
    <3>1. pc' = "layout" /\ UNCHANGED <<result, error>>
      BY <2>0, <2>2 DEF FailOr, Check, Continue
    <3>2. Undisturbed => Probed'
      BY <1>0, <1>1, Steady DEF Probed, MaxBytes
    <3>3. Routed' /\ Archived' /\ Found' /\ Parsed' /\ PlanesMeant' /\ BytesMeant'
          /\ LargeEnough'
      BY <3>1 DEF Routed, Archived, Found, Parsed, PlanesMeant, BytesMeant, LargeEnough,
                  Decoding
    <3> QED BY <1>0, <3>1, <3>2, <3>3, ContinuedAgrees DEF Underway
  <2> QED BY <2>1, <2>2
<1> QED BY <1>2, <1>3

(* From the layout on, what the probe has found stays.                     *)
LEMMA ProbedStays ==
  ASSUME JInv, Undisturbed, UNCHANGED <<world, bundled, fault>>,
         pc \in {"layout", "extract", "parse"} \cup Decoding
  PROVE  /\ Primary.opens /\ bundled = Primary.zip /\ ~(Primary.size > MaxBytes(bundled))
         /\ Probed'
<1>1. Primary.opens /\ bundled = Primary.zip /\ ~(Primary.size > MaxBytes(bundled))
  BY DEF JInv, Underway, Probed
<1> QED BY <1>1, Steady DEF Probed, MaxBytes

LEMMA OpenLayoutAgrees == IInv /\ JInv /\ OpenLayout => JInv'
<1> SUFFICES ASSUME IInv, JInv, OpenLayout PROVE JInv'
  OBVIOUS
<1>0. /\ pc = "layout" /\ operation \in Operations /\ bundled \in BOOLEAN
      /\ UNCHANGED <<world, operation, bundled, fault>>
  BY DEF OpenLayout, IInv, Types
<1>1. Undisturbed => /\ Files[data.version] = Primary /\ IsFile(Primary)
                     /\ bundled = Primary.zip /\ Probed'
  BY <1>0, Alone, ProbedStays DEF Before
<1>2. Undisturbed => /\ ArchiveProblem(Primary) = NoProblem <=> IsArchive(Primary)
                     /\ ArchiveProblem(Primary) \in Reasons
  BY <1>1, ArchiveIsChecked
<1>3. "notSogContainer" # NoProblem /\ "notSogContainer" \in Reasons
  BY DEF NoProblem, Reasons
<1> DEFINE problem == IF bundled THEN ArchiveProblem(Files[data.version])
                      ELSE Check(~Files[data.version].brace, "notSogContainer")
           next == IF bundled THEN "extract" ELSE "parse"
<1>4. FailOr(problem, next)
  BY DEF OpenLayout
<1>5. Undisturbed => /\ problem \in Reasons
                     /\ problem = NoProblem
                          <=> IF bundled THEN IsArchive(Primary) ELSE Primary.brace
  BY <1>0, <1>1, <1>2, <1>3, ReasonFacts DEF Check
<1> HIDE DEF problem
<1>6. CASE problem # NoProblem
  <2>1. Fail(problem)
    BY <1>4, <1>6 DEF FailOr
  <2>2. Undisturbed => ~Owed
    BY <1>0, <1>1, <1>5, <1>6, NothingOwed
  <2> QED BY <1>0, <1>5, <1>6, <2>1, <2>2, RefusedAgrees
<1>7. CASE problem = NoProblem
  <2>1. pc' = next /\ UNCHANGED <<result, error>>
    BY <1>4, <1>7 DEF FailOr, Continue
  <2>2. Undisturbed => Archived' /\ Found'
    BY <1>0, <1>5, <1>7, <2>1, Steady DEF Archived, Found, Decoding
  <2>3. Routed' /\ Parsed' /\ PlanesMeant' /\ BytesMeant' /\ LargeEnough'
    BY <2>1 DEF Routed, Parsed, PlanesMeant, BytesMeant, LargeEnough, Decoding
  <2> QED BY <1>0, <1>1, <2>1, <2>2, <2>3, ContinuedAgrees DEF Underway
<1> QED BY <1>6, <1>7

(* What is left of the invariant once the layout is open.                  *)
LEMMA OpenedAlone ==
  ASSUME IInv, JInv, Undisturbed, pc \in {"extract", "parse"} \cup Decoding
  PROVE  /\ Files[data.version] = Primary /\ data.version = file /\ IsFile(Primary)
         /\ file \in DOMAIN Files /\ bundled = Primary.zip
         /\ bundled => IsArchive(Primary)
<1>1. data.version = file /\ Files[data.version] = Primary /\ IsFile(Primary)
      /\ file \in DOMAIN Files
  BY Alone DEF Before, Decoding
<1> QED BY <1>1 DEF JInv, Underway, Probed, Archived

LEMMA ExtractMetadataAgrees == IInv /\ JInv /\ ExtractMetadata => JInv'
<1> SUFFICES ASSUME IInv, JInv, ExtractMetadata PROVE JInv'
  OBVIOUS
<1> DEFINE problem == ExtractProblem(kMetaEntryName, "notSogContainer")
<1>0. /\ pc = "extract" /\ operation \in Operations
      /\ UNCHANGED <<world, operation, bundled, fault>> /\ FailOr(problem, "parse")
  BY DEF ExtractMetadata, IInv, Types
<1>1. "notSogContainer" # NoProblem /\ "notSogContainer" \in Reasons
  BY DEF NoProblem, Reasons
<1>2. Undisturbed => /\ Primary.zip /\ bundled /\ IsArchive(Primary) /\ Probed'
                     /\ IsFile(Primary) /\ Files[data.version] = Primary
  BY <1>0, OpenedAlone, ProbedStays DEF JInv, Underway, Archived
<1>3. Undisturbed => /\ problem = NoProblem <=> FilesNamed(Primary, beside, kMetaEntryName) # {}
                     /\ problem \in Reasons
  BY <1>1, <1>2, ExtractIsChecked
<1> HIDE DEF problem
<1>4. CASE problem # NoProblem
  <2>1. Fail(problem)
    BY <1>0, <1>4 DEF FailOr
  <2>2. Undisturbed => ~HasMetadata(Primary, beside)
    BY <1>2, <1>3, <1>4 DEF HasMetadata, Documents
  <2> QED BY <1>0, <1>3, <1>4, <2>1, <2>2, NothingOwed, RefusedAgrees
<1>5. CASE problem = NoProblem
  <2>1. pc' = "parse" /\ UNCHANGED <<result, error>>
    BY <1>0, <1>5 DEF FailOr, Continue
  <2>2. UNCHANGED <<file, beside>> /\ Primary' = Primary
    BY <1>0, Steady
  <2>3. Undisturbed => Archived' /\ Found'
    BY <1>0, <1>2, <1>3, <1>5, <2>1, <2>2 DEF Archived, Found, Decoding
  <2>4. Routed' /\ Parsed' /\ PlanesMeant' /\ BytesMeant' /\ LargeEnough'
    BY <2>1 DEF Routed, Parsed, PlanesMeant, BytesMeant, LargeEnough, Decoding
  <2> QED BY <1>0, <1>2, <2>1, <2>3, <2>4, ContinuedAgrees DEF Underway
<1> QED BY <1>4, <1>5

LEMMA ParsedAlone ==
  ASSUME IInv, JInv, Undisturbed, pc = "parse"
  PROVE  LET m == MetaDocument(Root(Primary, beside)) IN
         /\ DocumentProblem[data.version] \in Reasons \cup {"unsupportedVersion"}
         /\ DocumentProblem[data.version] = NoProblem <=> HasMetadata(Primary, beside)
         /\ DocumentProblem[data.version] = NoProblem =>
              /\ DocumentOf[data.version] = m
              /\ m.gaussianCount \in Nat /\ m.paletteCount \in Nat
<1> DEFINE f == MetaFile(Primary)
           small == ~(f.size > kMaxMetadataBytes)
<1>1. /\ data.version = file /\ IsFile(Primary) /\ file \in DOMAIN Files
      /\ bundled = Primary.zip /\ Primary = Files[file] /\ Primary.size \in Nat
      /\ bundled => IsArchive(Primary)
  BY OpenedAlone, Alone
<1>2. /\ Primary.opens /\ ~(Primary.size > MaxBytes(bundled))
      /\ Primary.zip => FilesNamed(Primary, beside, kMetaEntryName) # {}
      /\ ~Primary.zip => Primary.brace
  BY <1>1 DEF JInv, Underway, Probed, Found
<1>3. /\ file \in DOMAIN DocumentProblem /\ IsContent(f)
      /\ Documents(Primary, beside) = IF Primary.zip /\ ~small THEN {} ELSE {f}
      /\ DocumentProblem[file] \in Reasons \cup {"unsupportedVersion"}
      /\ DocumentProblem[file] = NoProblem
           <=> small /\ f.json # Nothing /\ IsSchema(f.json[1])
  BY <1>1, <1>2, DocumentIsChecked DEF Primary
<1>4. Primary.size <= IF Primary.zip THEN kMaxZipArchiveBytes ELSE kMaxMetadataBytes
  <2>1. CASE Primary.zip
    <3>1. ~(Primary.size > kMaxZipArchiveBytes)
      BY <1>1, <1>2, <2>1 DEF MaxBytes
    <3> QED BY <1>1, <2>1, <3>1, LimitsAssumption
  <2>2. CASE ~Primary.zip
    <3>1. ~(Primary.size > kMaxMetadataBytes)
      BY <1>1, <1>2, <2>2 DEF MaxBytes
    <3> QED BY <1>1, <2>2, <3>1, LimitsAssumption
  <2> QED BY <2>1, <2>2
<1>5. ~Primary.zip => small
  <2>1. ~Primary.zip => f = Primary
    BY <1>1 DEF MetaFile, IsFile, Nothing
  <2>2. ~Primary.zip => ~(Primary.size > kMaxMetadataBytes)
    BY <1>1, <1>4, LimitsAssumption
  <2> QED BY <2>1, <2>2
<1> HIDE DEF small
<1>6. Documents(Primary, beside) = IF small THEN {f} ELSE {}
  BY <1>3, <1>5
<1>7. HasMetadata(Primary, beside)
        <=> \E g \in Documents(Primary, beside) : g.json # Nothing /\ IsSchema(g.json[1])
  BY <1>1, <1>2, <1>4 DEF HasMetadata
<1>8. DocumentProblem[file] = NoProblem <=> HasMetadata(Primary, beside)
  BY <1>3, <1>6, <1>7
<1>9. ASSUME DocumentProblem[file] = NoProblem
      PROVE  LET m == MetaDocument(Root(Primary, beside)) IN
             /\ DocumentOf[file] = m
             /\ m.gaussianCount \in Nat /\ m.paletteCount \in Nat
  <2>1. small /\ f.json # Nothing /\ IsSchema(f.json[1])
    BY <1>3, <1>9
  <2>2. Documents(Files[file], beside) = {f}
    BY <1>1, <1>6, <2>1
  <2>3. DocumentOf[file] = MetaDocument(f.json[1])
    BY <1>1, <1>3, <1>9 DEF DocumentOf
  <2> HIDE DEF f
  <2>4. /\ Root(Files[file], beside) = f.json[1]
        /\ MetaDocument(Root(Files[file], beside)).gaussianCount \in Nat
        /\ MetaDocument(Root(Files[file], beside)).paletteCount \in Nat
    BY <1>1, <1>3, <2>1, <2>2, MetadataFacts
  <2> QED BY <1>1, <2>3, <2>4
<1> QED BY <1>1, <1>3, <1>8, <1>9

LEMMA ParseDocumentAgrees == IInv /\ JInv /\ ParseDocument => JInv'
<1> SUFFICES ASSUME IInv, JInv, ParseDocument PROVE JInv'
  OBVIOUS
<1> DEFINE problem == DocumentProblem[data.version]
<1>0. /\ pc = "parse" /\ operation \in {"ReadMetadata", "Read"} /\ operation \in Operations
      /\ planes = <<>> /\ UNCHANGED <<world, operation, bundled, data, bytes, planes, fault>>
  BY DEF ParseDocument, IInv, Types, Directed, Loading, Counted
<1>1. Undisturbed => /\ problem \in Reasons \cup {"unsupportedVersion"}
                     /\ problem = NoProblem <=> HasMetadata(Primary, beside)
  BY <1>0, ParsedAlone
<1>2. CASE problem # NoProblem
  <2>1. Fail(problem)
    BY <1>2 DEF ParseDocument
  <2>2. Undisturbed => ~Owed
    BY <1>0, <1>1, <1>2, NothingOwed
  <2> QED BY <1>0, <1>1, <1>2, <2>1, <2>2, RefusedAgrees
<1>3. CASE problem = NoProblem
  <2>0. meta' = DocumentOf[data.version]
    BY <1>3 DEF ParseDocument
  <2>1. Undisturbed => /\ HasMetadata(Primary, beside)'
                       /\ meta' = MetaDocument(Root(Primary, beside))'
                       /\ meta'.gaussianCount \in Nat /\ meta'.paletteCount \in Nat
    BY <1>0, <1>3, <2>0, ParsedAlone, Steady
  <2>2. CASE operation = "ReadMetadata"
    <3>1. Succeed
      BY <1>3, <2>2 DEF ParseDocument
    <3>2. Undisturbed => Claimed'
      BY <1>0, <2>1, <2>2 DEF Claimed
    <3> QED BY <1>0, <3>1, <3>2, AcceptedAgrees
  <2>3. CASE operation # "ReadMetadata"
    <3>1. pc' = "plane" /\ UNCHANGED <<result, error>>
      BY <1>3, <2>3 DEF ParseDocument, Continue
    <3>2. Undisturbed => Probed' /\ Parsed'
      BY <1>0, <2>1, ProbedStays DEF Parsed
    <3>3. Undisturbed => Archived'
      BY <1>0, <3>1, OpenedAlone, Steady DEF Archived
    <3>4. PlanesMeant' /\ LargeEnough'
      <4>1. DOMAIN planes' = {} /\ Len(planes') = 0
        BY <1>0
      <4> QED BY <4>1 DEF PlanesMeant, LargeEnough
    <3>5. Routed' /\ Found' /\ BytesMeant'
      BY <3>1 DEF Routed, Found, BytesMeant
    <3> QED BY <1>0, <3>1, <3>2, <3>3, <3>4, <3>5, ContinuedAgrees DEF Underway
  <2> QED BY <2>2, <2>3
<1> QED BY <1>2, <1>3

(* ---- Each plane -------------------------------------------------------- *)

LEMMA DecodingAlone ==
  ASSUME IInv, JInv, Undisturbed, pc \in Decoding
  PROVE  /\ operation = "Read" /\ operation \in Operations
         /\ HasMetadata(Primary, beside) /\ meta = MetaDocument(Root(Primary, beside))
         /\ meta.gaussianCount \in Nat /\ meta.paletteCount \in Nat
         /\ DOMAIN meta.files = 1 .. IF meta.shBands = 0 THEN 5 ELSE 7
         /\ planes \in Seq(Image)
         /\ \A n \in DOMAIN planes :
              IsPlane(planes[n]) /\ Images(Primary, beside, meta.files[n]) = {planes[n]}
<1>1. operation = "Read" /\ operation \in Operations /\ planes \in Seq(Image)
      /\ IsDocument(data.version) /\ meta = DocumentOf[data.version]
  BY DEF IInv, Types, Directed, MetaParsed
<1>2. DOMAIN meta.files = 1 .. IF meta.shBands = 0 THEN 5 ELSE 7
  BY <1>1, DocumentFacts
<1> QED BY <1>1, <1>2 DEF JInv, Underway, Parsed, PlanesMeant

(* A container is a document whose every plane is enough.                  *)
Enough(n, image) ==
  IsPlane(image) /\ IF n = 6 THEN CoversPalette(image) ELSE Covers(image)
LEMMA ContainerForm ==
  ASSUME HasMetadata(Primary, beside), meta = MetaDocument(Root(Primary, beside))
  PROVE  IsContainer(Primary, beside)
           <=> \A n \in DOMAIN meta.files :
                 \E image \in Images(Primary, beside, meta.files[n]) : Enough(n, image)
BY DEF IsContainer, Enough, Covers, CoversPalette

LEMMA MissingPlane ==
  ASSUME IInv, JInv, Undisturbed, pc \in Decoding, NEW n \in DOMAIN meta.files,
         \A image \in Images(Primary, beside, meta.files[n]) : ~Enough(n, image)
  PROVE  ~Owed
<1>1. ~IsContainer(Primary, beside)
  <2>1. HasMetadata(Primary, beside) /\ meta = MetaDocument(Root(Primary, beside))
    BY DecodingAlone
  <2> QED BY <2>1, ContainerForm
<1> QED BY <1>1, DecodingAlone, NothingOwed

LEMMA NextPlane ==
  ASSUME IInv, JInv, Undisturbed, pc \in {"plane", "companion", "decode"}
  PROVE  /\ Len(planes) + 1 \in DOMAIN meta.files
         /\ FilesNamed(Primary, beside, PlaneName) = {} => ~Owed
<1>0. pc \in Decoding
  BY DEF Decoding
<1>1. DOMAIN meta.files = 1 .. IF meta.shBands = 0 THEN 5 ELSE 7
  BY <1>0, DecodingAlone
<1>2. Len(planes) \in 0 .. 4 \/ (Len(planes) \in {5, 6} /\ meta.shBands # 0)
  <2>1. Counted
    BY DEF IInv
  <2>2. pc = "plane" \/ pc = "companion" \/ pc = "decode"
    OBVIOUS
  <2> QED BY <2>1, <2>2, Zenon DEF Counted
<1>3. Len(planes) + 1 \in DOMAIN meta.files
  <2> DEFINE length == Len(planes)
  <2>1. \A k \in 0 .. 4 : k + 1 \in 1 .. 5 /\ k + 1 \in 1 .. 7
    OBVIOUS
  <2>2. \A k \in {5, 6} : k + 1 \in 1 .. 7
    OBVIOUS
  <2> HIDE DEF length
  <2>3. CASE meta.shBands = 0
    BY <1>1, <1>2, <2>1, <2>3 DEF length
  <2>4. CASE meta.shBands # 0
    BY <1>1, <1>2, <2>1, <2>2, <2>4 DEF length
  <2> QED BY <2>3, <2>4
<1>4. ASSUME FilesNamed(Primary, beside, PlaneName) = {} PROVE ~Owed
  <2>1. Images(Primary, beside, meta.files[Len(planes) + 1]) = {}
    BY <1>4 DEF Images, PlaneName
  <2> QED BY <1>0, <1>3, <2>1, MissingPlane
<1> QED BY <1>3, <1>4

(* The companion of that name, if it can be read whole.                    *)
LEMMA CompanionNamed ==
  ASSUME ~Primary.zip, beside \in [DOMAIN beside -> DOMAIN Files]
  PROVE  /\ IsMissing \/ Companion.size > kMaxPlaneBytes
              => FilesNamed(Primary, beside, PlaneName) = {}
         /\ ~IsMissing /\ ~(Companion.size > kMaxPlaneBytes)
              => FilesNamed(Primary, beside, PlaneName) = {Companion}
<1> DEFINE name == PlaneName
           S == {Files[beside[n]] : n \in DOMAIN beside \cap {name}}
<1>1. FilesNamed(Primary, beside, name) = {f \in S : f.opens /\ f.size <= kMaxPlaneBytes}
  BY DEF FilesNamed
<1>2. S = IF name \in DOMAIN beside THEN {Companion} ELSE {}
  BY DEF Companion
<1>3. name \in DOMAIN beside => Companion.size \in Nat
  BY FileFacts DEF Companion
<1>4. IsMissing <=> name \notin DOMAIN beside \/ ~Companion.opens
  BY DEF IsMissing
<1> HIDE DEF S, name
<1>5. name \in DOMAIN beside => (Companion.size > kMaxPlaneBytes
                                   <=> ~(Companion.size <= kMaxPlaneBytes))
  BY <1>3, LimitsAssumption
<1>6. IsMissing \/ Companion.size > kMaxPlaneBytes => FilesNamed(Primary, beside, name) = {}
  BY <1>1, <1>2, <1>4, <1>5
<1>7. ~IsMissing /\ ~(Companion.size > kMaxPlaneBytes)
        => FilesNamed(Primary, beside, name) = {Companion}
  BY <1>1, <1>2, <1>4, <1>5
<1> QED BY <1>6, <1>7 DEF name

(* A step that leaves the planes decoded so far as they are.               *)
LEMMA PlanesStay ==
  ASSUME IInv, JInv, Undisturbed, UNCHANGED <<world, bundled, meta, planes, fault>>,
         pc \in Decoding, pc' \in Decoding
  PROVE  /\ Probed' /\ Archived' /\ Parsed' /\ PlanesMeant'
         /\ Routed' /\ Found'
         /\ pc # "check" => LargeEnough'
<1>1. Probed' /\ Primary' = Primary /\ beside' = beside
  BY ProbedStays, Steady
<1>2. Archived'
  BY <1>1, OpenedAlone DEF Archived, Decoding
<1>3. Parsed' /\ PlanesMeant'
  BY <1>1, DecodingAlone DEF Parsed, PlanesMeant
<1>4. Routed' /\ Found'
  BY DEF Routed, Found, Decoding
<1>5. pc # "check" => LargeEnough'
  BY DEF JInv, Underway, LargeEnough, Covers
<1> QED BY <1>1, <1>2, <1>3, <1>4, <1>5

(* The bytes of the next plane are taken.                                  *)
LEMMA TakenAgrees ==
  ASSUME IInv, JInv, pc \in {"plane", "companion"}, pc' = "decode",
         UNCHANGED <<world, operation, bundled, meta, planes, fault, result, error>>,
         NEW f, Undisturbed => FilesNamed(Primary, beside, PlaneName) = {f},
         bytes'.image = f.image
  PROVE  JInv'
<1>1. pc \in Decoding /\ pc' \in Decoding /\ pc # "check" /\ pc # "return"
  BY DEF Decoding
<1>2. Undisturbed => BytesMeant'
  <2>1. PlaneName' = PlaneName
    BY DEF PlaneName
  <2>2. Primary' = Primary /\ beside' = beside
    BY Steady
  <2> QED BY <2>1, <2>2 DEF BytesMeant
<1> QED BY <1>1, <1>2, PlanesStay, ContinuedAgrees DEF Underway

LEMMA ExtractPlaneAgrees == IInv /\ JInv /\ ExtractPlane => JInv'
<1> SUFFICES ASSUME IInv, JInv, ExtractPlane PROVE JInv'
  OBVIOUS
<1> DEFINE problem == ExtractProblem(PlaneName, "missingPlane")
           f == Entry(Archive, PlaneName).file
<1>0. /\ pc = "plane" /\ bundled /\ FailOr(problem, "decode") /\ pc \in Decoding
      /\ UNCHANGED <<world, operation, bundled, meta, planes, fault>>
  BY DEF ExtractPlane, document, Decoding
<1>1. "missingPlane" # NoProblem /\ "missingPlane" \in Reasons
  BY DEF NoProblem, Reasons
<1>2. Undisturbed => IsFile(Files[data.version]) /\ IsArchive(Files[data.version])
                     /\ Files[data.version] = Primary
  BY <1>0, OpenedAlone
<1>3. Undisturbed =>
        /\ problem = NoProblem <=> FilesNamed(Primary, beside, PlaneName) # {}
        /\ problem \in Reasons
        /\ FilesNamed(Primary, beside, PlaneName) # {} =>
             FilesNamed(Primary, beside, PlaneName) = {f}
  BY <1>1, <1>2, ExtractIsChecked
<1>4. CASE problem # NoProblem
  <2>1. Fail(problem)
    BY <1>0, <1>4 DEF FailOr
  <2>2. Undisturbed => ~Owed
    BY <1>0, <1>3, <1>4, NextPlane
  <2> HIDE DEF problem
  <2> QED BY <1>0, <1>3, <1>4, <2>1, <2>2, RefusedAgrees
<1>5. CASE problem = NoProblem
  <2>1. pc' = "decode" /\ UNCHANGED <<result, error>>
    BY <1>0, <1>5 DEF FailOr, Continue
  <2>2. Has(PlaneName)
    BY <1>5 DEF ExtractProblem, NoProblem
  <2>3. bytes'.image = f.image
    BY <2>2 DEF ExtractPlane
  <2>4. Undisturbed => FilesNamed(Primary, beside, PlaneName) = {f}
    BY <1>3, <1>5
  <2> HIDE DEF f
  <2> QED BY <1>0, <2>1, <2>3, <2>4, TakenAgrees
<1> QED BY <1>4, <1>5

(* The companion is there, and small enough; or the call is refused.       *)
LEMMA CompanionAlone ==
  ASSUME IInv, JInv, Undisturbed, pc \in {"plane", "companion"}, ~bundled
  PROVE  /\ IsMissing \/ Companion.size > kMaxPlaneBytes => ~Owed
         /\ ~IsMissing /\ ~(Companion.size > kMaxPlaneBytes)
              => FilesNamed(Primary, beside, PlaneName) = {Companion}
<1>1. ~Primary.zip /\ beside \in [DOMAIN beside -> DOMAIN Files]
  BY OpenedAlone DEF IInv, Types, Decoding
<1> QED BY <1>1, CompanionNamed, NextPlane

LEMMA CompanionCodes ==
  /\ "missingPlane" \in Reasons /\ "unreadableFile" \in Reasons
  /\ "importLimitExceeded" \in Reasons
  /\ "missingPlane" # NoProblem /\ "unreadableFile" # NoProblem
  /\ "importLimitExceeded" # NoProblem
BY DEF Reasons, NoProblem

LEMMA ProbeCompanionAgrees == IInv /\ JInv /\ ProbeCompanion => JInv'
<1> SUFFICES ASSUME IInv, JInv, ProbeCompanion PROVE JInv'
  OBVIOUS
<1>0. /\ pc = "plane" /\ ~bundled /\ pc \in Decoding
      /\ UNCHANGED <<world, operation, bundled, meta, planes, fault>>
  BY DEF ProbeCompanion, document, Decoding
<1>1. CASE IsMissing
  <2>1. Fail("missingPlane")
    BY <1>1 DEF ProbeCompanion
  <2> QED BY <1>0, <1>1, <2>1, CompanionAlone, CompanionCodes, RefusedAgrees
<1>2. CASE ~IsMissing /\ Companion.size > kMaxPlaneBytes
  <2>1. Fail("importLimitExceeded")
    BY <1>2, CompanionCodes DEF ProbeCompanion, FailOr, Check
  <2> QED BY <1>0, <1>2, <2>1, CompanionAlone, CompanionCodes, RefusedAgrees
<1>3. CASE ~IsMissing /\ ~(Companion.size > kMaxPlaneBytes)
  <2>1. pc' = "companion" /\ UNCHANGED <<result, error>>
    BY <1>3 DEF ProbeCompanion, FailOr, Check, Continue
  <2>2. BytesMeant' /\ pc' \in Decoding /\ pc' # "return" /\ pc # "check" /\ pc # "return"
    BY <1>0, <2>1 DEF BytesMeant, Decoding
  <2> QED BY <1>0, <2>1, <2>2, PlanesStay, ContinuedAgrees DEF Underway
<1> QED BY <1>1, <1>2, <1>3

LEMMA LoadCompanionAgrees == IInv /\ JInv /\ (LoadCompanion \/ AskLoader) => JInv'
<1> SUFFICES ASSUME IInv, JInv, LoadCompanion \/ AskLoader PROVE JInv'
  OBVIOUS
<1>0. /\ pc \in {"plane", "companion"} /\ ~bundled
      /\ UNCHANGED <<world, operation, bundled, meta, planes, fault>>
  BY DEF LoadCompanion, AskLoader, IInv, Counted
<1>1. CASE IsMissing
  <2>1. Fail("unreadableFile") \/ Fail("missingPlane")
    BY <1>1 DEF LoadCompanion, AskLoader
  <2>2. Undisturbed => ~Owed
    BY <1>0, <1>1, CompanionAlone
  <2>3. pc # "return"
    BY <1>0
  <2> QED BY <1>0, <2>1, <2>2, <2>3, CompanionCodes, RefusedAgrees
<1>2. CASE ~IsMissing /\ Companion.size > kMaxPlaneBytes
  <2>1. Fail("importLimitExceeded")
    BY <1>2 DEF LoadCompanion, AskLoader
  <2> QED BY <1>0, <1>2, <2>1, CompanionAlone, CompanionCodes, RefusedAgrees
<1>3. CASE ~IsMissing /\ ~(Companion.size > kMaxPlaneBytes)
  <2>1. /\ bytes' = [image |-> Companion.image, length |-> Companion.size]
        /\ pc' = "decode" /\ UNCHANGED <<result, error>>
    BY <1>3 DEF LoadCompanion, AskLoader, TakeCompanion, Continue
  <2>2. bytes'.image = Companion.image
    BY <2>1
  <2>3. Undisturbed => FilesNamed(Primary, beside, PlaneName) = {Companion}
    BY <1>0, <1>3, CompanionAlone
  <2> QED BY <1>0, <2>1, <2>2, <2>3, TakenAgrees
<1> QED BY <1>1, <1>2, <1>3

LEMMA DecodedAlone ==
  ASSUME IInv, JInv, Undisturbed, pc = "decode"
  PROVE  /\ Images(Primary, beside, PlaneName)
              = IF bytes.image = Nothing THEN {} ELSE {bytes.image[1]}
         /\ PlaneProblem # NoProblem => ~Owed
<1>1. PICK f : FilesNamed(Primary, beside, PlaneName) = {f} /\ f.image = bytes.image
  BY DEF JInv, Underway, BytesMeant
<1>2. Images(Primary, beside, PlaneName)
        = IF bytes.image = Nothing THEN {} ELSE {bytes.image[1]}
  BY <1>1 DEF Images
<1>3. BytesBounded
  BY DEF IInv, BytesLoaded
<1>4. ASSUME PlaneProblem # NoProblem PROVE ~Owed
  <2>1. \A image \in Images(Primary, beside, meta.files[Len(planes) + 1]) :
          ~Enough(Len(planes) + 1, image)
    BY <1>2, <1>3, <1>4, PlaneIsChecked DEF PlaneName, Enough
  <2>2. Len(planes) + 1 \in DOMAIN meta.files /\ pc \in Decoding
    BY NextPlane DEF Decoding
  <2> QED BY <2>1, <2>2, MissingPlane
<1> QED BY <1>2, <1>4

LEMMA DecodePlaneAgrees == IInv /\ JInv /\ DecodePlane => JInv'
<1> SUFFICES ASSUME IInv, JInv, DecodePlane PROVE JInv'
  OBVIOUS
<1> DEFINE last == Len(planes) + 1
           image == bytes.image[1]
<1>0. /\ pc = "decode" /\ pc \in Decoding /\ BytesBounded /\ planes \in Seq(Image)
      /\ UNCHANGED <<world, operation, bundled, meta, fault>>
  BY DEF DecodePlane, IInv, Types, BytesLoaded, Decoding
<1>1. PlaneProblem \in Reasons
  BY <1>0, PlaneIsChecked
<1>2. CASE PlaneProblem # NoProblem
  <2>1. Fail(PlaneProblem)
    BY <1>2 DEF DecodePlane
  <2> QED BY <1>0, <1>1, <1>2, <2>1, DecodedAlone, RefusedAgrees
<1>3. CASE PlaneProblem = NoProblem
  <2>1. /\ IsPlane(image) /\ image \in Image /\ bytes.image = <<image>>
        /\ bytes.image # Nothing
    BY <1>0, <1>3, PlaneIsChecked
  <2>2. /\ planes' = planes \o <<image>> /\ UNCHANGED <<result, error>>
        /\ pc' = CASE last = 5 -> "check" [] last = 7 -> "palette" [] OTHER -> "plane"
    BY <1>3, <2>1 DEF DecodePlane, Continue
  <2> HIDE DEF image
  <2>3. /\ Len(planes') = last /\ DOMAIN planes' = DOMAIN planes \cup {last}
        /\ planes'[last] = image /\ last \in Nat /\ Len(planes) \in Nat
        /\ \A n \in DOMAIN planes : planes'[n] = planes[n]
        /\ DOMAIN planes = 1 .. Len(planes)
    BY <1>0, <2>1, <2>2
  <2>4. pc' \in {"check", "palette", "plane"} /\ pc' \in Decoding
        /\ (last = 5 => pc' = "check")
    BY <2>2, <2>3 DEF Decoding
  <2>5. Undisturbed => Probed' /\ Primary' = Primary /\ beside' = beside
    BY <1>0, ProbedStays, Steady
  <2>6. Undisturbed => Archived'
    BY <1>0, <2>4, <2>5, OpenedAlone DEF Archived
  <2>7. Undisturbed => Parsed'
    BY <1>0, <2>5, DecodingAlone DEF Parsed
  <2>8. Undisturbed => PlanesMeant'
    <3> SUFFICES ASSUME Undisturbed, NEW n \in DOMAIN planes'
                 PROVE  IsPlane(planes'[n])
                        /\ Images(Primary, beside, meta.files[n]) = {planes'[n]}
      BY <1>0, <2>5 DEF PlanesMeant
    <3>1. CASE n = last
      BY <1>0, <2>1, <2>3, <3>1, DecodedAlone DEF PlaneName, image
    <3>2. CASE n \in DOMAIN planes
      BY <1>0, <2>3, <3>2, DecodingAlone
    <3> QED BY <2>3, <3>1, <3>2
  <2>9. Undisturbed => LargeEnough'
    <3> SUFFICES ASSUME Undisturbed, pc' # "check", Len(planes') >= 5
                 PROVE  \A n \in 1 .. 5 : Covers(planes[n]) /\ planes'[n] = planes[n]
      BY <1>0 DEF LargeEnough, Covers
    <3>1. Len(planes) >= 5
      BY <2>3, <2>4
    <3>2. \A n \in 1 .. 5 : Covers(planes[n])
      BY <1>0, <3>1 DEF JInv, Underway, LargeEnough
    <3>3. \A n \in 1 .. 5 : n \in DOMAIN planes
      BY <2>3, <3>1
    <3> QED BY <2>3, <3>2, <3>3
  <2>10. Routed' /\ Found' /\ BytesMeant' /\ pc' # "return" /\ pc # "return"
    BY <1>0, <2>4 DEF Routed, Found, BytesMeant, Decoding
  <2> QED BY <1>0, <2>2, <2>5, <2>6, <2>7, <2>8, <2>9, <2>10, ContinuedAgrees
          DEF Underway
<1> QED BY <1>2, <1>3

(* ---- The planes together ----------------------------------------------- *)

(* One plane that is not enough, and it is no container.                   *)
LEMMA OneTooSmall ==
  ASSUME IInv, JInv, Undisturbed, pc \in Decoding,
         NEW n \in DOMAIN planes, n \in DOMAIN meta.files, ~Enough(n, planes[n])
  PROVE  ~Owed
<1>1. Images(Primary, beside, meta.files[n]) = {planes[n]}
  BY DecodingAlone
<1>2. \A image \in Images(Primary, beside, meta.files[n]) : ~Enough(n, image)
  BY <1>1
<1> QED BY <1>2, MissingPlane

LEMMA AllLargeEnough ==
  ASSUME IInv, JInv, Undisturbed, pc \in Decoding, Succeed,
         UNCHANGED <<world, operation, meta, fault>>,
         DOMAIN planes = DOMAIN meta.files,
         \A n \in DOMAIN planes : IF n = 6 THEN CoversPalette(planes[n]) ELSE Covers(planes[n])
  PROVE  JInv'
<1>1. /\ HasMetadata(Primary, beside) /\ meta = MetaDocument(Root(Primary, beside))
      /\ operation = "Read"
      /\ \A n \in DOMAIN planes :
           IsPlane(planes[n]) /\ Images(Primary, beside, meta.files[n]) = {planes[n]}
  BY DecodingAlone
<1>2. ASSUME NEW n \in DOMAIN meta.files
      PROVE  \E image \in Images(Primary, beside, meta.files[n]) : Enough(n, image)
  <2>1. planes[n] \in Images(Primary, beside, meta.files[n])
    BY <1>1
  <2>2. Enough(n, planes[n])
    BY <1>1 DEF Enough
  <2> QED BY <2>1, <2>2
<1>3. IsContainer(Primary, beside)
  BY <1>1, <1>2, ContainerForm
<1>4. Claimed'
  BY <1>1, <1>3, Steady DEF Claimed
<1>5. pc # "return"
  BY DEF Decoding
<1> QED BY <1>4, <1>5, AcceptedAgrees

LEMMA CheckPlanesAgrees == IInv /\ JInv /\ CheckPlanes => JInv'
<1> SUFFICES ASSUME IInv, JInv, CheckPlanes PROVE JInv'
  OBVIOUS
<1> DEFINE codes == [n \in 1 .. 5 |-> PerGaussianProblem(planes[n])]
           problem == FirstFailure(codes)
<1>0. /\ pc = "check" /\ pc \in Decoding /\ pc # "return" /\ planes \in Seq(Image)
      /\ Len(planes) = 5 /\ DOMAIN planes = 1 .. 5
      /\ UNCHANGED <<world, operation, bundled, meta, planes, fault>>
  BY DEF CheckPlanes, IInv, Types, Counted, Decoding, document
<1>1. Undisturbed => 1 .. 5 \subseteq DOMAIN meta.files /\ meta.gaussianCount \in Nat
                     /\ (meta.shBands = 0 => DOMAIN meta.files = 1 .. 5)
  BY <1>0, DecodingAlone
<1>2. Undisturbed => \A n \in 1 .. 5 : /\ codes[n] = NoProblem <=> Covers(planes[n])
                                       /\ codes[n] \in Reasons
  <2>1. \A n \in 1 .. 5 : codes[n] = PerGaussianProblem(planes[n])
    OBVIOUS
  <2>2. \A n \in 1 .. 5 : planes[n] \in Image
    BY <1>0, ElementOfSeq
  <2> HIDE DEF codes
  <2> QED BY <1>1, <2>1, <2>2, SizeIsChecked
<1>3. DOMAIN codes = 1 .. 5
  OBVIOUS
<1> HIDE DEF codes
<1>4. /\ problem = NoProblem <=> \A n \in 1 .. 5 : codes[n] = NoProblem
      /\ problem = NoProblem \/ \E n \in 1 .. 5 : problem = codes[n]
  BY <1>3, AllPass, OneFails
<1>5. Undisturbed => /\ problem \in Reasons
                     /\ problem = NoProblem <=> \A n \in 1 .. 5 : Covers(planes[n])
  BY <1>2, <1>4, ReasonFacts
<1>6. /\ problem # NoProblem => Fail(problem)
      /\ problem = NoProblem /\ meta.shBands = 0 => Succeed
      /\ problem = NoProblem /\ meta.shBands # 0 => Continue("plane")
  BY DEF CheckPlanes, codes
<1> HIDE DEF problem
<1>7. CASE problem # NoProblem
  <2>1. Undisturbed => ~Owed
    <3> SUFFICES ASSUME Undisturbed PROVE ~Owed
      OBVIOUS
    <3>1. PICK n \in 1 .. 5 : ~Covers(planes[n])
      BY <1>5, <1>7
    <3>2. n # 6
      OBVIOUS
    <3>3. ~Enough(n, planes[n])
      BY <3>1, <3>2 DEF Enough
    <3> QED BY <1>0, <1>1, <3>3, OneTooSmall
  <2> QED BY <1>0, <1>5, <1>6, <1>7, <2>1, RefusedAgrees
<1>8. CASE problem = NoProblem /\ meta.shBands = 0
  <2>1. CASE Undisturbed
    <3>1. \A n \in DOMAIN planes : n # 6 /\ Covers(planes[n])
      BY <1>0, <1>5, <1>8, <2>1
    <3>2. DOMAIN planes = DOMAIN meta.files
      BY <1>0, <1>1, <1>8, <2>1
    <3> QED BY <1>0, <1>6, <1>8, <2>1, <3>1, <3>2, AllLargeEnough
  <2>2. CASE ~Undisturbed
    BY <1>0, <1>6, <1>8, <2>2, AcceptedAgrees
  <2> QED BY <2>1, <2>2
<1>9. CASE problem = NoProblem /\ meta.shBands # 0
  <2>1. pc' = "plane" /\ UNCHANGED <<result, error>>
    BY <1>6, <1>9 DEF Continue
  <2>2. pc' \in Decoding /\ pc' # "return" /\ BytesMeant'
    BY <2>1 DEF Decoding, BytesMeant
  <2>3. Undisturbed => LargeEnough'
    BY <1>0, <1>5, <1>9 DEF LargeEnough, Covers
  <2> QED BY <1>0, <2>1, <2>2, <2>3, PlanesStay, ContinuedAgrees DEF Underway
<1> QED BY <1>7, <1>8, <1>9

LEMMA CheckPaletteAgrees == IInv /\ JInv /\ CheckPalette => JInv'
<1> SUFFICES ASSUME IInv, JInv, CheckPalette PROVE JInv'
  OBVIOUS
<1> DEFINE problem == PaletteProblem(planes[6], planes[7])
<1>0. /\ pc = "palette" /\ pc \in Decoding /\ pc # "return" /\ planes \in Seq(Image)
      /\ Len(planes) = 7 /\ meta.shBands # 0 /\ DOMAIN planes = 1 .. 7
      /\ UNCHANGED <<world, operation, bundled, meta, planes, fault>>
  BY DEF CheckPalette, IInv, Types, Counted, Decoding, document
<1>1. Undisturbed => /\ DOMAIN meta.files = 1 .. 7
                     /\ meta.gaussianCount \in Nat /\ meta.paletteCount \in Nat
                     /\ \A n \in 1 .. 5 : Covers(planes[n])
  <2>1. Undisturbed => \A n \in 1 .. 5 : Covers(planes[n])
    BY <1>0 DEF JInv, Underway, LargeEnough
  <2> QED BY <1>0, <2>1, DecodingAlone
<1>2. planes[6] \in Image /\ planes[7] \in Image /\ 6 \in DOMAIN planes /\ 7 \in DOMAIN planes
  <2>1. 6 \in 1 .. 7 /\ 7 \in 1 .. 7
    OBVIOUS
  <2> QED BY <1>0, <2>1, ElementOfSeq
<1>3. Undisturbed => /\ problem = NoProblem
                          <=> Covers(planes[7]) /\ CoversPalette(planes[6])
                     /\ problem \in Reasons
  BY <1>1, <1>2, PaletteIsChecked
<1>4. /\ problem # NoProblem => Fail(problem)
      /\ problem = NoProblem => Succeed
  BY DEF CheckPalette
<1> HIDE DEF problem
<1>5. CASE problem # NoProblem
  <2>1. Undisturbed => ~Owed
    <3> SUFFICES ASSUME Undisturbed PROVE ~Owed
      OBVIOUS
    <3>1. ~Enough(6, planes[6]) \/ ~Enough(7, planes[7])
      BY <1>3, <1>5 DEF Enough
    <3> QED BY <1>0, <1>1, <1>2, <3>1, OneTooSmall
  <2> QED BY <1>0, <1>3, <1>4, <1>5, <2>1, RefusedAgrees
<1>6. CASE problem = NoProblem
  <2>1. CASE Undisturbed
    <3>1. \A n \in 1 .. 7 : n \in 1 .. 5 \/ n = 6 \/ n = 7
      OBVIOUS
    <3>2. \A n \in 1 .. 5 : n # 6
      OBVIOUS
    <3>3. \A n \in DOMAIN planes :
            IF n = 6 THEN CoversPalette(planes[n]) ELSE Covers(planes[n])
      BY <1>0, <1>1, <1>3, <1>6, <2>1, <3>1, <3>2
    <3>4. DOMAIN planes = DOMAIN meta.files
      BY <1>0, <1>1, <2>1
    <3> QED BY <1>0, <1>4, <1>6, <2>1, <3>3, <3>4, AllLargeEnough
  <2>2. CASE ~Undisturbed
    BY <1>0, <1>4, <1>6, <2>2, AcceptedAgrees
  <2> QED BY <2>1, <2>2
<1> QED BY <1>5, <1>6

(* ---- What disturbs a call ---------------------------------------------- *)

LEMMA FaultsAgree == IInv /\ JInv /\ (Refused \/ Throw) => JInv'
<1> SUFFICES ASSUME IInv, JInv, Refused \/ Throw PROVE JInv'
  OBVIOUS
<1>1. /\ pc # "return" /\ pc' = "return" /\ fault' = TRUE
      /\ result' = "false" \/ (result' = "threw" /\ error' = error)
  BY DEF Refused, Throw, Fail, IsGate
<1>2. Running'
  BY <1>1 DEF JInv, Running
<1>3. ~Undisturbed'
  BY <1>1 DEF Undisturbed
<1> QED BY <1>2, <1>3, DisturbedAgrees

LEMMA EditsAgree == IInv /\ JInv /\ (EditFile \/ EditCompanion) => JInv'
<1> SUFFICES ASSUME IInv, JInv, EditFile \/ EditCompanion PROVE JInv'
  OBVIOUS
<1>1. file \in seen /\ Beside \subseteq seenBeside /\ UNCHANGED <<pc, result, error>>
  BY DEF IInv, Watched, EditFile, EditCompanion, Quiet
<1>2. Running'
  BY <1>1 DEF JInv, Running
<1>3. CASE EditFile
  <2>1. file' # file /\ seen' = seen \cup {file'}
    BY <1>3 DEF EditFile
  <2>2. seen' # {file'}
    BY <1>1, <2>1
  <2>3. ~Undisturbed'
    BY <2>2 DEF Undisturbed
  <2> QED BY <1>2, <2>3, DisturbedAgrees
<1>4. CASE EditCompanion
  <2>1. PICK edit \in EditCompanions :
          /\ edit[1] \in DOMAIN beside /\ beside[edit[1]] # edit[2]
          /\ beside' = [beside EXCEPT ![edit[1]] = edit[2]]
          /\ seenBeside' = seenBeside \cup {edit}
    BY <1>4 DEF EditCompanion
  <2> DEFINE name == edit[1]
             old == <<name, beside[name]>>
  <2>2. old \in seenBeside'
    BY <1>1, <2>1 DEF Beside
  <2>3. beside'[name] # beside[name]
    BY <2>1 DEF IInv, Types
  <2>4. old \notin Beside'
    BY <2>3 DEF Beside
  <2>5. ~Undisturbed'
    <3>1. seenBeside' # Beside'
      BY <2>2, <2>4
    <3> QED BY <3>1 DEF Undisturbed
  <2> QED BY <1>2, <2>5, DisturbedAgrees
<1> QED BY <1>3, <1>4

LEMMA NothingUnderway ==
  ASSUME pc \in {"idle", "prefix", "probe"} PROVE Underway /\ Answered
BY DEF Underway, Answered, Routed, Probed, Archived, Found, Parsed, PlanesMeant, BytesMeant,
       LargeEnough, Decoding

LEMMA CallAgrees == IInv /\ JInv /\ (Call \/ Return) => JInv'
<1> SUFFICES ASSUME IInv, JInv, Call \/ Return PROVE JInv'
  OBVIOUS
<1>1. pc' \in {"idle", "prefix", "probe"}
  BY DEF Call, Return
<1>2. Running'
  <2>1. CASE Call
    BY <2>1 DEF Call, JInv, Running
  <2>2. CASE Return
    BY <2>2 DEF Return, Running, NoProblem
  <2> QED BY <2>1, <2>2
<1>3. Underway' /\ Answered'
  BY <1>1 DEF Underway, Answered, Routed, Probed, Archived, Found, Parsed, PlanesMeant,
              BytesMeant, LargeEnough, Decoding
<1> QED BY <1>2, <1>3 DEF JInv

LEMMA AgreementStutters == IInv /\ JInv /\ UNCHANGED vars => JInv'
<1> SUFFICES ASSUME IInv, JInv, UNCHANGED vars PROVE JInv'
  OBVIOUS
<1>0. /\ UNCHANGED <<world, fault>>
      /\ UNCHANGED <<operation, pc, result, error, bundled, data, meta, bytes, planes>>
  BY DEF vars, document
<1>1. /\ UNCHANGED <<file, beside>> /\ Primary' = Primary /\ Undisturbed' = Undisturbed
  BY <1>0, Steady
<1>2. Running'
  BY <1>0 DEF JInv, Running
<1>3. Routed = Routed' /\ Probed = Probed' /\ Archived = Archived' /\ Found = Found'
  BY <1>0, <1>1 DEF Routed, GateLimit, Probed, MaxBytes, Archived, Found
<1>4. Parsed = Parsed' /\ PlanesMeant = PlanesMeant' /\ LargeEnough = LargeEnough'
  BY <1>0, <1>1 DEF Parsed, PlanesMeant, LargeEnough, Covers
<1>5. BytesMeant = BytesMeant'
  <2>1. PlaneName' = PlaneName
    BY <1>0 DEF PlaneName
  <2> QED BY <1>0, <1>1, <2>1 DEF BytesMeant
<1>6. Answered = Answered'
  <2>1. Owed = Owed' /\ Claimed = Claimed'
    BY <1>0, <1>1 DEF Owed, Claimed
  <2> QED BY <1>0, <2>1 DEF Answered
<1> QED BY <1>1, <1>2, <1>3, <1>4, <1>5, <1>6 DEF JInv, Underway

LEMMA NextAgrees == IInv /\ JInv /\ [Next]_vars => JInv'
<1> SUFFICES ASSUME IInv, JInv, [Next]_vars PROVE JInv'
  OBVIOUS
<1>1. CASE EditFile \/ EditCompanion \/ Call \/ Refused \/ Throw \/ Return
  BY <1>1, EditsAgree, CallAgrees, FaultsAgree
<1>2. CASE ReadPrefix \/ Gate \/ ProbeLayout \/ LoadContainer \/ OpenLayout
           \/ ExtractMetadata \/ ParseDocument
  BY <1>2, ReadPrefixAgrees, GateAgrees, ProbeLayoutAgrees, LoadContainerAgrees,
     OpenLayoutAgrees, ExtractMetadataAgrees, ParseDocumentAgrees
<1>3. CASE ExtractPlane \/ ProbeCompanion \/ LoadCompanion \/ AskLoader
           \/ DecodePlane \/ CheckPlanes \/ CheckPalette
  BY <1>3, ExtractPlaneAgrees, ProbeCompanionAgrees, LoadCompanionAgrees,
     DecodePlaneAgrees, CheckPlanesAgrees, CheckPaletteAgrees
<1>4. CASE UNCHANGED vars
  BY <1>4, AgreementStutters
<1> QED BY <1>1, <1>2, <1>3, <1>4 DEF Next, Step

(* Whether a call of any of the four methods accepts or refuses, it says   *)
(* so of the files it was given (SogReader.cpp:963-1225).                  *)
THEOREM Agreement == Spec => []JInv
<1>1. Init => JInv
  <2> SUFFICES ASSUME Init PROVE JInv
    OBVIOUS
  <2>1. pc = "idle" /\ result = "none" /\ error = NoProblem
    BY DEF Init, NoProblem
  <2> QED BY <2>1, NothingUnderway DEF JInv, Running
<1> QED BY <1>1, NextAgrees, Invariance, PTL DEF Spec

(* Left alone, Read accepts exactly the containers, in either layout and   *)
(* through either loader; every refusal says why, and never blames itself  *)
(* (SogReader.cpp:447-611,619-786,1078-1225).                              *)
THEOREM ReadsAcceptContainers == Spec => []ReadAcceptsContainers
<1>1. IInv /\ JInv => ReadAcceptsContainers
  <2> SUFFICES ASSUME IInv, JInv, Returned("Read"), Undisturbed
               PROVE  /\ result = "true" <=> IsContainer(Primary, beside)
                      /\ result = "false" <=> error # ""
                      /\ error # "internalError"
    BY DEF ReadAcceptsContainers
  <2>1. pc = "return" /\ operation = "Read" /\ Answered
    BY DEF Returned, JInv
  <2>2. result \in {"true", "false"} /\ (result = "true" => IsContainer(Primary, beside))
        /\ (result = "false" => ~IsContainer(Primary, beside)
                                /\ error \notin {NoProblem, "internalError"})
    BY <2>1 DEF Answered, Claimed, Owed
  <2>3. result # "false" => error = NoProblem
    BY DEF JInv, Running
  <2> QED BY <2>2, <2>3 DEF NoProblem
<1> QED BY <1>1, Invariance, Agreement, PTL

(* What Read accepts, the metadata-only path accepts with the same count   *)
(* and degree, and it accepts nothing that is not of the schema, although  *)
(* it looks at no plane (SogReader.h:148-154, SogReader.cpp:1029-1076).    *)
THEOREM MetadataReadsAgree == Spec => []MetadataReadAgrees
<1>1. IInv /\ JInv => MetadataReadAgrees
  <2> SUFFICES ASSUME IInv, JInv, Returned("ReadMetadata"), Undisturbed
               PROVE  /\ IsContainer(Primary, beside) => result = "true"
                      /\ result = "true" =>
                           /\ HasMetadata(Primary, beside)
                           /\ meta = MetaDocument(Root(Primary, beside))
    BY DEF MetadataReadAgrees
  <2>1. pc = "return" /\ operation = "ReadMetadata" /\ Answered
    BY DEF Returned, JInv
  <2>2. IsContainer(Primary, beside) => HasMetadata(Primary, beside)
    BY DEF IsContainer
  <2> QED BY <2>1, <2>2 DEF Answered, Claimed, Owed
<1> QED BY <1>1, Invariance, Agreement, PTL

(* The gate of .sog claims a container exactly if it is bundled, the gate  *)
(* of .json exactly if it is unbundled and its document is within the      *)
(* routing bound, kCanReadPrefixLimit, which is below what Read takes; and *)
(* it claims nothing that Read then calls no document or another version   *)
(* (SogReader.h:133-146, SogReader.cpp:48-51,963-1027).                    *)
THEOREM RoutingIsSound == Spec => []RoutingAgrees
<1>1. IInv /\ JInv => RoutingAgrees
  <2> SUFFICES ASSUME IInv, JInv, pc = "return", Undisturbed
               PROVE  /\ operation = "CanReadBundled" /\ IsContainer(Primary, beside) =>
                           (result = "true" <=> Primary.zip)
                      /\ operation = "CanReadUnbundled" =>
                           /\ IsContainer(Primary, beside) =>
                                (result = "true" <=> /\ ~Primary.zip
                                                     /\ Primary.size <= kCanReadPrefixLimit)
                           /\ result = "true" =>
                                /\ ~Primary.zip /\ Primary.brace
                                /\ ParseMetaJson(Primary.json[1]) # "unsupportedVersion"
    BY DEF RoutingAgrees, Returned
  <2>1. Answered
    BY DEF JInv
  <2> QED BY <2>1 DEF Answered, Claimed, Owed
<1> QED BY <1>1, Invariance, Agreement, PTL

(* ---- A call that files are replaced under ------------------------------ *)

Version == Files[data.version]

(* What is said of the version that was loaded, whatever there is by now.  *)
Fitting ==
  pc \in {"layout", "extract", "parse"} =>
    Version.opens /\ ~(Version.size > MaxBytes(bundled))
Recognized ==
  /\ pc = "extract" => bundled
  /\ pc = "parse" =>
       IF bundled THEN FilesNamed(Version, <<>>, kMetaEntryName) # {} ELSE Version.brace
Understood ==
  pc \in Decoding =>
    /\ HasMetadata(Version, <<>>) /\ meta = MetaDocument(Root(Version, <<>>))
    /\ meta.gaussianCount \in Nat /\ meta.paletteCount \in Nat
PlanesWhole ==
  pc \in Decoding =>
    \A n \in DOMAIN planes :
      /\ IsPlane(planes[n])
      /\ bundled => planes[n] \in Images(Version, <<>>, meta.files[n])
BytesWhole ==
  pc = "decode" /\ bundled =>
    \E f \in FilesNamed(Version, <<>>, PlaneName) : f.image = bytes.image

(* Every companion taken is the whole of a file that lay there, and the    *)
(* source is as large as they are together.                                *)
IsOrigin(x, name, image) ==
  /\ <<name, x>> \in seenBeside /\ Files[x].opens
  /\ Files[x].size <= kMaxPlaneBytes /\ Files[x].image = image
Sizes(origins) == [n \in 1 .. 7 |-> Files[origins[n]].size]
Taken == IF pc = "decode" THEN Len(planes) + 1 ELSE Len(planes)
Supplied(origins) ==
  /\ \A n \in DOMAIN planes : IsOrigin(origins[n], meta.files[n], <<planes[n]>>)
  /\ pc = "decode" => IsOrigin(origins[Len(planes) + 1], PlaneName, bytes.image)
  /\ sourceBytes = Version.size + Total(Sizes(origins), Taken)
Accounted ==
  pc \in Decoding =>
    IF bundled THEN sourceBytes = Version.size
    ELSE \E origins \in [1 .. 7 -> DOMAIN Files] : Supplied(origins)

KInv == /\ Fitting /\ Recognized /\ Understood /\ PlanesWhole /\ BytesWhole
        /\ Accounted /\ LargeEnough /\ DocumentIsOneContainer

(* The document of a call and what it is to be: a container.               *)
Delivers(v, companions) ==
  /\ v.zip = bundled /\ IsContainer(v, companions)
  /\ meta = MetaDocument(Root(v, companions))
  /\ \A n \in DOMAIN meta.files :
       planes[n] \in Images(v, companions, meta.files[n])
  /\ sourceBytes = v.size + IF bundled THEN 0
       ELSE Total([n \in DOMAIN meta.files |->
                     Files[companions[meta.files[n]]].size], Len(planes))
OneContainer ==
  \E v \in {Files[x] : x \in seen},
     companions \in IF bundled THEN {<<>>} ELSE Origins : Delivers(v, companions)

LEMMA IsOneContainer ==
  /\ DocumentIsOneContainer <=> (Returned("Read") /\ result = "true" => OneContainer)
  /\ DocumentIsOneContainer' <=> (Returned("Read") /\ result = "true" => OneContainer)'
BY Zenon DEF DocumentIsOneContainer, OneContainer, Delivers

(* Where nothing is loaded, and where no document is handed out.           *)
LEMMA NothingLoaded ==
  ASSUME pc' \in Before \cup {"gate"}
  PROVE  KInv'
BY DEF KInv, Fitting, Recognized, Understood, PlanesWhole, BytesWhole, Accounted,
       LargeEnough, DocumentIsOneContainer, Returned, Before, Decoding

LEMMA NothingDelivered ==
  ASSUME pc' = "return", result' # "true" \/ operation' # "Read"
  PROVE  KInv'
BY DEF KInv, Fitting, Recognized, Understood, PlanesWhole, BytesWhole, Accounted,
       LargeEnough, DocumentIsOneContainer, Returned, Decoding

(* A file that is replaced takes nothing from what was there.              *)
LEMMA ReplacedUnder ==
  ASSUME KInv, Quiet, seen \subseteq seen', seenBeside \subseteq seenBeside'
  PROVE  KInv'
<1>1. UNCHANGED <<operation, pc, result, error, bundled, data, bytes, meta, planes,
                  sourceBytes, fault>>
  BY DEF Quiet, document
<1>2. UNCHANGED <<Version, PlaneName, Taken>>
  BY <1>1 DEF Version, PlaneName, Taken
<1>3. Fitting' /\ Recognized' /\ Understood' /\ PlanesWhole' /\ BytesWhole'
  <2>1. Fitting' = Fitting /\ Recognized' = Recognized /\ BytesWhole' = BytesWhole
    BY <1>1, <1>2 DEF Fitting, MaxBytes, Recognized, BytesWhole
  <2>2. Understood' = Understood /\ PlanesWhole' = PlanesWhole
    BY <1>1, <1>2 DEF Understood, PlanesWhole
  <2> QED BY <2>1, <2>2 DEF KInv
<1>4. LargeEnough'
  BY <1>1 DEF KInv, LargeEnough, Covers
<1>5. \A x, name, image : IsOrigin(x, name, image) => IsOrigin(x, name, image)'
  BY DEF IsOrigin
<1>6. \A origins : Supplied(origins) => Supplied(origins)'
  BY <1>1, <1>2, <1>5 DEF Supplied
<1>7. Accounted'
  BY <1>1, <1>2, <1>6 DEF KInv, Accounted
<1>8. OneContainer => OneContainer'
  <2>1. Laid \subseteq Laid'
    BY <1>1 DEF Laid
  <2>2. Origins \subseteq Origins'
    BY <1>1, <2>1 DEF Origins
  <2>3. {Files[x] : x \in seen} \subseteq {Files[x] : x \in seen'}
    OBVIOUS
  <2> QED BY <1>1, <2>2, <2>3 DEF OneContainer, Delivers
<1>9. DocumentIsOneContainer'
  BY <1>1, <1>8, IsOneContainer DEF KInv, Returned
<1> QED BY <1>3, <1>4, <1>7, <1>9 DEF KInv

LEMMA EditsUnder == IInv /\ KInv /\ (EditFile \/ EditCompanion) => KInv'
BY ReplacedUnder DEF EditFile, EditCompanion

(* The layout that is open.                                                *)
LEMMA OpenVersion ==
  ASSUME IInv, pc \in {"layout", "extract", "parse"} \cup Decoding
  PROVE  /\ data.version \in DOMAIN Files /\ data.version \in seen
         /\ IsFile(Version) /\ Version.size \in Nat
         /\ pc # "layout" =>
              /\ Version.zip = bundled
              /\ bundled => IsArchive(Version)
              /\ ~bundled => Version.archive = Nothing
<1>1. data.version \in DOMAIN Files /\ data.version \in seen
  BY DEF IInv, DataLoaded, Before, Decoding
<1>2. IsFile(Version) /\ Version.size \in Nat
  BY <1>1, FileFacts DEF Version
<1>3. pc # "layout" => /\ Version.zip = bundled
                       /\ bundled => ArchiveProblem(Version) = NoProblem
                       /\ ~bundled => Version.archive = Nothing
  BY DEF IInv, Opened, Version
<1> QED BY <1>1, <1>2, <1>3, ArchiveIsChecked

LEMMA LoadContainerUnder == IInv /\ KInv /\ LoadContainer => KInv'
<1> SUFFICES ASSUME IInv, KInv, LoadContainer PROVE KInv'
  OBVIOUS
<1> DEFINE limit == MaxBytes(bundled)
<1>1. CASE pc' = "return" /\ result' = "false"
  BY <1>1, NothingDelivered
<1>2. CASE ~(pc' = "return" /\ result' = "false")
  <2>1. /\ LoadPrimary(limit) = NoProblem /\ data' = Loaded(limit) /\ pc' = "layout"
        /\ Check(Primary.size > limit, "importLimitExceeded") = NoProblem
        /\ UNCHANGED bundled
    BY <1>2 DEF LoadContainer, FailOr, Fail, Continue
  <2>2. Primary.opens /\ ~(Primary.size > limit)
    <3>1. Check(~Primary.opens, "unreadableFile") = NoProblem
      BY <2>1, TwoPass DEF LoadPrimary
    <3> QED BY <2>1, <3>1, Passed DEF NoProblem
  <2>3. Version' = Primary
    BY <2>1 DEF Version, Loaded, Primary
  <2>4. Fitting'
    BY <2>1, <2>2, <2>3 DEF Fitting, MaxBytes
  <2> QED BY <2>1, <2>4 DEF KInv, Recognized, Understood, PlanesWhole, BytesWhole,
             Accounted, LargeEnough, DocumentIsOneContainer, Returned, Decoding
<1> QED BY <1>1, <1>2

(* From one step to the next before anything is parsed.                    *)
LEMMA StillFitting ==
  ASSUME KInv, UNCHANGED <<bundled, data>>, pc \in {"layout", "extract"},
         pc' \in {"extract", "parse"}, Recognized'
  PROVE  KInv'
<1>1. Version' = Version
  BY DEF Version
<1>2. Fitting'
  BY <1>1 DEF KInv, Fitting, MaxBytes
<1> QED BY <1>2 DEF KInv, Understood, PlanesWhole, BytesWhole, Accounted, LargeEnough,
           DocumentIsOneContainer, Returned, Decoding

LEMMA OpenLayoutUnder == IInv /\ KInv /\ OpenLayout => KInv'
<1> SUFFICES ASSUME IInv, KInv, OpenLayout PROVE KInv'
  OBVIOUS
<1>1. pc = "layout" /\ UNCHANGED <<bundled, data>>
  BY DEF OpenLayout
<1>2. CASE pc' = "return" /\ result' = "false"
  BY <1>2, NothingDelivered
<1>3. CASE ~(pc' = "return" /\ result' = "false")
  <2>1. /\ bundled => pc' = "extract"
        /\ ~bundled => Files[data.version].brace /\ pc' = "parse"
    BY <1>3 DEF OpenLayout, FailOr, Fail, Continue, Check, NoProblem
  <2>2. Recognized'
    BY <1>1, <2>1 DEF Recognized, Version
  <2> QED BY <1>1, <2>1, <2>2, StillFitting
<1> QED BY <1>2, <1>3

LEMMA ExtractMetadataUnder == IInv /\ KInv /\ ExtractMetadata => KInv'
<1> SUFFICES ASSUME IInv, KInv, ExtractMetadata PROVE KInv'
  OBVIOUS
<1> DEFINE problem == ExtractProblem(kMetaEntryName, "notSogContainer")
<1>1. pc = "extract" /\ UNCHANGED <<bundled, data>> /\ FailOr(problem, "parse")
  BY DEF ExtractMetadata
<1>2. "notSogContainer" # NoProblem /\ "notSogContainer" \in Reasons
  BY DEF NoProblem, Reasons
<1>3. IsFile(Files[data.version]) /\ (bundled => IsArchive(Files[data.version]))
      /\ (~bundled => Files[data.version].archive = Nothing)
  BY <1>1, OpenVersion DEF Version
<1>4. CASE problem # NoProblem
  <2>1. pc' = "return" /\ result' = "false"
    BY <1>1, <1>4 DEF FailOr, Fail
  <2> QED BY <2>1, NothingDelivered
<1>5. CASE problem = NoProblem
  <2>1. pc' = "parse"
    BY <1>1, <1>5 DEF FailOr, Continue
  <2>2. bundled
    BY <1>1 DEF KInv, Recognized
  <2>3. FilesNamed(Version, <<>>, kMetaEntryName) # {}
    BY <1>2, <1>3, <1>5, <2>2, ExtractIsChecked DEF Version
  <2>4. Version' = Version
    BY <1>1 DEF Version
  <2>5. Recognized'
    BY <1>1, <2>2, <2>3, <2>4 DEF Recognized
  <2> QED BY <1>1, <2>1, <2>5, StillFitting
<1> QED BY <1>4, <1>5

(* The document of the version loaded, whatever lies beside it.            *)
LEMMA MetadataAlone ==
  ASSUME NEW v, NEW companions, HasMetadata(v, <<>>), ~v.zip
  PROVE  /\ HasMetadata(v, companions) /\ Root(v, companions) = Root(v, <<>>)
         /\ Root(v, <<>>) = v.json[1] /\ IsSchema(v.json[1])
<1>1. Documents(v, <<>>) = {v} /\ Documents(v, companions) = {v}
  BY DEF Documents
<1> QED BY <1>1 DEF HasMetadata, Root

LEMMA ParsedUnder ==
  ASSUME IInv, KInv, pc = "parse", DocumentProblem[data.version] = NoProblem
  PROVE  LET m == MetaDocument(Root(Version, <<>>)) IN
         /\ HasMetadata(Version, <<>>)
         /\ DocumentOf[data.version] = m
         /\ m.gaussianCount \in Nat /\ m.paletteCount \in Nat
<1> DEFINE v == Files[data.version]
           f == MetaFile(v)
<1>1. /\ data.version \in DOMAIN Files /\ IsFile(v) /\ v.size \in Nat /\ v = Version
      /\ v.zip = bundled /\ (bundled => IsArchive(v)) /\ (~bundled => v.archive = Nothing)
  BY OpenVersion DEF Version
<1>2. /\ v.opens /\ ~(v.size > MaxBytes(bundled))
      /\ v.zip => FilesNamed(v, <<>>, kMetaEntryName) # {}
      /\ ~v.zip => v.brace
  BY <1>1 DEF KInv, Fitting, Recognized
<1>3. /\ data.version \in DOMAIN DocumentProblem /\ IsContent(f)
      /\ Documents(v, <<>>) = IF v.zip /\ f.size > kMaxMetadataBytes THEN {} ELSE {f}
      /\ ~(f.size > kMaxMetadataBytes) /\ f.json # Nothing /\ IsSchema(f.json[1])
  BY <1>1, <1>2, DocumentIsChecked
<1>4. Documents(v, <<>>) = {f}
  BY <1>3
<1>5. DocumentOf[data.version] = MetaDocument(f.json[1])
  BY <1>3 DEF DocumentOf
<1> HIDE DEF f
<1>6. HasMetadata(v, <<>>)
  <2>1. /\ v.zip => ~(v.size > kMaxZipArchiveBytes)
        /\ ~v.zip => ~(v.size > kMaxMetadataBytes)
    BY <1>1, <1>2 DEF MaxBytes
  <2>2. /\ v.zip => v.size <= kMaxZipArchiveBytes
        /\ ~v.zip => v.size <= kMaxMetadataBytes
    BY <1>1, <2>1, LimitsAssumption
  <2> HIDE DEF v
  <2> QED BY <1>1, <1>2, <1>3, <1>4, <2>2 DEF HasMetadata
<1>7. LET m == MetaDocument(Root(Files[data.version], <<>>)) IN
      /\ Root(Files[data.version], <<>>) = f.json[1]
      /\ m.gaussianCount \in Nat /\ m.paletteCount \in Nat
  BY <1>1, <1>3, <1>4, MetadataFacts
<1> QED BY <1>1, <1>5, <1>6, <1>7

LEMMA ParseDocumentUnder == IInv /\ KInv /\ ParseDocument => KInv'
<1> SUFFICES ASSUME IInv, KInv, ParseDocument PROVE KInv'
  OBVIOUS
<1>1. /\ pc = "parse" /\ operation \in {"ReadMetadata", "Read"} /\ planes = <<>>
      /\ UNCHANGED <<operation, bundled, data, planes>>
  BY DEF ParseDocument, IInv, Directed, Loading, Counted
<1>2. CASE pc' = "return" /\ result' = "false"
  BY <1>2, NothingDelivered
<1>3. CASE operation = "ReadMetadata" /\ pc' = "return"
  BY <1>1, <1>3, NothingDelivered
<1>4. CASE ~(pc' = "return" /\ result' = "false")
           /\ ~(operation = "ReadMetadata" /\ pc' = "return")
  <2>1. /\ DocumentProblem[data.version] = NoProblem /\ meta' = DocumentOf[data.version]
        /\ pc' = "plane" /\ sourceBytes' = Files[data.version].size
    BY <1>1, <1>4 DEF ParseDocument, Fail, Succeed, Continue
  <2>2. Version' = Version
    BY <1>1 DEF Version
  <2>3. Understood'
    BY <1>1, <2>1, <2>2, ParsedUnder DEF Understood
  <2>4. DOMAIN planes' = {} /\ Len(planes') = 0
    BY <1>1
  <2>5. PlanesWhole' /\ LargeEnough'
    BY <2>4 DEF PlanesWhole, LargeEnough
  <2>6. Accounted'
    <3>1. data.version \in DOMAIN Files /\ Version.size \in Nat
      BY <1>1, OpenVersion
    <3>2. PICK origins \in [1 .. 7 -> DOMAIN Files] : TRUE
      <4>1. [n \in 1 .. 7 |-> data.version] \in [1 .. 7 -> DOMAIN Files]
        BY <3>1
      <4> QED BY <4>1
    <3>3. Total(Sizes(origins), 0) = 0
      BY TotalGrows
    <3>4. Taken' = 0
      BY <2>1, <2>4 DEF Taken
    <3>5. sourceBytes' = Version.size + Total(Sizes(origins), 0)
      BY <2>1, <3>1, <3>3 DEF Version
    <3>6. Supplied(origins)'
      <4>1. sourceBytes' = Version'.size + Total(Sizes(origins), Taken')
        BY <2>2, <3>4, <3>5
      <4> QED BY <2>1, <2>4, <4>1 DEF Supplied, Sizes
    <3> QED BY <2>1, <2>2, <3>2, <3>6 DEF Accounted, Version
  <2> QED BY <2>1, <2>3, <2>5, <2>6 DEF KInv, Fitting, Recognized, BytesWhole,
             DocumentIsOneContainer, Returned
<1> QED BY <1>2, <1>3, <1>4

(* A step that leaves the planes decoded so far as they are.               *)
LEMMA PlanesUnder ==
  ASSUME IInv, KInv, UNCHANGED <<world, bundled, data, meta, planes>>,
         pc \in Decoding, pc' \in Decoding
  PROVE  /\ Fitting' /\ Recognized' /\ Understood' /\ PlanesWhole'
         /\ DocumentIsOneContainer'
         /\ pc # "check" => LargeEnough'
         /\ Version' = Version
<1>1. Version' = Version
  BY DEF Version
<1>2. Fitting' /\ Recognized' /\ DocumentIsOneContainer'
  BY DEF Fitting, Recognized, DocumentIsOneContainer, Returned, Decoding
<1>3. Understood' /\ PlanesWhole'
  BY <1>1 DEF KInv, Understood, PlanesWhole
<1>4. pc # "check" => LargeEnough'
  BY DEF KInv, LargeEnough, Covers
<1> QED BY <1>1, <1>2, <1>3, <1>4

(* How many planes there are by now.                                       *)
LEMMA HowMany ==
  ASSUME IInv, pc \in Decoding
  PROVE  /\ Len(planes) \in Nat /\ DOMAIN planes = 1 .. Len(planes)
         /\ pc \in {"plane", "companion", "decode"} => Len(planes) + 1 \in 1 .. 7
<1>1. planes \in Seq(Image)
  BY DEF IInv, Types
<1>2. Len(planes) \in Nat /\ DOMAIN planes = 1 .. Len(planes)
  BY <1>1
<1>3. pc \in {"plane", "companion", "decode"} =>
        Len(planes) \in 0 .. 4 \/ Len(planes) \in {5, 6}
  BY DEF IInv, Counted
<1>4. \A k \in Nat : k \in 0 .. 4 \/ k \in {5, 6} => k + 1 \in 1 .. 7
  OBVIOUS
<1> QED BY <1>2, <1>3, <1>4, Zenon

LEMMA ExtractPlaneUnder == IInv /\ KInv /\ ExtractPlane => KInv'
<1> SUFFICES ASSUME IInv, KInv, ExtractPlane PROVE KInv'
  OBVIOUS
<1> DEFINE problem == ExtractProblem(PlaneName, "missingPlane")
           f == Entry(Archive, PlaneName).file
<1>0. /\ pc = "plane" /\ bundled /\ FailOr(problem, "decode") /\ pc \in Decoding
      /\ UNCHANGED <<world, operation, bundled, data, meta, planes, sourceBytes>>
  BY DEF ExtractPlane, document, Decoding
<1>1. "missingPlane" # NoProblem /\ "missingPlane" \in Reasons
  BY DEF NoProblem, Reasons
<1>2. IsFile(Files[data.version]) /\ IsArchive(Files[data.version])
  BY <1>0, OpenVersion DEF Version
<1>3. CASE problem # NoProblem
  <2>1. pc' = "return" /\ result' = "false"
    BY <1>0, <1>3 DEF FailOr, Fail
  <2> QED BY <2>1, NothingDelivered
<1>4. CASE problem = NoProblem
  <2>1. pc' = "decode" /\ pc' \in Decoding
    BY <1>0, <1>4 DEF FailOr, Continue, Decoding
  <2>2. /\ FilesNamed(Version, <<>>, PlaneName) = {f}
        /\ Has(PlaneName)
    BY <1>1, <1>2, <1>4, ExtractIsChecked DEF Version
  <2>3. bytes'.image = f.image
    BY <2>2 DEF ExtractPlane
  <2> HIDE DEF f, problem
  <2>4. PlaneName' = PlaneName
    BY <1>0 DEF PlaneName
  <2>5. Version' = Version
    BY <1>0 DEF Version
  <2>6. BytesWhole'
    BY <2>2, <2>3, <2>4, <2>5 DEF BytesWhole
  <2>7. Accounted'
    BY <1>0, <2>5 DEF KInv, Accounted
  <2> QED BY <1>0, <2>1, <2>6, <2>7, PlanesUnder DEF KInv
<1> QED BY <1>3, <1>4

LEMMA ProbeCompanionUnder == IInv /\ KInv /\ ProbeCompanion => KInv'
<1> SUFFICES ASSUME IInv, KInv, ProbeCompanion PROVE KInv'
  OBVIOUS
<1>0. /\ pc = "plane" /\ ~bundled /\ pc \in Decoding
      /\ UNCHANGED <<world, operation, bundled, data, meta, planes, sourceBytes>>
  BY DEF ProbeCompanion, document, Decoding
<1>1. CASE pc' = "return" /\ result' = "false"
  BY <1>1, NothingDelivered
<1>2. CASE ~(pc' = "return" /\ result' = "false")
  <2>1. pc' = "companion" /\ pc' \in Decoding
    BY <1>2 DEF ProbeCompanion, FailOr, Fail, Continue, Decoding
  <2>2. BytesWhole'
    BY <2>1 DEF BytesWhole
  <2>3. Version' = Version /\ Taken' = Taken /\ seenBeside' = seenBeside
    BY <1>0, <2>1 DEF Version, Taken, world
  <2>4. \A origins : Supplied(origins) => Supplied(origins)'
    BY <1>0, <2>1, <2>3 DEF Supplied, IsOrigin
  <2>5. Accounted'
    BY <1>0, <2>4 DEF KInv, Accounted
  <2> QED BY <1>0, <2>1, <2>2, <2>5, PlanesUnder DEF KInv
<1> QED BY <1>1, <1>2

(* One companion more.                                                     *)
LEMMA CompanionUnder ==
  ASSUME IInv, KInv, pc \in {"plane", "companion"}, ~bundled, TakeCompanion,
         ~IsMissing, ~(Companion.size > kMaxPlaneBytes),
         UNCHANGED <<world, operation, bundled, data, meta, planes>>
  PROVE  KInv'
<1> DEFINE last == Len(planes) + 1
           index == beside[PlaneName]
<1>0. pc \in Decoding /\ pc' = "decode" /\ pc' \in Decoding /\ pc # "check"
  BY DEF Decoding, TakeCompanion, Continue
<1>1. /\ bytes'.image = Companion.image
      /\ sourceBytes' = sourceBytes + Companion.size
  BY DEF TakeCompanion
<1>2. /\ PlaneName \in DOMAIN beside /\ index \in DOMAIN Files
      /\ Companion = Files[index] /\ Companion.opens /\ <<PlaneName, index>> \in seenBeside
  <2>1. PlaneName \in DOMAIN beside /\ Companion = Files[index] /\ Companion.opens
    BY DEF IsMissing, Companion
  <2>2. beside \in [DOMAIN beside -> DOMAIN Files] /\ Beside \subseteq seenBeside
    BY DEF IInv, Types, Watched
  <2> QED BY <2>1, <2>2 DEF Beside
<1>3. Companion.size \in Nat /\ Companion.size <= kMaxPlaneBytes
  <2>1. Companion.size \in Nat
    BY <1>2, FileFacts
  <2> QED BY <2>1, LimitsAssumption
<1>4. IsOrigin(index, PlaneName, bytes'.image)
  BY <1>1, <1>2, <1>3 DEF IsOrigin
<1>5. PICK o \in [1 .. 7 -> DOMAIN Files] : Supplied(o)
  BY <1>0 DEF KInv, Accounted
<1>6. /\ Len(planes) \in Nat /\ DOMAIN planes = 1 .. Len(planes) /\ last \in 1 .. 7
  BY <1>0, HowMany
<1>7. PICK x \in DOMAIN Files : x = index
  BY <1>2
<1>8. PICK k \in Nat : k = Len(planes) /\ k + 1 \in 1 .. 7
  BY <1>6
<1> DEFINE origins == [o EXCEPT ![k + 1] = x]
<1>9. /\ origins \in [1 .. 7 -> DOMAIN Files] /\ origins[k + 1] = x
      /\ \A n \in 1 .. k : n \in 1 .. 7 /\ origins[n] = o[n]
  BY <1>8
<1> HIDE DEF origins, last, index
<1>10. Total(Sizes(origins), k + 1) = Total(Sizes(o), k) + Companion.size
  <2>1. Sizes(origins)[k + 1] = Companion.size
    BY <1>2, <1>7, <1>8, <1>9 DEF Sizes
  <2>2. \A n \in 1 .. k : Sizes(origins)[n] = Sizes(o)[n]
    BY <1>9 DEF Sizes
  <2>3. Total(Sizes(origins), k) = Total(Sizes(o), k)
    BY <2>2, TotalsAgree
  <2> QED BY <2>1, <2>3, TotalGrows
<1>11. Total(Sizes(o), k) \in Nat
  <2>1. \A n \in 1 .. k : Sizes(o)[n] \in Nat
    <3> TAKE n \in 1 .. k
    <3>1. n \in 1 .. 7 /\ o[n] \in DOMAIN Files
      BY <1>9
    <3> QED BY <3>1, FileFacts DEF Sizes
  <2> QED BY <2>1, TotalIsNat
<1>12. Version' = Version /\ PlaneName' = PlaneName /\ Version.size \in Nat
  BY <1>0, OpenVersion DEF Version, PlaneName
<1>13. sourceBytes = Version.size + Total(Sizes(o), k)
  <2>1. Taken = k
    BY <1>8 DEF Taken
  <2> QED BY <1>5, <2>1 DEF Supplied
<1>14. sourceBytes' = Version'.size + Total(Sizes(origins), k + 1)
  BY <1>1, <1>3, <1>10, <1>11, <1>12, <1>13
<1>15. \A n \in DOMAIN planes : IsOrigin(origins[n], meta.files[n], <<planes[n]>>)
  BY <1>5, <1>6, <1>8, <1>9 DEF Supplied
<1>16. IsOrigin(origins[k + 1], PlaneName, bytes'.image)
  BY <1>4, <1>7, <1>9
<1>17. PICK origin \in [1 .. 7 -> DOMAIN Files] : origin = origins
  BY <1>9
<1>18. Supplied(origin)'
  <2>1. Taken' = k + 1 /\ Len(planes)' = k
    BY <1>0, <1>8 DEF Taken
  <2>2. \A n \in DOMAIN planes' : IsOrigin(origin[n], meta.files[n], <<planes[n]>>)'
    BY <1>15, <1>17 DEF IsOrigin, world
  <2>3. IsOrigin(origin[Len(planes) + 1], PlaneName, bytes.image)'
    BY <1>12, <1>16, <1>17, <2>1 DEF IsOrigin, world
  <2>4. (sourceBytes = Version.size + Total(Sizes(origin), Taken))'
    BY <1>14, <1>17, <2>1 DEF Sizes
  <2> QED BY <2>2, <2>3, <2>4 DEF Supplied
<1>19. Accounted'
  BY <1>0, <1>18 DEF Accounted
<1>20. BytesWhole'
  BY DEF BytesWhole
<1> QED BY <1>0, <1>19, <1>20, PlanesUnder DEF KInv

LEMMA LoadCompanionUnder == IInv /\ KInv /\ (LoadCompanion \/ AskLoader) => KInv'
<1> SUFFICES ASSUME IInv, KInv, LoadCompanion \/ AskLoader PROVE KInv'
  OBVIOUS
<1>0. /\ pc \in {"plane", "companion"} /\ ~bundled
      /\ UNCHANGED <<world, operation, bundled, data, meta, planes>>
  BY DEF LoadCompanion, AskLoader, IInv, Counted
<1>1. CASE pc' = "return" /\ result' = "false"
  BY <1>1, NothingDelivered
<1>2. CASE ~(pc' = "return" /\ result' = "false")
  <2>1. ~IsMissing /\ ~(Companion.size > kMaxPlaneBytes) /\ TakeCompanion
    BY <1>2 DEF LoadCompanion, AskLoader, Fail
  <2> QED BY <1>0, <2>1, CompanionUnder
<1> QED BY <1>1, <1>2

LEMMA DecodePlaneUnder == IInv /\ KInv /\ DecodePlane => KInv'
<1> SUFFICES ASSUME IInv, KInv, DecodePlane PROVE KInv'
  OBVIOUS
<1>0. /\ pc = "decode" /\ pc \in Decoding /\ BytesBounded
      /\ UNCHANGED <<world, operation, bundled, data, meta, bytes, sourceBytes>>
  BY DEF DecodePlane, IInv, BytesLoaded, Decoding
<1>1. CASE PlaneProblem # NoProblem
  <2>1. pc' = "return" /\ result' = "false"
    BY <1>1 DEF DecodePlane, Fail
  <2> QED BY <2>1, NothingDelivered
<1>2. CASE PlaneProblem = NoProblem
  <2>1. bytes.image # Nothing /\ IsPlane(bytes.image[1]) /\ bytes.image = <<bytes.image[1]>>
    BY <1>0, <1>2, PlaneIsChecked
  <2>2. /\ planes' = planes \o bytes.image
        /\ pc' = CASE Len(planes) + 1 = 5 -> "check"
                   [] Len(planes) + 1 = 7 -> "palette"
                   [] OTHER -> "plane"
    BY <1>2 DEF DecodePlane, Continue
  <2>3. PICK k \in Nat : k = Len(planes)
    BY <1>0, HowMany
  <2>4. /\ DOMAIN planes = 1 .. k /\ DOMAIN planes' = 1 .. k + 1 /\ Len(planes') = k + 1
        /\ \A n \in 1 .. k : planes'[n] = planes[n]
        /\ <<planes'[k + 1]>> = bytes.image
    BY <1>0, <1>2, <2>2, <2>3, Decoded
  <2>5. planes'[k + 1] = bytes.image[1]
    <3>1. <<planes'[k + 1]>>[1] = planes'[k + 1]
      OBVIOUS
    <3> QED BY <2>4, <3>1
  <2>6. /\ pc' \in {"check", "palette", "plane"}
        /\ k + 1 = 5 => pc' = "check"
    BY <2>2, <2>3
  <2>7. pc' \in Decoding /\ pc' # "decode" /\ pc' # "return"
    BY <2>6 DEF Decoding
  <2>8. Version' = Version /\ meta' = meta
    BY <1>0 DEF Version
  <2>9. Fitting' /\ Recognized' /\ DocumentIsOneContainer' /\ BytesWhole'
    BY <2>6, <2>7 DEF Fitting, Recognized, DocumentIsOneContainer, Returned, BytesWhole
  <2>10. Understood'
    BY <1>0, <2>8 DEF KInv, Understood
  <2>11. PlaneName = meta.files[k + 1]
    BY <2>3 DEF PlaneName
  <2>12. PlanesWhole'
    <3> SUFFICES ASSUME NEW n \in 1 .. k + 1
                 PROVE  /\ IsPlane(planes'[n])
                        /\ bundled => planes'[n] \in Images(Version, <<>>, meta.files[n])
      BY <1>0, <2>4, <2>8 DEF PlanesWhole
    <3>1. CASE n \in 1 .. k
      BY <1>0, <2>4, <3>1 DEF KInv, PlanesWhole
    <3>2. CASE n = k + 1
      <4>1. ASSUME bundled PROVE planes'[n] \in Images(Version, <<>>, PlaneName)
        <5>1. PICK f \in FilesNamed(Version, <<>>, PlaneName) : f.image = bytes.image
          BY <1>0, <4>1 DEF KInv, BytesWhole
        <5>2. f.image[1] \in Images(Version, <<>>, PlaneName)
          BY <2>1, <5>1 DEF Images
        <5> QED BY <2>5, <3>2, <5>1, <5>2
      <4> QED BY <2>1, <2>5, <2>11, <3>2, <4>1
    <3> QED BY <3>1, <3>2
  <2>13. Accounted'
    <3>1. CASE bundled
      BY <1>0, <2>8, <3>1 DEF KInv, Accounted
    <3>2. CASE ~bundled
      <4>1. PICK o \in [1 .. 7 -> DOMAIN Files] : Supplied(o)
        BY <1>0, <3>2 DEF KInv, Accounted
      <4>2. \A n \in 1 .. k : IsOrigin(o[n], meta.files[n], <<planes[n]>>)
        BY <2>4, <4>1 DEF Supplied
      <4>3. IsOrigin(o[k + 1], meta.files[k + 1], bytes.image)
        BY <1>0, <2>3, <2>11, <4>1 DEF Supplied
      <4>4. \A n \in 1 .. k + 1 : IsOrigin(o[n], meta.files[n], <<planes'[n]>>)
        BY <2>4, <4>2, <4>3
      <4>5. (\A n \in DOMAIN planes : IsOrigin(o[n], meta.files[n], <<planes[n]>>))'
        BY <1>0, <2>4, <4>4 DEF IsOrigin, world
      <4>6. Taken' = k + 1 /\ Taken = k + 1
        BY <1>0, <2>3, <2>4, <2>7 DEF Taken
      <4>7. (sourceBytes = Version.size + Total(Sizes(o), Taken))'
        BY <1>0, <2>8, <4>1, <4>6 DEF Supplied, Sizes
      <4>8. Supplied(o)'
        BY <2>7, <4>5, <4>7 DEF Supplied
      <4> QED BY <1>0, <3>2, <4>8 DEF Accounted
    <3> QED BY <3>1, <3>2
  <2>14. LargeEnough'
    <3> SUFFICES ASSUME pc' # "check", Len(planes') >= 5
                 PROVE  \A n \in 1 .. 5 : Covers(planes[n]) /\ planes'[n] = planes[n]
      BY <1>0 DEF LargeEnough, Covers
    <3>1. k >= 5
      BY <2>4, <2>6
    <3>2. \A n \in 1 .. 5 : Covers(planes[n])
      BY <1>0, <2>3, <3>1 DEF KInv, LargeEnough
    <3>3. \A n \in 1 .. 5 : n \in 1 .. k
      BY <3>1
    <3> QED BY <2>4, <3>2, <3>3
  <2> QED BY <2>9, <2>10, <2>12, <2>13, <2>14 DEF KInv
<1> QED BY <1>1, <1>2

(* The companions that were taken, one for each name.                      *)
Pairs(files, o) == {<<files[n], o[n]>> : n \in DOMAIN files}
Chosen(files, o) ==
  [name \in Range(files) |-> (CHOOSE s \in Pairs(files, o) : s[1] = name)[2]]

LEMMA ChosenByName ==
  ASSUME NEW files, IsInjective(files), NEW o
  PROVE  /\ {s[1] : s \in Pairs(files, o)} = Range(files)
         /\ DOMAIN Chosen(files, o) = Range(files)
         /\ \A n \in DOMAIN files :
              files[n] \in Range(files) /\ Chosen(files, o)[files[n]] = o[n]
<1>1. \A n \in DOMAIN files :
        <<files[n], o[n]>> \in Pairs(files, o) /\ <<files[n], o[n]>>[1] = files[n]
  BY DEF Pairs
<1>2. \A s \in Pairs(files, o) : \E n \in DOMAIN files : s = <<files[n], o[n]>>
  BY DEF Pairs
<1>3. Range(files) = {files[n] : n \in DOMAIN files}
  BY DEF Range
<1>4. {s[1] : s \in Pairs(files, o)} = Range(files)
  <2>1. ASSUME NEW s \in Pairs(files, o) PROVE s[1] \in Range(files)
    <3>1. PICK n \in DOMAIN files : s = <<files[n], o[n]>>
      BY <1>2
    <3>2. s[1] = files[n]
      BY <3>1
    <3> QED BY <1>3, <3>2
  <2>2. ASSUME NEW name \in Range(files)
        PROVE  name \in {s[1] : s \in Pairs(files, o)}
    <3>1. PICK n \in DOMAIN files : name = files[n]
      BY <1>3
    <3>2. PICK s \in Pairs(files, o) : s[1] = name
      BY <1>1, <3>1
    <3> QED BY <3>2
  <2> QED BY <2>1, <2>2
<1>5. DOMAIN Chosen(files, o) = Range(files)
  BY DEF Chosen
<1>6. ASSUME NEW n \in DOMAIN files
      PROVE  files[n] \in Range(files) /\ Chosen(files, o)[files[n]] = o[n]
  <2> DEFINE s == CHOOSE x \in Pairs(files, o) : x[1] = files[n]
  <2>1. s \in Pairs(files, o) /\ s[1] = files[n]
    BY <1>1
  <2>2. files[n] \in Range(files) /\ Chosen(files, o)[files[n]] = s[2]
    BY <1>3 DEF Chosen
  <2> HIDE DEF s
  <2>3. PICK m \in DOMAIN files : s = <<files[m], o[m]>>
    BY <1>2, <2>1
  <2>4. m = n
    BY <2>1, <2>3 DEF IsInjective
  <2> QED BY <2>2, <2>3, <2>4
<1> QED BY <1>4, <1>5, <1>6

(* A document whose planes are all there, and large enough.                *)
LEMMA ContainerLoaded ==
  ASSUME NEW v, NEW companions, HasMetadata(v, companions),
         meta = MetaDocument(Root(v, companions)),
         \A n \in DOMAIN meta.files :
           /\ planes[n] \in Images(v, companions, meta.files[n]) /\ IsPlane(planes[n])
           /\ IF n = 6 THEN CoversPalette(planes[n]) ELSE Covers(planes[n])
  PROVE  IsContainer(v, companions)
<1>1. IsContainer(v, companions)
        <=> \A n \in DOMAIN meta.files :
              \E image \in Images(v, companions, meta.files[n]) : Enough(n, image)
  BY DEF IsContainer, Enough, Covers, CoversPalette
<1>2. \A n \in DOMAIN meta.files : Enough(n, planes[n])
  BY DEF Enough
<1> QED BY <1>1, <1>2

LEMMA DeliveredUnder ==
  ASSUME IInv, KInv, pc \in {"check", "palette"}, pc' = "return",
         UNCHANGED <<world, bundled, data, meta, planes, sourceBytes>>,
         DOMAIN planes = DOMAIN meta.files,
         \A n \in DOMAIN planes : IF n = 6 THEN CoversPalette(planes[n]) ELSE Covers(planes[n])
  PROVE  KInv'
<1> DEFINE v == Version
<1>0. pc \in Decoding /\ pc # "decode"
  BY DEF Decoding
<1>1. /\ v \in {Files[x] : x \in seen} /\ v.zip = bundled /\ v.size \in Nat
      /\ DOMAIN planes = 1 .. Len(planes) /\ Len(planes) \in Nat
  BY <1>0, OpenVersion, HowMany DEF Version
<1>2. /\ HasMetadata(v, <<>>) /\ meta = MetaDocument(Root(v, <<>>))
      /\ \A n \in DOMAIN planes :
           /\ IsPlane(planes[n])
           /\ bundled => planes[n] \in Images(v, <<>>, meta.files[n])
  BY <1>0 DEF KInv, Understood, PlanesWhole
<1> HIDE DEF v
<1>3. ASSUME bundled PROVE OneContainer
  <2>1. IsContainer(v, <<>>)
    BY <1>2, <1>3, ContainerLoaded
  <2>2. sourceBytes = v.size
    BY <1>0, <1>3 DEF KInv, Accounted, v
  <2>3. sourceBytes = v.size + 0
    BY <1>1, <2>2
  <2> QED BY <1>1, <1>2, <1>3, <2>1, <2>3 DEF OneContainer, Delivers
<1>4. ASSUME ~bundled PROVE OneContainer
  <2>1. PICK o \in [1 .. 7 -> DOMAIN Files] : Supplied(o)
    BY <1>0, <1>4 DEF KInv, Accounted
  <2> DEFINE files == meta.files
             companions == Chosen(files, o)
  <2>2. ~v.zip
    BY <1>1, <1>4
  <2>3. /\ HasMetadata(v, companions) /\ Root(v, companions) = Root(v, <<>>)
        /\ Root(v, <<>>) = v.json[1] /\ IsSchema(v.json[1])
    <3> HIDE DEF companions
    <3> QED BY <1>2, <2>2, MetadataAlone
  <2>4. IsInjective(files)
    <3>1. files = PlaneNames(v.json[1])
      BY <1>2, <2>3 DEF MetaDocument
    <3> QED BY <2>3, <3>1, SchemaForm
  <2>5. \A n \in DOMAIN files : IsOrigin(o[n], files[n], <<planes[n]>>)
    BY <2>1 DEF Supplied
  <2>6. /\ DOMAIN companions = Range(files)
        /\ \A n \in DOMAIN files : files[n] \in Range(files) /\ companions[files[n]] = o[n]
    <3> HIDE DEF files
    <3> QED BY <2>4, ChosenByName
  <2>7. companions \in Origins
    <3>1. Pairs(files, o) \subseteq Laid
      <4> SUFFICES ASSUME NEW n \in DOMAIN files PROVE <<files[n], o[n]>> \in Laid
        BY DEF Pairs
      <4>1. /\ <<files[n], o[n]>> \in seenBeside
            /\ Files[o[n]].image = <<planes[n]>>
        BY <2>5 DEF IsOrigin
      <4> QED BY <4>1 DEF Laid
    <3>2. {s[1] : s \in Pairs(files, o)} = Range(files)
      <4> HIDE DEF files
      <4> QED BY <2>4, ChosenByName
    <3> QED BY <3>1, <3>2 DEF Origins, Chosen
  <2> HIDE DEF companions
  <2>8. \A n \in DOMAIN files : planes[n] \in Images(v, companions, files[n])
    <3> TAKE n \in DOMAIN files
    <3> DEFINE f == Files[o[n]]
    <3>1. f.opens /\ f.size <= kMaxPlaneBytes /\ f.image = <<planes[n]>>
      BY <2>5 DEF IsOrigin
    <3>2. f \in FilesNamed(v, companions, files[n])
      <4>1. files[n] \in DOMAIN companions \cap {files[n]}
            /\ f = Files[companions[files[n]]]
        BY <2>6
      <4> HIDE DEF f, files
      <4> QED BY <2>2, <3>1, <4>1 DEF FilesNamed
    <3>3. f.image # Nothing /\ f.image[1] = planes[n]
      <4>1. <<planes[n]>> # <<>> /\ <<planes[n]>>[1] = planes[n]
        OBVIOUS
      <4> HIDE DEF f
      <4> QED BY <3>1, <4>1 DEF Nothing
    <3> HIDE DEF f, files
    <3> QED BY <3>2, <3>3 DEF Images
  <2>9. IsContainer(v, companions)
    BY <1>2, <2>3, <2>8, ContainerLoaded
  <2> DEFINE sizes == [n \in DOMAIN files |-> Files[companions[files[n]]].size]
  <2>10. sourceBytes = v.size + Total(sizes, Len(planes))
    <3>1. sourceBytes = v.size + Total(Sizes(o), Len(planes))
      BY <1>0, <2>1 DEF Supplied, Taken, v
    <3>2. \A n \in 1 .. Len(planes) : sizes[n] = Sizes(o)[n]
      <4> TAKE n \in 1 .. Len(planes)
      <4>1. n \in DOMAIN files
        BY <1>1
      <4>2. sizes[n] = Files[o[n]].size
        BY <2>6, <4>1
      <4>3. Len(planes) \in {5, 7}
        BY DEF IInv, Counted
      <4>4. n \in 1 .. 7
        <5>1. \A k \in {5, 7} : \A m \in 1 .. k : m \in 1 .. 7
          OBVIOUS
        <5> QED BY <4>3, <5>1, Zenon
      <4> HIDE DEF sizes
      <4> QED BY <4>2, <4>4 DEF Sizes
    <3> HIDE DEF sizes
    <3>3. Total(sizes, Len(planes)) = Total(Sizes(o), Len(planes))
      BY <1>1, <3>2, TotalsAgree
    <3> QED BY <3>1, <3>3
  <2>11. Delivers(v, companions)
    <3>1. Delivers(v, companions)
            <=> /\ v.zip = bundled /\ IsContainer(v, companions)
                /\ meta = MetaDocument(Root(v, companions))
                /\ \A n \in DOMAIN files : planes[n] \in Images(v, companions, files[n])
                /\ sourceBytes = v.size + Total(sizes, Len(planes))
      BY <1>4 DEF Delivers
    <3> HIDE DEF files, sizes
    <3> QED BY <1>1, <1>2, <2>3, <2>8, <2>9, <2>10, <3>1
  <2> QED BY <1>1, <1>4, <2>7, <2>11 DEF OneContainer
<1>5. OneContainer
  BY <1>3, <1>4
<1>6. OneContainer'
  <2>1. UNCHANGED <<seen, seenBeside, bundled, meta, planes, sourceBytes>>
    BY DEF world
  <2>2. Origins' = Origins
    BY <2>1 DEF Origins, Laid
  <2>3. \A u, c : Delivers(u, c) => Delivers(u, c)'
    BY <2>1 DEF Delivers
  <2> QED BY <1>5, <2>1, <2>2, <2>3 DEF OneContainer
<1>7. DocumentIsOneContainer'
  BY <1>6, IsOneContainer
<1> QED BY <1>7 DEF KInv, Fitting, Recognized, Understood, PlanesWhole, BytesWhole,
       Accounted, LargeEnough, Decoding

LEMMA CheckPlanesUnder == IInv /\ KInv /\ CheckPlanes => KInv'
<1> SUFFICES ASSUME IInv, KInv, CheckPlanes PROVE KInv'
  OBVIOUS
<1> DEFINE codes == [n \in 1 .. 5 |-> PerGaussianProblem(planes[n])]
           problem == FirstFailure(codes)
<1>0. /\ pc = "check" /\ pc \in Decoding /\ Len(planes) = 5 /\ planes \in Seq(Image)
      /\ DOMAIN planes = 1 .. 5
      /\ UNCHANGED <<world, operation, bundled, data, meta, planes, sourceBytes>>
  BY DEF CheckPlanes, IInv, Types, Counted, Decoding, document
<1>1. meta.gaussianCount \in Nat
  BY <1>0 DEF KInv, Understood
<1>2. ASSUME problem = NoProblem PROVE \A n \in 1 .. 5 : Covers(planes[n])
  <2>1. DOMAIN codes = 1 .. 5 /\ \A n \in 1 .. 5 : codes[n] = PerGaussianProblem(planes[n])
    OBVIOUS
  <2> HIDE DEF codes
  <2>2. \A n \in 1 .. 5 : PerGaussianProblem(planes[n]) = NoProblem
    BY <1>2, <2>1, AllPass
  <2>3. \A n \in 1 .. 5 : planes[n] \in Image
    BY <1>0, ElementOfSeq
  <2> QED BY <1>1, <2>2, <2>3, SizeIsChecked
<1>3. \/ pc' = "return" /\ result' = "false"
      \/ problem = NoProblem /\ meta.shBands = 0 /\ pc' = "return"
      \/ problem = NoProblem /\ meta.shBands # 0 /\ pc' = "plane"
  BY DEF CheckPlanes, Fail, Succeed, Continue
<1> HIDE DEF problem
<1>4. CASE pc' = "return" /\ result' = "false"
  BY <1>4, NothingDelivered
<1>5. CASE problem = NoProblem /\ meta.shBands = 0 /\ pc' = "return"
  <2>1. DOMAIN planes = DOMAIN meta.files
    BY <1>0, <1>5, DocumentFacts DEF IInv, MetaParsed
  <2>2. \A n \in DOMAIN planes :
          IF n = 6 THEN CoversPalette(planes[n]) ELSE Covers(planes[n])
    BY <1>0, <1>2, <1>5
  <2> QED BY <1>0, <1>5, <2>1, <2>2, DeliveredUnder
<1>6. CASE problem = NoProblem /\ meta.shBands # 0 /\ pc' = "plane"
  <2>1. pc' \in Decoding /\ BytesWhole'
    BY <1>6 DEF Decoding, BytesWhole
  <2>2. LargeEnough'
    BY <1>0, <1>2, <1>6 DEF LargeEnough, Covers
  <2>3. Version' = Version /\ Taken' = Taken /\ seenBeside' = seenBeside
    BY <1>0, <1>6 DEF Version, Taken, world
  <2>4. \A origins : Supplied(origins) => Supplied(origins)'
    BY <1>0, <1>6, <2>3 DEF Supplied, IsOrigin
  <2>5. Accounted'
    BY <1>0, <2>3, <2>4 DEF KInv, Accounted
  <2> QED BY <1>0, <2>1, <2>2, <2>5, PlanesUnder DEF KInv
<1> QED BY <1>3, <1>4, <1>5, <1>6

LEMMA CheckPaletteUnder == IInv /\ KInv /\ CheckPalette => KInv'
<1> SUFFICES ASSUME IInv, KInv, CheckPalette PROVE KInv'
  OBVIOUS
<1> DEFINE problem == PaletteProblem(planes[6], planes[7])
<1>0. /\ pc = "palette" /\ pc \in Decoding /\ Len(planes) = 7 /\ planes \in Seq(Image)
      /\ DOMAIN planes = 1 .. 7 /\ meta.shBands # 0
      /\ UNCHANGED <<world, operation, bundled, data, meta, planes, sourceBytes>>
  BY DEF CheckPalette, IInv, Types, Counted, Decoding, document
<1>1. /\ meta.gaussianCount \in Nat /\ meta.paletteCount \in Nat
      /\ \A n \in 1 .. 5 : Covers(planes[n])
  BY <1>0 DEF KInv, Understood, LargeEnough
<1>2. planes[6] \in Image /\ planes[7] \in Image
  <2>1. 6 \in 1 .. 7 /\ 7 \in 1 .. 7
    OBVIOUS
  <2> QED BY <1>0, <2>1, ElementOfSeq
<1>3. problem = NoProblem => Covers(planes[7]) /\ CoversPalette(planes[6])
  BY <1>1, <1>2, PaletteIsChecked
<1>4. \/ pc' = "return" /\ result' = "false"
      \/ problem = NoProblem /\ pc' = "return"
  BY DEF CheckPalette, Fail, Succeed
<1> HIDE DEF problem
<1>5. CASE pc' = "return" /\ result' = "false"
  BY <1>5, NothingDelivered
<1>6. CASE problem = NoProblem /\ pc' = "return"
  <2>1. \A n \in 1 .. 7 : n \in 1 .. 5 \/ n = 6 \/ n = 7
    OBVIOUS
  <2>2. \A n \in 1 .. 5 : n # 6
    OBVIOUS
  <2>3. \A n \in DOMAIN planes :
          IF n = 6 THEN CoversPalette(planes[n]) ELSE Covers(planes[n])
    BY <1>0, <1>1, <1>3, <1>6, <2>1, <2>2
  <2>4. DOMAIN planes = DOMAIN meta.files
    BY <1>0, DocumentFacts DEF IInv, MetaParsed
  <2> QED BY <1>0, <1>6, <2>3, <2>4, DeliveredUnder
<1> QED BY <1>4, <1>5, <1>6

(* The steps that load nothing and deliver nothing.                        *)
LEMMA OthersUnder ==
  IInv /\ KInv /\ (Refused \/ Throw \/ Call \/ Return \/ ReadPrefix \/ Gate \/ ProbeLayout)
    => KInv'
<1> SUFFICES ASSUME IInv, KInv, Refused \/ Throw \/ Call \/ Return \/ ReadPrefix
                                \/ Gate \/ ProbeLayout
             PROVE  KInv'
  OBVIOUS
<1>1. CASE Refused \/ Throw
  <2>1. pc' = "return" /\ result' # "true"
    BY <1>1 DEF Refused, Throw, Fail
  <2> QED BY <2>1, NothingDelivered
<1>2. CASE Call \/ Return
  <2>1. pc' \in Before
    BY <1>2 DEF Call, Return, Before
  <2> QED BY <2>1, NothingLoaded
<1>3. CASE ReadPrefix
  <2>1. pc' = "gate" \/ (pc' = "return" /\ result' = "false")
    BY <1>3 DEF ReadPrefix, Fail, Continue
  <2> QED BY <2>1, NothingLoaded, NothingDelivered
<1>4. CASE Gate
  <2>1. pc' = "return" /\ operation' # "Read"
    BY <1>4 DEF Gate, Answer, Fail, Succeed, IInv, Directed, Routing
  <2> QED BY <2>1, NothingDelivered
<1>5. CASE ProbeLayout
  <2>1. pc' = "load" \/ (pc' = "return" /\ result' = "false")
    BY <1>5 DEF ProbeLayout, Fail, FailOr, Continue
  <2> QED BY <2>1, NothingLoaded, NothingDelivered DEF Before
<1> QED BY <1>1, <1>2, <1>3, <1>4, <1>5

LEMMA NextUnder == IInv /\ KInv /\ [Next]_vars => KInv'
<1> SUFFICES ASSUME IInv, KInv, [Next]_vars PROVE KInv'
  OBVIOUS
<1>1. CASE EditFile \/ EditCompanion \/ Call \/ Refused \/ Throw \/ Return
  BY <1>1, EditsUnder, OthersUnder
<1>2. CASE ReadPrefix \/ Gate \/ ProbeLayout \/ LoadContainer \/ OpenLayout
           \/ ExtractMetadata \/ ParseDocument
  BY <1>2, OthersUnder, LoadContainerUnder, OpenLayoutUnder, ExtractMetadataUnder,
     ParseDocumentUnder
<1>3. CASE ExtractPlane \/ ProbeCompanion \/ LoadCompanion \/ AskLoader
           \/ DecodePlane \/ CheckPlanes \/ CheckPalette
  BY <1>3, ExtractPlaneUnder, ProbeCompanionUnder, LoadCompanionUnder,
     DecodePlaneUnder, CheckPlanesUnder, CheckPaletteUnder
<1>4. CASE UNCHANGED vars
  <2>1. Quiet /\ UNCHANGED <<seen, seenBeside>>
    BY <1>4 DEF vars, Quiet, world
  <2> QED BY <2>1, ReplacedUnder
<1> QED BY <1>1, <1>2, <1>3, <1>4 DEF Next, Step

(* Whatever is replaced between the opens of one call, a document handed   *)
(* out is one container: metadata and archive of one version of the        *)
(* primary file, every companion the whole of a file that was there, and   *)
(* the source size theirs (SogReader.h:84-86, SogReader.cpp:177-221,       *)
(* 923-961,1132-1164).                                                     *)
THEOREM DocumentsAreContainers == Spec => []DocumentIsOneContainer
<1>1. Init => KInv
  BY DEF Init, KInv, Fitting, Recognized, Understood, PlanesWhole, BytesWhole, Accounted,
         LargeEnough, DocumentIsOneContainer, Returned, Decoding
<1>2. IInv /\ KInv /\ [Next]_vars => KInv'
  BY NextUnder
<1>3. KInv => DocumentIsOneContainer
  BY DEF KInv
<1> QED BY <1>1, <1>2, <1>3, Invariance, PTL DEF Spec
=============================================================================
