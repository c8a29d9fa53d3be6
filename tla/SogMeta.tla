------------------------------- MODULE SogMeta -------------------------------
(***************************************************************************)
(* The schema of meta.json: ParseMetaJson of the SOG reader, over the tree *)
(* its JSON parser built.                                                  *)
(*                                                                         *)
(* Data abstraction: a JSON number is an integer that counts halves, so    *)
(* that 2.5 exists; a plane name is a sequence of ASCII codes.             *)
(***************************************************************************)
EXTENDS SogJsonValue, Diagnostics, FiniteSetsExt

CONSTANTS
  kCodebookSize,            \* entries of every codebook
  kFormatMaxGaussianCount,  \* the format's integer range
  kMaxGaussianCount,        \* the shared import limit
  kMaxNameLength,           \* bytes of a plane name
  kFloatLimit               \* halves beyond the range of a 32-bit float

ASSUME SchemaAssumption ==
  /\ kCodebookSize \in Nat \ {0} /\ kFormatMaxGaussianCount \in Nat
  /\ kMaxGaussianCount \in Nat /\ kMaxNameLength \in Nat /\ kFloatLimit \in Nat

kSupportedVersion == 2

(* ---- Plane names ------------------------------------------------------- *)

Dot == 46
Space == 32

Upper(c) == IF c \in 97 .. 122 THEN c - 32 ELSE c

(* CON, PRN, AUX, NUL, COM1-9 and LPT1-9.                                  *)
kReserved ==
  {<<67, 79, 78>>, <<80, 82, 78>>, <<65, 85, 88>>, <<78, 85, 76>>}
  \cup {<<67, 79, 77, d>> : d \in 49 .. 57} \cup {<<76, 80, 84, d>> : d \in 49 .. 57}

(* What precedes the first dot, without the spaces at its end.             *)
Stem(name) ==
  LET dots == {n \in DOMAIN name : name[n] = Dot}
      kept == {n \in DOMAIN name : (\A d \in dots : n < d) /\ name[n] # Space}
  IN  SubSeq(name, 1, Max(kept \cup {0}))

IsReservedDeviceName(name) ==
  [n \in DOMAIN Stem(name) |-> Upper(Stem(name)[n])] \in kReserved

(* A bare file name: nothing a directory, a drive or a scheme needs.       *)
IsSafePlaneName(name) ==
  /\ Len(name) \in 1 .. kMaxNameLength /\ name \notin {<<Dot>>, <<Dot, Dot>>}
  /\ \A n \in DOMAIN name : name[n] >= 32 /\ name[n] \notin {47, 92, 58}
  /\ ~IsReservedDeviceName(name)

(* ---- The fields -------------------------------------------------------- *)

(* A member, or a null value, which no field may be.                       *)
Member(parent, key) ==
  LET found == Find(parent, key)
  IN  IF found = Nothing THEN JsonValue ELSE found[1]

IsIntegral(number) == number % 2 = 0
Integer(parent, key) == Member(parent, key).number \div 2

RequireObject(parent, key) ==
  Check(Member(parent, key).type # "object", "malformedMetadata")

RequireIntegral(parent, key, code) ==
  LET value == Member(parent, key) IN
  FirstFailure(<<Check(value.type # "number", "malformedMetadata"),
                 Check(~IsIntegral(value.number), code)>>)

IsFloat(value) ==
  value.type = "number" /\ value.number \in -kFloatLimit .. kFloatLimit

RequireFloatArray(parent, key, expected, code) ==
  LET value == Member(parent, key) IN
  FirstFailure(<<Check(value.type # "array", code),
                 Check(Len(value.items) # expected, code),
                 Check(\E n \in DOMAIN value.items : ~IsFloat(value.items[n]),
                       code)>>)

RequireFiles(property, expected) ==
  LET files == Member(property, "files") IN
  FirstFailure(<<
    Check(files.type # "array", "malformedMetadata"),
    Check(Len(files.items) # expected, "malformedMetadata"),
    Check(\E n \in DOMAIN files.items :
            \/ files.items[n].type # "string"
            \/ ~IsSafePlaneName(files.items[n].text), "malformedMetadata")>>)

File(root, property, n) == Member(Member(root, property), "files").items[n].text

HasShN(root) == Member(root, "shN").type # "null"

(* In the order of the document: low and high position bytes, scales,      *)
(* rotations, DC color with opacity, and the palette with its labels.      *)
PlaneNames(root) ==
  <<File(root, "means", 1), File(root, "means", 2), File(root, "scales", 1),
    File(root, "quats", 1), File(root, "sh0", 1)>>
  \o IF HasShN(root) THEN <<File(root, "shN", 1), File(root, "shN", 2)>> ELSE <<>>

\* Slip: the planes of spherical harmonics are not compared with the others.
ValidatePlaneNames_FirstFive(root) ==
  LET names == PlaneNames(root) IN
  Check(\E i, j \in 1 .. 5 : j < i /\ names[i] = names[j], "malformedMetadata")
ValidatePlaneNames(root) ==
  LET names == PlaneNames(root) IN
  Check(\E i, j \in DOMAIN names : j < i /\ names[i] = names[j],
        "malformedMetadata")

(* The optional property: its bands decide the degree of the cloud.        *)
ShNProblem(root) ==
  LET shN == Member(root, "shN") IN
  IF ~HasShN(root) THEN NoProblem
  ELSE FirstFailure(<<
    Check(shN.type # "object", "malformedMetadata"),
    RequireIntegral(shN, "bands", "invalidShBands"),
    Check(Integer(shN, "bands") \notin 1 .. 3, "invalidShBands"),
    RequireIntegral(shN, "count", "malformedMetadata"),
    Check(Integer(shN, "count") \notin 0 .. kFormatMaxGaussianCount,
          "malformedMetadata"),
    RequireFloatArray(shN, "codebook", kCodebookSize, "invalidCodebook"),
    RequireFiles(shN, 2)>>)

(* The required ones, in the order in which they are looked at.            *)
RequiredProblem(root) ==
  LET means == Member(root, "means")
      count == Integer(root, "count")
  IN  FirstFailure(<<
        Check(root.type # "object", "malformedMetadata"),
        Check(Find(root, "version") = Nothing, "unsupportedVersion"),
        RequireIntegral(root, "version", "unsupportedVersion"),
        Check(Integer(root, "version") # kSupportedVersion, "unsupportedVersion"),
        RequireIntegral(root, "count", "invalidGaussianCount"),
        Check(count \notin 0 .. kFormatMaxGaussianCount, "invalidGaussianCount"),
        Check(count = 0, "emptyPointSet"),
        Check(count > kMaxGaussianCount, "importLimitExceeded"),
        RequireObject(root, "means"),
        RequireFloatArray(means, "mins", 3, "malformedMetadata"),
        RequireFloatArray(means, "maxs", 3, "malformedMetadata"),
        RequireFiles(means, 2),
        RequireObject(root, "scales"),
        RequireFloatArray(Member(root, "scales"), "codebook", kCodebookSize,
                          "invalidCodebook"),
        RequireFiles(Member(root, "scales"), 1),
        RequireObject(root, "quats"),
        RequireFiles(Member(root, "quats"), 1),
        RequireObject(root, "sh0"),
        RequireFloatArray(Member(root, "sh0"), "codebook", kCodebookSize,
                          "invalidCodebook"),
        RequireFiles(Member(root, "sh0"), 1)>>)

(* The planes can only be compared once each property has named its own.   *)
ParseMetaJson(root) ==
  LET problem == FirstFailure(<<RequiredProblem(root), ShNProblem(root)>>)
  IN  IF problem # NoProblem THEN problem ELSE ValidatePlaneNames(root)

(* What it stores of a document without a problem.                         *)
MetaDocument(root) ==
  LET shN == Member(root, "shN") IN
  [version       |-> kSupportedVersion,
   gaussianCount |-> Integer(root, "count"),
   shBands       |-> IF HasShN(root) THEN Integer(shN, "bands") ELSE 0,
   paletteCount  |-> IF HasShN(root) THEN Integer(shN, "count") ELSE 0,
   files         |-> PlaneNames(root)]
=============================================================================
