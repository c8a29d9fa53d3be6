---------------------------- MODULE SogCompanion ----------------------------
(***************************************************************************)
(* How a plane named in meta.json is found: the companion loader that the  *)
(* SOG file format gives the reader, over the asset resolver.              *)
(*                                                                         *)
(* An asset path is the path of a file and, in a package, the path of the  *)
(* entry, that of the entry in that entry, and so on; a path is a sequence *)
(* of names, the last that of the file.                                    *)
(***************************************************************************)
EXTENDS Integers, Diagnostics
LOCAL INSTANCE SequencesExt
LOCAL INSTANCE FiniteSetsExt

CONSTANTS
  Locations,       \* the asset paths at which there may be something
  Sizes,           \* how large it may be
  Anchors,         \* where meta.json may lie
  Plane,           \* the name of the plane: one file name
  SearchPath,      \* the directories of a search, the current one first
  kMaxPlaneBytes

Absent == -1

(* An asset path as the resolver hands it out: every part names a file.    *)
AssetPath == [outer : Seq(STRING), inner : Seq(Seq(STRING))]
IsWhole(path) ==
  path.outer # <<>> /\ \A n \in DOMAIN path.inner : path.inner[n] # <<>>

(* That of meta.json has been resolved: it is not a bare name.             *)
ASSUME CompanionAssumption ==
  /\ Sizes \subseteq Nat /\ kMaxPlaneBytes \in Nat /\ Plane \in STRING
  /\ Anchors \cup Locations \subseteq AssetPath
  /\ \A path \in Anchors \cup Locations : IsWhole(path)
  /\ \A a \in Anchors : Len(a.outer) > 1

VARIABLES
  assets,      \* the size of what is at each location, or Absent
  anchor,      \* the resolved path of meta.json
  stage, error,
  identifier,  \* of the plane
  resolved,    \* its resolved path
  asset,       \* what has been opened: its path and its size
  seen,        \* what has been at the sibling's place since the call began
  fault        \* an open, an allocation or a read was refused

companionVars == <<assets, anchor, stage, error, identifier, resolved, asset, seen,
                   fault>>

Nowhere == [outer |-> <<>>, inner |-> <<>>]
NoAsset == [path |-> Nowhere, size |-> Absent]

(* ---- The resolver ------------------------------------------------------ *)

Exists(path) == path \in Locations /\ assets[path] # Absent

ArIsPackageRelativePath(path) == path.inner # <<>>
ArSplitPackageRelativePathInner(path) ==
  [package |-> [path EXCEPT !.inner = Front(@)], entry |-> Last(path.inner)]
ArJoinPackageRelativePath(package, entry) ==
  [package EXCEPT !.inner = Append(@, entry)]

File(path) == [outer |-> path, inner |-> <<>>]
IsSearchPath(path) == Len(path.outer) = 1 /\ path.inner = <<>>

(* A name with "./" is anchored on the file, also when that is a package;  *)
(* a bare one only if it is found there.                                   *)
CreateIdentifier(dotted, name, from) ==
  LET anchored == File(Append(Front(from.outer), name))
  IN  IF dotted \/ Exists(anchored) THEN anchored ELSE File(<<name>>)

Resolve(path) ==
  LET found == {n \in DOMAIN SearchPath : Exists(File(SearchPath[n] \o path.outer))}
  IN  CASE IsSearchPath(path) /\ found # {} ->
             File(SearchPath[Min(found)] \o path.outer)
        [] ~IsSearchPath(path) /\ Exists(path) -> path
        [] OTHER -> Nowhere

(* ---- The loader -------------------------------------------------------- *)

\* Slip: the bare name of the plane.
Identifier_Bare(from, plane) == CreateIdentifier(FALSE, plane, from)
\* Slip: a packaged meta.json has its planes at the root of the package.
Identifier_PackageRoot(from, plane) ==
  IF ArIsPackageRelativePath(from)
  THEN ArJoinPackageRelativePath(ArSplitPackageRelativePathInner(from).package, <<plane>>)
  ELSE CreateIdentifier(TRUE, plane, from)
Identifier(from, plane) ==
  IF ArIsPackageRelativePath(from)
  THEN LET split     == ArSplitPackageRelativePathInner(from)
           directory == Front(split.entry)
       IN  ArJoinPackageRelativePath(split.package, Append(directory, plane))
  ELSE CreateIdentifier(TRUE, plane, from)

(* Where the format has it: beside meta.json, whatever holds that.         *)
Sibling ==
  IF anchor.inner = <<>>
  THEN [anchor EXCEPT !.outer[Len(anchor.outer)] = Plane]
  ELSE LET depth == Len(anchor.inner) IN
       [anchor EXCEPT !.inner[depth][Len(anchor.inner[depth])] = Plane]
There(content) == IF Sibling \in Locations THEN content[Sibling] ELSE Absent

CompanionInit ==
  /\ assets \in [Locations -> Sizes \cup {Absent}]
  /\ anchor \in Anchors
  /\ stage = "identify" /\ error = ""
  /\ identifier = Nowhere /\ resolved = Nowhere /\ asset = NoAsset
  /\ seen = {There(assets)} /\ fault = FALSE

(* Somebody writes or removes a file, or packs another one.                *)
EditAssets ==
  /\ \E path \in Locations, size \in Sizes \cup {Absent} :
       assets' = [assets EXCEPT ![path] = size]
  /\ seen' = seen \cup {There(assets')}
  /\ UNCHANGED <<anchor, stage, error, identifier, resolved, asset, fault>>

Refuse(code) == stage' = "return" /\ error' = code

NamePlane ==
  /\ stage = "identify"
  /\ identifier' = Identifier(anchor, Plane)
  /\ stage' = "resolve"
  /\ UNCHANGED <<assets, anchor, error, resolved, asset, seen, fault>>

ResolvePlane ==
  /\ stage = "resolve"
  /\ resolved' = Resolve(identifier)
  /\ IF resolved' = Nowhere THEN Refuse("missingPlane")
     ELSE stage' = "open" /\ UNCHANGED error
  /\ UNCHANGED <<assets, anchor, identifier, asset, seen, fault>>

(* The file may be gone again.                                             *)
OpenAsset ==
  /\ stage = "open"
  /\ \/ /\ Exists(resolved)
        /\ asset' = [path |-> resolved, size |-> assets[resolved]]
        /\ stage' = "size" /\ UNCHANGED <<error, fault>>
     \/ /\ ~Exists(resolved)
        /\ Refuse("unreadableFile") /\ UNCHANGED <<asset, fault>>
     \/ Refuse("unreadableFile") /\ fault' = TRUE /\ UNCHANGED asset
  /\ UNCHANGED <<assets, anchor, identifier, resolved, seen>>

(* The limit, and the buffer.                                              *)
CheckSize ==
  /\ stage = "size"
  /\ IF asset.size > kMaxPlaneBytes THEN Refuse("importLimitExceeded") /\ UNCHANGED fault
     ELSE \/ stage' = "read" /\ UNCHANGED <<error, fault>>
          \/ Refuse("unreadableFile") /\ fault' = TRUE
  /\ UNCHANGED <<assets, anchor, identifier, resolved, asset, seen>>

(* From the resolver's buffer, or by a read that may come short; nothing   *)
(* is read of an empty asset.                                              *)
ReadAsset ==
  /\ stage = "read"
  /\ \/ stage' = "loaded" /\ UNCHANGED <<error, fault>>
     \/ asset.size # 0 /\ Refuse("unreadableFile") /\ fault' = TRUE
  /\ UNCHANGED <<assets, anchor, identifier, resolved, asset, seen>>

CompanionNext ==
  \/ EditAssets \/ NamePlane \/ ResolvePlane \/ OpenAsset \/ CheckSize
  \/ ReadAsset

CompanionSpec == CompanionInit /\ [][CompanionNext]_companionVars
-----------------------------------------------------------------------------
(* A plane is never that of another asset: whatever lies on the search     *)
(* path, beside the package or at its root, what is loaded was beside      *)
(* meta.json while the call ran, and is within the limit                   *)
(* (GaussianSogFileFormat.cpp:104-119).                                    *)
CompanionIsSibling ==
  stage = "loaded" =>
    asset.path = Sibling /\ asset.size \in seen /\ asset.size \in 0 .. kMaxPlaneBytes

(* And what lies there is found: a call fails only for a plane that was    *)
(* missing or too large, or an asset that is refused (RESOLVER_MATRIX.md). *)
SiblingIsFound ==
  stage = "return" /\ ~fault => \E size \in seen : size \notin 0 .. kMaxPlaneBytes
=============================================================================
