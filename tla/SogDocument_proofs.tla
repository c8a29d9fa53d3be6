------------------------- MODULE SogDocument_proofs -------------------------
(***************************************************************************)
(* Proofs about what the reader of an unbundled container takes on trust.  *)
(*                                                                         *)
(* The JSON parser, for every document, every set of lexemes and every     *)
(* value of the limits: the depth limit guards a parameter; the recursion  *)
(* is bounded because that parameter is, at every level of the call stack, *)
(* the number of calls below it.                                           *)
(*                                                                         *)
(* The companion loader takes the plane beside meta.json, and finds it:    *)
(* for every place of meta.json, in a directory or however deep in         *)
(* packages, every search path, and everything else that lies around and   *)
(* is replaced meanwhile.                                                  *)
(***************************************************************************)
EXTENDS SogJson, SogCompanion, SequenceTheorems, TLAPS
LOCAL INSTANCE SequencesExt

(* ---- The parser's recursion -------------------------------------------- *)

InContainer == {"firstKey", "firstItem", "key", "item", "colon", "member", "next"}

(* What the parser maintains: the call stack counts itself, and the value  *)
(* about to be parsed is one level above it.                               *)
StackInv ==
  /\ calls \in Seq(Nat)
  /\ depth \in Nat
  /\ \A n \in 1 .. Len(calls) : calls[n] = n - 1
  /\ Len(calls) <= kJsonMaxDepth + 1
  /\ pc = "enter" => depth = Len(calls)
  /\ pc = "value" => depth = Len(calls) /\ depth <= kJsonMaxDepth
  /\ pc = "start" => calls = <<>>
  /\ pc \in InContainer => calls # <<>>

(* Returning from the innermost container leaves a shorter stack of the    *)
(* same shape.                                                             *)
LEMMA PopKeepsShape ==
  ASSUME NEW c \in Seq(Nat), c # <<>>, \A n \in 1 .. Len(c) : c[n] = n - 1
  PROVE  LET rest == SubSeq(c, 1, Len(c) - 1) IN
         /\ rest \in Seq(Nat) /\ Len(rest) = Len(c) - 1
         /\ \A n \in 1 .. Len(rest) : rest[n] = n - 1
<1> DEFINE rest == SubSeq(c, 1, Len(c) - 1)
<1>1. Len(c) \in Nat \ {0}
  BY EmptySeq
<1> DEFINE k == Len(c) - 1
<1>2. 1 \in Int /\ k \in Int /\ \A i \in 1 .. k : c[i] \in Nat
  BY <1>1
<1> HIDE DEF k
<1>3. /\ SubSeq(c, 1, k) \in Seq(Nat)
      /\ Len(SubSeq(c, 1, k)) = IF 1 <= k THEN k - 1 + 1 ELSE 0
      /\ \A i \in 1 .. k - 1 + 1 : SubSeq(c, 1, k)[i] = c[1 + i - 1]
  BY <1>2, SubSeqProperties
<1>4. SubSeq(c, 1, k) = rest /\ k \in Nat /\ k = Len(c) - 1
  BY <1>1 DEF k
<1> HIDE DEF rest
<1>5. rest \in Seq(Nat) /\ Len(rest) = k
  BY <1>3, <1>4
<1>6. \A n \in 1 .. k : rest[n] = c[n]
  BY <1>3, <1>4
<1>7. \A n \in 1 .. k : rest[n] = n - 1
  BY <1>1, <1>4, <1>6
<1>8. QED BY <1>4, <1>5, <1>7 DEF rest

(* Handing a value on changes the stack to the callers it was given.       *)
LEMMA DeliverKeeps ==
  ASSUME NEW value, NEW callers, NEW containers,
         Deliver(value, callers, containers)
  PROVE  /\ calls' = callers
         /\ pc' = IF callers = <<>> THEN "end" ELSE "next"
BY DEF Deliver, Continue

LEMMA InitStack == Init => StackInv
BY LimitsAssumption DEF Init, StackInv, InContainer

LEMMA NextStack == StackInv /\ [Next]_vars => StackInv'
<1> SUFFICES ASSUME StackInv, [Next]_vars PROVE StackInv'
  OBVIOUS
<1> USE LimitsAssumption
<1>1. CASE Disclose
  BY <1>1 DEF Disclose, StackInv, InContainer
<1>2. CASE SkipWhitespace
  BY <1>2 DEF SkipWhitespace, StackInv, InContainer
<1>3. CASE StartDocument
  BY <1>3 DEF StartDocument, StackInv, InContainer, Continue
<1>4. CASE EnterValue
  BY <1>4 DEF EnterValue, StackInv, InContainer, Continue, Fail
<1>5. CASE ParseScalar
  <2>1. calls' = calls /\ pc' = IF calls = <<>> THEN "end" ELSE "next"
    BY <1>5, DeliverKeeps DEF ParseScalar
  <2>2. depth' = depth
    BY <1>5 DEF ParseScalar
  <2>3. QED BY <2>1, <2>2 DEF StackInv, InContainer
<1>6. CASE RejectValue
  BY <1>6 DEF RejectValue, StackInv, InContainer, Fail
<1>7. CASE Open
  <2>1. /\ pc = "value" /\ calls' = Append(calls, depth) /\ depth' = depth
        /\ pc' \in {"firstKey", "firstItem"}
    BY <1>7 DEF Open, OpenContainer, Continue
  <2>2. depth = Len(calls) /\ depth <= kJsonMaxDepth
    BY <2>1 DEF StackInv
  <2>3. /\ calls' \in Seq(Nat) /\ Len(calls') = Len(calls) + 1
        /\ \A n \in 1 .. Len(calls') : calls'[n] = n - 1
    BY <2>1, <2>2 DEF StackInv
  <2>4. calls' # <<>>
    BY <2>3 DEF StackInv
  <2>5. QED BY <2>1, <2>2, <2>3, <2>4 DEF StackInv, InContainer
<1>8. CASE Close
  <2> DEFINE rest == SubSeq(calls, 1, Len(calls) - 1)
  <2>1. calls' = rest /\ pc' = IF rest = <<>> THEN "end" ELSE "next"
    BY <1>8, DeliverKeeps DEF Close, Innermost
  <2>2. calls # <<>> /\ depth' = depth
    BY <1>8 DEF Close, StackInv, InContainer
  <2>3. /\ rest \in Seq(Nat) /\ Len(rest) = Len(calls) - 1
        /\ \A n \in 1 .. Len(rest) : rest[n] = n - 1
    BY <2>2, PopKeepsShape DEF StackInv
  <2> HIDE DEF rest
  <2>4. QED BY <2>1, <2>2, <2>3 DEF StackInv, InContainer
<1>9. CASE StartLoop
  BY <1>9 DEF StartLoop, StackInv, InContainer, Continue
<1>10. CASE ParseKey
  BY <1>10 DEF ParseKey, StackInv, InContainer, Continue, Fail
<1>11. CASE ParseColon
  BY <1>11 DEF ParseColon, StackInv, InContainer, Continue, Fail
<1>12. CASE Emplace
  <2>1. calls' = calls /\ depth' = calls[Len(calls)] + 1 /\ pc' = "enter"
    BY <1>12 DEF Emplace, Innermost, Continue
  <2>2. calls # <<>>
    BY <1>12 DEF Emplace, StackInv, InContainer
  <2>3. depth' = Len(calls)
    BY <2>1, <2>2 DEF StackInv
  <2>4. QED BY <2>1, <2>2, <2>3 DEF StackInv, InContainer
<1>13. CASE ParseSeparator
  BY <1>13 DEF ParseSeparator, StackInv, InContainer, Continue, Fail
<1>14. CASE EndDocument
  BY <1>14 DEF EndDocument, StackInv, InContainer, Fail
<1>15. CASE UNCHANGED vars
  BY <1>15 DEF vars, StackInv, InContainer
<1>16. QED
  BY <1>1, <1>2, <1>3, <1>4, <1>5, <1>6, <1>7, <1>8, <1>9, <1>10, <1>11,
     <1>12, <1>13, <1>14, <1>15 DEF Next

(* Whatever the document and the limits, the recursion of the parser never *)
(* exceeds the depth limit by more than the level of the document itself   *)
(* (SogJson.h:68-71).                                                      *)
THEOREM RecursionIsBounded == Spec => []BoundedRecursion
<1>1. StackInv => BoundedRecursion
  BY DEF StackInv, BoundedRecursion
<1>2. QED BY <1>1, InitStack, NextStack, PTL DEF Spec

(* ---- The name of the plane --------------------------------------------- *)

LEMMA BeforeTheLast ==
  ASSUME NEW k \in Nat, NEW n \in 1 .. k, n # k
  PROVE  n \in 1 .. k - 1
OBVIOUS

(* Changing the last name of a path, by cutting it off and appending.      *)
LEMMA ReplaceLast ==
  ASSUME NEW S, NEW s \in Seq(S), s # <<>>, NEW e \in S
  PROVE  Append(Front(s), e) = [s EXCEPT ![Len(s)] = e]
<1> DEFINE r == [s EXCEPT ![Len(s)] = e]
           a == Append(Front(s), e)
<1>1. Len(s) \in Nat \ {0} /\ s \in [1 .. Len(s) -> S]
  BY EmptySeq, LenProperties
<1>2. /\ Front(s) \in Seq(S) /\ Len(Front(s)) = Len(s) - 1
      /\ \A n \in 1 .. Len(s) - 1 : Front(s)[n] = s[n]
  BY <1>1, SubSeqProperties DEF Front
<1>3. /\ a \in Seq(S) /\ Len(a) = Len(s) /\ a[Len(s)] = e
      /\ \A n \in 1 .. Len(s) - 1 : a[n] = s[n]
  <2>1. /\ a \in Seq(S) /\ Len(a) = Len(Front(s)) + 1 /\ a[Len(Front(s)) + 1] = e
        /\ \A n \in 1 .. Len(Front(s)) : a[n] = Front(s)[n]
    BY <1>2, AppendProperties
  <2> QED BY <2>1, <1>1, <1>2
<1>4. a \in [1 .. Len(s) -> S]
  BY <1>3, LenProperties
<1>5. r \in [1 .. Len(s) -> S]
  BY <1>1
<1>6. \A n \in 1 .. Len(s) : a[n] = r[n]
  <2>1. Len(s) \in 1 .. Len(s)
    BY <1>1
  <2>2. \A n \in 1 .. Len(s) : r[n] = IF n = Len(s) THEN e ELSE s[n]
    BY <2>1, ExceptSeq
  <2> TAKE n \in 1 .. Len(s)
  <2>3. CASE n = Len(s)
    BY <1>3, <2>2, <2>3
  <2>4. CASE n # Len(s)
    <3>1. n \in 1 .. Len(s) - 1
      BY <1>1, <2>4, BeforeTheLast
    <3> QED BY <1>3, <2>2, <2>4, <3>1
  <2> QED BY <2>3, <2>4
<1> QED BY <1>4, <1>5, <1>6

(* For the names of a path, and for the paths of a packaged one.           *)
LEMMA ReplaceName ==
  ASSUME NEW s \in Seq(STRING), s # <<>>, NEW e \in STRING
  PROVE  Append(Front(s), e) = [s EXCEPT ![Len(s)] = e]
BY ReplaceLast
LEMMA ReplaceEntry ==
  ASSUME NEW s \in Seq(Seq(STRING)), s # <<>>, NEW e \in Seq(STRING)
  PROVE  Append(Front(s), e) = [s EXCEPT ![Len(s)] = e]
BY ReplaceLast

LEMMA LastName ==
  ASSUME NEW S, NEW s \in Seq(S), s # <<>>
  PROVE  Len(s) \in Nat \ {0} /\ Len(s) \in DOMAIN s /\ s[Len(s)] \in S /\ Last(s) = s[Len(s)]
BY EmptySeq, LenProperties DEF Last

(* What the loader asks for is the sibling, which is no bare name.         *)
LEMMA NamesTheSibling ==
  ASSUME anchor \in Anchors
  PROVE  /\ Identifier(anchor, Plane) = Sibling
         /\ ~IsSearchPath(Sibling) /\ Sibling # Nowhere
<1>1. /\ anchor \in AssetPath /\ IsWhole(anchor) /\ Len(anchor.outer) > 1
      /\ Plane \in STRING
  BY CompanionAssumption
<1>2. anchor = [outer |-> anchor.outer, inner |-> anchor.inner]
      /\ anchor.outer \in Seq(STRING) /\ anchor.inner \in Seq(Seq(STRING))
  BY <1>1 DEF AssetPath
<1>3. CASE anchor.inner = <<>>
  <2> DEFINE beside == [anchor.outer EXCEPT ![Len(anchor.outer)] = Plane]
  <2>1. beside = Append(Front(anchor.outer), Plane)
    BY <1>1, <1>2, ReplaceName DEF IsWhole
  <2>2. Identifier(anchor, Plane) = [outer |-> beside, inner |-> <<>>]
    BY <1>3, <2>1 DEF Identifier, ArIsPackageRelativePath, CreateIdentifier, File
  <2>3. Sibling = [outer |-> beside, inner |-> <<>>]
    BY <1>2, <1>3 DEF Sibling
  <2>4. beside \in Seq(STRING) /\ Len(beside) = Len(anchor.outer) /\ beside # <<>>
    <3>1. Len(anchor.outer) \in 1 .. Len(anchor.outer)
      BY <1>1, <1>2, LastName DEF IsWhole
    <3>2. beside \in Seq(STRING) /\ Len(beside) = Len(anchor.outer)
      BY <1>1, <1>2, <3>1, ExceptSeq
    <3> HIDE DEF beside
    <3>3. Len(beside) > 1
      BY <1>1, <3>2
    <3> QED BY <3>2, <3>3, EmptySeq
  <2> HIDE DEF beside
  <2>5. Sibling.outer = beside /\ Len(beside) > 1
    BY <1>1, <2>3, <2>4
  <2>6. ~IsSearchPath(Sibling)
    BY <2>5 DEF IsSearchPath
  <2>7. Sibling # Nowhere
    BY <2>4, <2>5 DEF Nowhere
  <2> QED BY <2>2, <2>3, <2>6, <2>7
<1>4. CASE anchor.inner # <<>>
  <2> DEFINE levels == Len(anchor.inner)
             entry == anchor.inner[levels]
             beside == [entry EXCEPT ![Len(entry)] = Plane]
             entries == [anchor.inner EXCEPT ![levels] = beside]
  <2>1. /\ levels \in DOMAIN anchor.inner /\ entry \in Seq(STRING)
        /\ Last(anchor.inner) = entry /\ entry # <<>>
    BY <1>1, <1>2, <1>4, LastName DEF IsWhole
  <2>2. beside = Append(Front(entry), Plane) /\ beside \in Seq(STRING)
    <3>1. Len(entry) \in 1 .. Len(entry)
      BY <2>1, LastName
    <3>2. beside \in Seq(STRING)
      BY <1>1, <2>1, <3>1, ExceptSeq
    <3> QED BY <1>1, <2>1, <3>2, ReplaceName
  <2>3. entries = Append(Front(anchor.inner), beside)
    <3> HIDE DEF beside
    <3> QED BY <1>2, <1>4, <2>2, ReplaceEntry
  <2>4. Identifier(anchor, Plane) = [outer |-> anchor.outer, inner |-> entries]
    BY <1>2, <1>4, <2>1, <2>2, <2>3
    DEF Identifier, ArIsPackageRelativePath, ArSplitPackageRelativePathInner,
        ArJoinPackageRelativePath
  <2>5. Sibling = [outer |-> anchor.outer, inner |-> entries]
    BY <1>2, <1>4 DEF Sibling
  <2>6. anchor.outer # <<>> /\ entries # <<>>
    BY <1>1, <2>1 DEF IsWhole
  <2> HIDE DEF entries
  <2> QED BY <2>4, <2>5, <2>6 DEF IsSearchPath, Nowhere
<1> QED BY <1>3, <1>4

(* So the search path is never asked.                                      *)
LEMMA ResolvesToTheSibling ==
  ASSUME anchor \in Anchors
  PROVE  Resolve(Sibling) = IF Exists(Sibling) THEN Sibling ELSE Nowhere
BY NamesTheSibling DEF Resolve

(* ---- The inductive invariant ------------------------------------------- *)

Stages == {"identify", "resolve", "open", "size", "read", "loaded", "return"}
TooLarge(size) == size \notin 0 .. kMaxPlaneBytes

Types ==
  /\ anchor \in Anchors /\ assets \in [Locations -> Sizes \cup {Absent}]
  /\ stage \in Stages
Watched == There(assets) \in seen
Named ==
  /\ stage # "identify" => identifier = Sibling
  /\ stage \in {"open", "size", "read", "loaded"} => resolved = Sibling
Opened ==
  /\ stage \in {"size", "read", "loaded"} =>
       asset.path = Sibling /\ asset.size \in seen /\ asset.size \in Nat
  /\ stage \in {"read", "loaded"} => asset.size <= kMaxPlaneBytes
Refused == stage = "return" /\ ~fault => \E size \in seen : TooLarge(size)

IInv == Types /\ Watched /\ Named /\ Opened /\ Refused

(* An asset that is not there is as good as one that is too large.         *)
LEMMA MissingIsWatched ==
  ASSUME IInv, ~Exists(Sibling)
  PROVE  \E size \in seen : TooLarge(size)
<1>1. There(assets) = Absent
  BY DEF There, Exists
<1> QED BY <1>1, CompanionAssumption DEF IInv, Watched, TooLarge, Absent

LEMMA PresentIsWatched ==
  ASSUME IInv, Exists(Sibling)
  PROVE  assets[Sibling] \in seen /\ assets[Sibling] \in Nat
BY CompanionAssumption DEF IInv, Types, Watched, There, Exists

LEMMA InitIInv == CompanionInit => IInv
BY DEF CompanionInit, IInv, Types, Watched, Named, Opened, Refused, Stages

LEMMA NextIInv == IInv /\ [CompanionNext]_companionVars => IInv'
<1> SUFFICES ASSUME IInv, [CompanionNext]_companionVars PROVE IInv'
  OBVIOUS
<1> USE DEF IInv, Types, Watched, Named, Opened, Refused, Stages
<1>0. anchor' = anchor => Sibling' = Sibling
  BY DEF Sibling
<1>1. CASE EditAssets
  <2>1. UNCHANGED <<anchor, stage, error, identifier, resolved, asset, fault>>
        /\ seen \subseteq seen' /\ There(assets)' \in seen'
    BY <1>1 DEF EditAssets, There, Sibling
  <2>2. assets' \in [Locations -> Sizes \cup {Absent}]
    BY <1>1 DEF EditAssets
  <2> QED BY <1>0, <2>1, <2>2 DEF TooLarge
<1>2. CASE NamePlane
  BY <1>0, <1>2, NamesTheSibling DEF NamePlane, There
<1>3. CASE ResolvePlane
  <2>1. UNCHANGED <<assets, anchor, identifier, asset, seen, fault>> /\ identifier = Sibling
        /\ resolved' = Resolve(Sibling)
    BY <1>3 DEF ResolvePlane
  <2>2. CASE Exists(Sibling)
    BY <1>0, <1>3, <2>1, <2>2, ResolvesToTheSibling, NamesTheSibling DEF ResolvePlane, There
  <2>3. CASE ~Exists(Sibling)
    BY <1>0, <1>3, <2>1, <2>3, ResolvesToTheSibling, MissingIsWatched
    DEF ResolvePlane, Refuse, There, TooLarge
  <2> QED BY <2>2, <2>3
<1>4. CASE OpenAsset
  <2>1. UNCHANGED <<assets, anchor, identifier, resolved, seen>>
        /\ identifier = Sibling /\ resolved = Sibling
    BY <1>4 DEF OpenAsset
  <2>2. CASE stage' = "size"
    <3>1. Exists(Sibling) /\ asset' = [path |-> Sibling, size |-> assets[Sibling]]
      BY <1>4, <2>1, <2>2 DEF OpenAsset, Refuse
    <3>2. Sibling' = Sibling /\ There(assets)' = There(assets)
      BY <1>0, <2>1 DEF There
    <3>3. asset'.path = Sibling' /\ asset'.size \in seen' /\ asset'.size \in Nat
      BY <2>1, <3>1, <3>2, PresentIsWatched
    <3>4. Types' /\ Watched' /\ Named'
      BY <2>1, <2>2, <3>2 DEF There
    <3>5. Opened' /\ Refused'
      BY <2>2, <3>3
    <3> QED BY <3>4, <3>5
  <2>3. CASE stage' # "size"
    <3>1. stage' = "return" /\ (~fault' => ~Exists(Sibling))
      BY <1>4, <2>1, <2>3 DEF OpenAsset, Refuse
    <3>2. Sibling' = Sibling /\ There(assets)' = There(assets)
      BY <1>0, <2>1 DEF There
    <3>3. Refused'
      BY <2>1, <3>1, MissingIsWatched DEF TooLarge
    <3>4. Types' /\ Watched' /\ Named'
      BY <2>1, <3>1, <3>2 DEF There
    <3>5. Opened'
      BY <3>1
    <3> QED BY <3>3, <3>4, <3>5
  <2> QED BY <2>2, <2>3
<1>5. CASE CheckSize
  BY <1>0, <1>5, CompanionAssumption DEF CheckSize, Refuse, There, TooLarge
<1>6. CASE ReadAsset
  BY <1>0, <1>6 DEF ReadAsset, Refuse, There, TooLarge
<1>7. CASE UNCHANGED companionVars
  BY <1>0, <1>7 DEF companionVars, There, TooLarge
<1> QED BY <1>1, <1>2, <1>3, <1>4, <1>5, <1>6, <1>7 DEF CompanionNext

(* ---- The theorems ------------------------------------------------------ *)

(* Where everything a call knows comes from (GaussianSogFileFormat.cpp:    *)
(* 104-161).                                                               *)
THEOREM Invariance == CompanionSpec => []IInv
BY InitIInv, NextIInv, PTL DEF CompanionSpec

(* What is loaded was beside meta.json while the call ran, and is within   *)
(* the limit: no search path, no package's root, no neighbour supplies it. *)
THEOREM LoadsTheSibling == CompanionSpec => []CompanionIsSibling
<1>1. IInv => CompanionIsSibling
  BY CompanionAssumption DEF IInv, Types, Opened, CompanionIsSibling
<1> QED BY <1>1, Invariance, PTL

(* And a call that nothing is refused finds it, unless it was missing or   *)
(* too large at some moment of the call.                                   *)
THEOREM FindsTheSibling == CompanionSpec => []SiblingIsFound
<1>1. IInv => SiblingIsFound
  BY DEF IInv, Refused, SiblingIsFound, TooLarge
<1> QED BY <1>1, Invariance, PTL
=============================================================================
