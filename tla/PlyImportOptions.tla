--------------------------- MODULE PlyImportOptions ---------------------------
(***************************************************************************)
(* ApplyImportOptions of the gaussian-ply plugin: the decoded cloud is     *)
(* edited in place, first compacting the survivors of opacityThreshold to  *)
(* the front of every array, then re-packing the rest coefficients at the  *)
(* effective SH degree.  One action is one iteration of a loop.            *)
(*                                                                         *)
(* Data abstraction: an array element is the index of the source Gaussian  *)
(* (for a rest element, with the coefficient) it was decoded for, so the   *)
(* model tells whether an element was overwritten before it was read.      *)
(***************************************************************************)
EXTENDS GaussianCloud

CONSTANTS
  MaxCount,   \* bound on the Gaussians of the decoded cloud
  Opacity     \* opacities and thresholds, as a set of integers >= 0

ASSUME MaxCountAssumption == MaxCount \in Nat
ASSUME OpacityAssumption  == Opacity \subseteq Nat

VARIABLES
  source,     \* the cloud on entry: [count, shDegree, opacity]; never changes
  options,    \* GaussianPlyImportOptions, -1 where the argument is absent
  pc,         \* the loop being executed, or the value returned
  count,      \* cloud->gaussianCount
  shDegree,   \* cloud->shDegree
  column,     \* the five per-Gaussian arrays
  rest,       \* cloud->restCoefficients
  scaled,     \* the scale multiplier has been applied to every scale
  i, kept, c  \* the loop variables

vars == <<source, options, pc, count, shDegree, column, rest, scaled, i, kept, c>>
Options == [shDegree : -1 .. kMaxShDegree,
            opacityThreshold : {-1} \cup Opacity,
            scales : BOOLEAN]     \* scaleMultiplier # 1

Sources == UNION {[count : {n}, shDegree : 0 .. kMaxShDegree,
                   opacity : [0 .. n - 1 -> Opacity]] : n \in 1 .. MaxCount}

(* The cap an import puts on the degree; it never raises the source's.     *)
EffectiveShDegree(opts, sourceDegree) ==
  IF opts.shDegree < 0 \/ opts.shDegree > sourceDegree
  THEN sourceDegree ELSE opts.shDegree

(* A cloud as the decoder hands it over: validated, every array full.      *)
Init ==
  /\ source \in Sources
  /\ options \in Options
  /\ pc = "scale"
  /\ count = source.count
  /\ shDegree = source.shDegree
  /\ column = [k \in Column |-> [g \in 0 .. source.count - 1 |-> g]]
  /\ rest = LET per == RestPerGaussian(source.shDegree)
            IN [e \in 0 .. source.count * per - 1 |-> <<e \div per, e % per>>]
  /\ scaled = FALSE
  /\ i = 0 /\ kept = 0 /\ c = 0

(* The scale loop runs over every Gaussian before any is dropped.          *)
ScaleScales ==
  /\ pc = "scale"
  /\ scaled' = options.scales
  /\ pc' = IF options.opacityThreshold >= 0 THEN "compact" ELSE "degree"
  /\ UNCHANGED <<source, options, count, shDegree, column, rest, i, kept, c>>

\* Slip: a Gaussian exactly at the threshold is dropped too.
BelowThreshold_Inclusive(g) ==
  source.opacity[column["opacities"][g]] <= options.opacityThreshold
BelowThreshold(g) ==
  source.opacity[column["opacities"][g]] < options.opacityThreshold

\* Slip: the loop index is not advanced past a dropped Gaussian.
DropGaussian_NoAdvance ==
  /\ pc = "compact" /\ i < count
  /\ BelowThreshold(i)
  /\ UNCHANGED vars
DropGaussian ==
  /\ pc = "compact" /\ i < count
  /\ BelowThreshold(i)
  /\ i' = i + 1
  /\ UNCHANGED <<source, options, pc, count, shDegree, column, rest, scaled,
                 kept, c>>

(* Nothing was dropped yet: the survivor is where it belongs.              *)
KeepInPlace ==
  /\ pc = "compact" /\ i < count
  /\ ~BelowThreshold(i)
  /\ kept = i
  /\ kept' = kept + 1
  /\ i' = i + 1
  /\ UNCHANGED <<source, options, pc, count, shDegree, column, rest, scaled, c>>

\* Slip: one array is left out of the element copy.
MovedColumns_NoRotations ==
  [k \in Column |-> IF k = "rotations" THEN column[k]
                    ELSE [column[k] EXCEPT ![kept] = column[k][i]]]
MovedColumns == [k \in Column |-> [column[k] EXCEPT ![kept] = column[k][i]]]

(* A survivor that has to move: its five per-Gaussian elements are copied  *)
(* down before the rest loop.                                              *)
MoveSurvivor ==
  /\ pc = "compact" /\ i < count
  /\ ~BelowThreshold(i)
  /\ kept # i
  /\ column' = MovedColumns
  /\ c' = 0
  /\ pc' = "moveRest"
  /\ UNCHANGED <<source, options, count, shDegree, rest, scaled, i, kept>>

\* Slip: source and destination of the copy are swapped.
MoveRest_Swapped ==
  LET per == RestPerGaussian(shDegree) IN
  /\ pc = "moveRest" /\ c < per
  /\ rest' = [rest EXCEPT ![i * per + c] = rest[kept * per + c]]
  /\ c' = c + 1
  /\ UNCHANGED <<source, options, pc, count, shDegree, column, scaled, i, kept>>
MoveRest ==
  LET per == RestPerGaussian(shDegree) IN
  /\ pc = "moveRest" /\ c < per
  /\ rest' = [rest EXCEPT ![kept * per + c] = rest[i * per + c]]
  /\ c' = c + 1
  /\ UNCHANGED <<source, options, pc, count, shDegree, column, scaled, i, kept>>

SurvivorMoved ==
  /\ pc = "moveRest" /\ c = RestPerGaussian(shDegree)
  /\ kept' = kept + 1
  /\ i' = i + 1
  /\ pc' = "compact"
  /\ UNCHANGED <<source, options, count, shDegree, column, rest, scaled, c>>

FailAllFiltered ==
  /\ pc = "compact" /\ i = count
  /\ kept = 0
  /\ pc' = "failed"
  /\ UNCHANGED <<source, options, count, shDegree, column, rest, scaled, i,
                 kept, c>>

(* resize() of every array; elements past the end are destroyed.           *)
ShrinkToKept ==
  LET per == RestPerGaussian(shDegree) IN
  /\ pc = "compact" /\ i = count
  /\ kept # 0
  /\ count' = kept
  /\ column' = [k \in Column |-> [g \in 0 .. kept - 1 |-> column[k][g]]]
  /\ rest' = [e \in 0 .. kept * per - 1 |-> rest[e]]
  /\ pc' = "degree"
  /\ UNCHANGED <<source, options, shDegree, scaled, i, kept, c>>

KeepDegree ==
  /\ pc = "degree"
  /\ EffectiveShDegree(options, shDegree) = shDegree
  /\ pc' = "done"
  /\ UNCHANGED <<source, options, count, shDegree, column, rest, scaled, i,
                 kept, c>>

BeginTruncate ==
  /\ pc = "degree"
  /\ EffectiveShDegree(options, shDegree) # shDegree
  /\ pc' = "truncate"
  /\ i' = 0 /\ c' = 0
  /\ UNCHANGED <<source, options, count, shDegree, column, rest, scaled, kept>>

oldRest == RestPerGaussian(shDegree)
newRest == RestPerGaussian(EffectiveShDegree(options, shDegree))

TruncateCoefficient ==
  /\ pc = "truncate" /\ i < count /\ c < newRest
  /\ rest' = [rest EXCEPT ![i * newRest + c] = rest[i * oldRest + c]]
  /\ c' = c + 1
  /\ UNCHANGED <<source, options, pc, count, shDegree, column, scaled, i, kept>>

\* Slip: the coefficient index is not reset for the next Gaussian.
TruncateNext_NoReset ==
  /\ pc = "truncate" /\ i < count /\ c = newRest
  /\ i' = i + 1
  /\ UNCHANGED <<source, options, pc, count, shDegree, column, rest, scaled,
                 kept, c>>
TruncateNext ==
  /\ pc = "truncate" /\ i < count /\ c = newRest
  /\ i' = i + 1
  /\ c' = 0
  /\ UNCHANGED <<source, options, pc, count, shDegree, column, rest, scaled,
                 kept>>

ShrinkRest ==
  /\ pc = "truncate" /\ i = count
  /\ rest' = [e \in 0 .. count * newRest - 1 |-> rest[e]]
  /\ shDegree' = EffectiveShDegree(options, shDegree)
  /\ pc' = "done"
  /\ UNCHANGED <<source, options, count, column, scaled, i, kept, c>>

Next ==
  \/ ScaleScales
  \/ DropGaussian \/ KeepInPlace \/ MoveSurvivor \/ MoveRest \/ SurvivorMoved
  \/ FailAllFiltered \/ ShrinkToKept
  \/ KeepDegree \/ BeginTruncate \/ TruncateCoefficient \/ TruncateNext
  \/ ShrinkRest

(* The function runs to its return on the caller's thread.                 *)
Spec == Init /\ [][Next]_vars /\ WF_vars(Next)
-----------------------------------------------------------------------------
Survivors == {g \in 0 .. source.count - 1 :
                source.opacity[g] >= options.opacityThreshold}

SurvivorsBelow(g) == {h \in Survivors : h < g}
Rank(g) == Cardinality(SurvivorsBelow(g))

Compacting == pc \in {"compact", "moveRest"}
Compacted  == pc \in {"degree", "truncate", "done"}

(* Types; the arrays always have the lengths the counters claim.           *)
TypeOK ==
  /\ source \in Sources
  /\ options \in Options
  /\ pc \in {"scale", "compact", "moveRest", "degree", "truncate", "done",
             "failed"}
  /\ count \in 0 .. source.count
  /\ shDegree \in 0 .. source.shDegree
  /\ scaled \in BOOLEAN
  /\ i \in 0 .. source.count
  /\ kept \in 0 .. source.count
  /\ c \in 0 .. RestPerGaussian(source.shDegree)
  /\ column \in [Column -> [0 .. count - 1 -> 0 .. source.count - 1]]
  /\ rest \in [0 .. count * RestPerGaussian(shDegree) - 1 ->
               (0 .. source.count - 1) \X
                 (0 .. RestPerGaussian(source.shDegree) - 1)]

(* Gaussian g of the source sits whole at index p of the arrays.           *)
AttributesAt(p, g) == \A k \in Column : column[k][p] = g
RestAt(p, g, per) == \A d \in 0 .. per - 1 : rest[p * per + d] = <<g, d>>

sourceRest == RestPerGaussian(source.shDegree)

(* Compaction reads ahead of where it writes: until the loop has passed a  *)
(* Gaussian, all of its elements are the decoded ones                      *)
(* (GaussianPlyImportOptions.cpp:146-162 copies within one array).         *)
NoReadAfterOverwrite ==
  (pc = "scale" \/ Compacting) =>
    /\ count = source.count /\ shDegree = source.shDegree
    /\ kept <= i
    /\ \A g \in i .. source.count - 1 :
         AttributesAt(g, g) /\ RestAt(g, g, sourceRest)

(* Every survivor the loop has passed sits at its rank, whole: its five    *)
(* attributes and all its rest coefficients.                               *)
SurvivorsPlaced ==
  /\ pc = "scale" => i = 0 /\ kept = 0
  /\ Compacting =>
       /\ options.opacityThreshold >= 0
       /\ kept = Rank(i)
       /\ \A g \in SurvivorsBelow(i) :
            AttributesAt(Rank(g), g) /\ RestAt(Rank(g), g, sourceRest)
  /\ pc = "moveRest" =>
       /\ i \in Survivors /\ kept < i
       /\ c <= sourceRest
       /\ AttributesAt(kept, i)
       /\ \A d \in 0 .. c - 1 : rest[kept * sourceRest + d] = <<i, d>>
  /\ pc = "failed" => Survivors = {}
  /\ Compacted =>
       /\ count = Cardinality(Survivors) /\ count > 0
       /\ \A g \in Survivors : AttributesAt(Rank(g), g)

(* Re-packing at the smaller degree never overwrites a coefficient it has  *)
(* yet to read, although it writes into the array it reads                 *)
(* (GaussianPlyImportOptions.cpp:190-195).                                 *)
TruncationInPlace ==
  /\ pc \in {"degree", "truncate"} => shDegree = source.shDegree
  /\ pc = "degree" => \A g \in Survivors : RestAt(Rank(g), g, sourceRest)
  /\ pc = "truncate" =>
       /\ newRest < oldRest
       /\ i <= count /\ c <= newRest
       /\ \A g \in Survivors :
            LET r == Rank(g)
                copied(d) == r < i \/ (r = i /\ d < c)
            IN  /\ \A d \in 0 .. newRest - 1 :
                     copied(d) => rest[r * newRest + d] = <<g, d>>
                /\ \A d \in 0 .. oldRest - 1 :
                     ~copied(d) /\ r >= i => rest[r * oldRest + d] = <<g, d>>
  /\ pc = "done" =>
       /\ shDegree = EffectiveShDegree(options, source.shDegree)
       /\ \A g \in Survivors : RestAt(Rank(g), g, RestPerGaussian(shDegree))

IInv == TypeOK /\ NoReadAfterOverwrite /\ SurvivorsPlaced /\ TruncationInPlace

Cloud == [count |-> count, shDegree |-> shDegree, column |-> column,
          rest |-> rest]

(* What the caller sees: nothing of the cloud before the call returns.     *)
Outcome == IF pc = "done" THEN "ok" ELSE IF pc = "failed" THEN "failed"
           ELSE "pending"
Result  == IF pc = "done" THEN Cloud ELSE <<>>

Promise == INSTANCE ImportOptionsSpec WITH outcome <- Outcome, result <- Result

(* The in-place loops return exactly the filtered, truncated cloud, and    *)
(* fail exactly when the threshold removed every Gaussian.                 *)
ImplementsPromise == Promise!Spec

(* Both loops end: the call returns.                                       *)
Returns == <>(pc \in {"done", "failed"})
=============================================================================
