-------------------------- MODULE ImportOptionsSpec --------------------------
(***************************************************************************)
(* What the PLY import options promise, independent of how the cloud is    *)
(* edited: one step turns the decoded cloud into the cloud of the          *)
(* surviving Gaussians, in source order, with the spherical-harmonics      *)
(* coefficients above the effective degree dropped - or fails when no      *)
(* Gaussian survives.  PlyImportOptions edits the arrays in place, one     *)
(* element at a time, and implements this specification.                   *)
(***************************************************************************)
EXTENDS Integers, FiniteSets

CONSTANTS
  Column      \* the per-Gaussian arrays of GaussianCloudData, rest excluded

VARIABLES
  source,     \* the decoded cloud: [count, shDegree, opacity]
  options,    \* the parsed options: [shDegree, opacityThreshold]
  outcome,    \* "pending", "ok" or "failed": what ApplyImportOptions returned
  result      \* the cloud the caller holds once outcome = "ok"

vars == <<source, options, outcome, result>>

(* Rest coefficients (per channel triple) one Gaussian carries at a degree. *)
RestPerGaussian(degree) == (degree + 1) * (degree + 1) - 1

(* The effective degree is the smaller of the source's and the requested.  *)
IsEffectiveShDegree(degree, opts, src) ==
  /\ degree \in {src.shDegree, opts.shDegree}
  /\ degree >= 0
  /\ degree <= src.shDegree
  /\ opts.shDegree >= 0 => degree <= opts.shDegree

Survives(opts, src, g) ==
  opts.opacityThreshold < 0 \/ src.opacity[g] >= opts.opacityThreshold

Survivors(opts, src) == {g \in 0 .. src.count - 1 : Survives(opts, src, g)}

(* Position of source Gaussian g among the survivors. *)
Rank(opts, src, g) == Cardinality({h \in Survivors(opts, src) : h < g})

(* cloud is the survivors of src, in order, truncated to the effective     *)
(* degree.  A cloud's arrays hold the index of the source Gaussian (and    *)
(* coefficient) each element was decoded for.                              *)
IsFiltered(opts, src, cloud) ==
  LET per    == RestPerGaussian(cloud.shDegree)
      count  == Cardinality(Survivors(opts, src))
  IN  /\ cloud.count = count
      /\ IsEffectiveShDegree(cloud.shDegree, opts, src)
      /\ \A k \in Column : DOMAIN cloud.column[k] = 0 .. count - 1
      /\ DOMAIN cloud.rest = 0 .. count * per - 1
      /\ \A g \in Survivors(opts, src) :
           /\ \A k \in Column : cloud.column[k][Rank(opts, src, g)] = g
           /\ \A d \in 0 .. per - 1 :
                cloud.rest[Rank(opts, src, g) * per + d] = <<g, d>>

Init == outcome = "pending"

Apply ==
  /\ outcome = "pending"
  /\ UNCHANGED <<source, options>>
  /\ \/ /\ Survivors(options, source) = {}
        /\ outcome' = "failed"
     \/ /\ Survivors(options, source) # {}
        /\ outcome' = "ok"
        /\ IsFiltered(options, source, result')

Spec == Init /\ [][Apply]_vars
=============================================================================
