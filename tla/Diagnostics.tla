----------------------------- MODULE Diagnostics -----------------------------
(***************************************************************************)
(* Sequences of early returns: the first check that fails gives a call its *)
(* diagnostic.                                                             *)
(***************************************************************************)
EXTENDS Naturals

NoProblem == ""

Check(fails, code) == IF fails THEN code ELSE NoProblem

FirstFailure(codes) ==
  LET failing == {n \in DOMAIN codes : codes[n] # NoProblem}
  IN  IF failing = {} THEN NoProblem
      ELSE codes[CHOOSE n \in failing : \A m \in failing : n <= m]
=============================================================================
