----------------------------- MODULE PlyPrelude -----------------------------
(***************************************************************************)
(* What GaussianPlyFileFormat::Read decides before it reads a payload:     *)
(* the arguments are parsed, then the header is checked, against what      *)
(* routing looked at and what the decoder goes on to take.                 *)
(***************************************************************************)
EXTENDS PlyHeader, PlyArguments

CONSTANT Calls      \* the arguments of a call and the header it meets

ASSUME CallsAssumption ==
  \A call \in Calls :
    call.arguments \in [Keys -> Texts \cup {Absent}] /\ IsHeader(call.header)

VARIABLES candidate, verdict

preludeVars == <<arguments, options, lookup, candidate, verdict>>

\* Slip: the loop reads one coefficient more than a channel has.
RestColumn_OffByOne(channel, coefficient) ==
  channel * RestPerChannel(candidate) + coefficient + 1
(* The property the assembly loop takes for a channel of a coefficient.    *)
RestColumn(channel, coefficient) ==
  channel * RestPerChannel(candidate) + coefficient

PreludeInit ==
  /\ \E call \in Calls : arguments = call.arguments /\ candidate = call.header
  /\ options = Defaults /\ lookup = "shDegree" /\ verdict = "unchecked"

TakeArguments == ParseImportOptions /\ UNCHANGED <<candidate, verdict>>

Validate ==
  /\ lookup = "done" /\ verdict = "unchecked"
  /\ verdict' = ValidateHeaderLayout(candidate)
  /\ UNCHANGED <<arguments, options, lookup, candidate>>

PreludeNext == TakeArguments \/ Validate

PreludeSpec == PreludeInit /\ [][PreludeNext]_preludeVars
-----------------------------------------------------------------------------
HeaderAccepted == verdict = ""

(* The chain of early returns accepts a header exactly when it has a       *)
(* Gaussian layout of a supported degree - no combination of individually  *)
(* plausible properties slips through, none that is fine is refused - and  *)
(* routing, with a list of its own, withholds none of them from Read       *)
(* (GaussianPlyDecoder.cpp:85-187,40-49).                                  *)
AcceptsGaussianLayouts ==
  verdict # "unchecked" =>
    /\ HeaderAccepted <=> IsGaussianLayout(candidate)
    /\ HeaderAccepted => CanReadHeader(candidate)

(* The assembly loop looks its columns up with map::at, which throws on a  *)
(* missing index: every index it computes was declared, and every declared *)
(* one is used (GaussianPlyDecoder.cpp:501-512).                           *)
EveryColumnTaken ==
  HeaderAccepted =>
    {RestColumn(channel, coefficient) :
       channel \in 0 .. 2, coefficient \in 0 .. RestPerChannel(candidate) - 1}
      = Indices(candidate)
=============================================================================
