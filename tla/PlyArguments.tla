---------------------------- MODULE PlyArguments ----------------------------
(***************************************************************************)
(* ParseImportOptions of the gaussian-ply plugin: three optional arguments *)
(* in a fixed order, each parsed, range-checked and stored, or the call    *)
(* fails.                                                                  *)
(*                                                                         *)
(* Data abstraction: an argument's text is the integer it spells, or no    *)
(* number; a float argument counts multiples of 1/One.  The integer types  *)
(* of the platform keep their two ranges.                                  *)
(***************************************************************************)
EXTENDS GaussianCloud

CONSTANTS
  IntMax, LongMax,     \* the largest int and the largest long
  One,                 \* the float 1.0
  FloatMax,            \* the largest finite float
  Numbers              \* the numbers an argument may spell

ASSUME WidthAssumption ==
  IntMax \in Nat /\ LongMax \in Nat /\ 3 <= IntMax /\ IntMax <= LongMax
ASSUME NumbersAssumption == Numbers \subseteq Int
ASSUME FloatAssumption == One \in Nat \ {0} /\ FloatMax \in Nat /\ One <= FloatMax

Absent == [kind |-> "absent", value |-> 0]
Texts  == [kind : {"number"}, value : Numbers] \cup [kind : {"junk"}, value : {0}]

VARIABLES
  arguments,   \* the text of each known key, Absent when it is not given
  options,     \* GaussianPlyImportOptions
  lookup       \* the key being looked at, or how the call returned

Keys == {"shDegree", "opacityThreshold", "scaleMultiplier"}

Defaults == [shDegree |-> -1, opacityThreshold |-> -1, scaleMultiplier |-> One]

LongMin == -LongMax - 1

(* strtol stops at the ends of long.                                       *)
ToLong(n) == IF n > LongMax THEN LongMax ELSE IF n < LongMin THEN LongMin ELSE n

(* static_cast<int> keeps the low bits.                                    *)
ToInt(n) ==
  LET low == n % (2 * (IntMax + 1))
  IN  IF low > IntMax THEN low - 2 * (IntMax + 1) ELSE low

ParsesAsInt(text)  == text.kind = "number"
ParseFullInt(text) == ToInt(ToLong(text.value))

(* The stream fails on a number outside the float range.                   *)
ParsesAsFloat(text) ==
  text.kind = "number" /\ text.value \in -FloatMax .. FloatMax

(* One lookup: an absent key is passed over; a present one is stored if it *)
(* is accepted and otherwise ends the call.                                *)
Lookup(key, accepted, value, next) ==
  /\ lookup = key
  /\ \/ /\ arguments[key] = Absent
        /\ lookup' = next /\ UNCHANGED options
     \/ /\ arguments[key] # Absent /\ accepted
        /\ options' = [options EXCEPT ![key] = value]
        /\ lookup' = next
     \/ /\ arguments[key] # Absent /\ ~accepted
        /\ lookup' = "failed" /\ UNCHANGED options
  /\ UNCHANGED arguments

\* Slip: only the upper end of the range is checked.
AcceptsShDegree_UpperOnly(text) ==
  ParsesAsInt(text) /\ ParseFullInt(text) <= 3
AcceptsShDegree(text) ==
  ParsesAsInt(text) /\ ParseFullInt(text) >= 0 /\ ParseFullInt(text) <= 3

AcceptsThreshold(text) ==
  ParsesAsFloat(text) /\ text.value >= 0 /\ text.value <= One

AcceptsMultiplier(text) == ParsesAsFloat(text) /\ text.value > 0

ShDegree ==
  LET text == arguments["shDegree"] IN
  Lookup("shDegree", AcceptsShDegree(text), ParseFullInt(text), "opacityThreshold")

OpacityThreshold ==
  LET text == arguments["opacityThreshold"] IN
  Lookup("opacityThreshold", AcceptsThreshold(text), text.value, "scaleMultiplier")

ScaleMultiplier ==
  LET text == arguments["scaleMultiplier"] IN
  Lookup("scaleMultiplier", AcceptsMultiplier(text), text.value, "done")

ParseImportOptions == ShDegree \/ OpacityThreshold \/ ScaleMultiplier
-----------------------------------------------------------------------------
(* The values the header documents as valid for a key.                     *)
Valid(key) ==
  CASE key = "shDegree"         -> 0 .. 3
    [] key = "opacityThreshold" -> 0 .. One
    [] OTHER                    -> 1 .. FloatMax

IsValid(key) ==
  \/ arguments[key] = Absent
  \/ arguments[key].kind = "number" /\ arguments[key].value \in Valid(key)

(* Arguments that are all valid are accepted and arrive unchanged, an      *)
(* absent one as its default; and no accepted options leave the ranges     *)
(* ApplyImportOptions relies on, whatever was spelled.                     *)
ValidArgumentsArrive ==
  /\ (\A key \in Keys : IsValid(key)) =>
       /\ lookup # "failed"
       /\ lookup = "done" =>
            options = [key \in Keys |-> IF arguments[key] = Absent
                                        THEN Defaults[key] ELSE arguments[key].value]
  /\ lookup = "done" =>
       /\ options.shDegree \in -1 .. kMaxShDegree
       /\ options.opacityThreshold \in {-1} \cup 0 .. One
       /\ options.scaleMultiplier \in 1 .. FloatMax

(* "known keys with unparseable or out-of-range values are errors"         *)
(* (GaussianPlyImportOptions.h:28-30).                                     *)
OutOfRangeIsAnError ==
  lookup = "done" => \A key \in Keys : IsValid(key)
=============================================================================
