------------------------------ MODULE PlyHeader ------------------------------
(***************************************************************************)
(* What the gaussian-ply decoder decides from a PLY header alone           *)
(* (ValidateHeaderLayout): the dialect, the required properties, the       *)
(* f_rest_* numbering and the degree it stands for.                        *)
(*                                                                         *)
(* A header is a record: count, the declared Gaussians; scalar and list,   *)
(* the required properties declared as a scalar and otherwise; rest, the   *)
(* f_rest_* properties in file order, each with the index its name spells  *)
(* (several names spell one index: f_rest_1, f_rest_01); unknown, how many *)
(* further properties there are.                                           *)
(***************************************************************************)
EXTENDS GaussianCloud, Sequences, Diagnostics

CONSTANT kMaxGaussianCount    \* the shared import limit

ASSUME LimitAssumption == kMaxGaussianCount \in Nat

Signature == {"scale_0", "rot_0", "opacity", "f_dc_0"}

(* In the order they are looked for; "x" stands for the ten required       *)
(* properties outside the signature.                                       *)
RequiredProperties == <<"x", "scale_0", "rot_0", "opacity", "f_dc_0">>

BadName == -1    \* an f_rest_ name whose suffix is not a number

RestProperty(index, isScalar) == [index |-> index, scalar |-> isScalar]

(* The parser counts in an unsigned type and numbers the f_rest_* names    *)
(* from 0.                                                                 *)
IsHeader(header) ==
  /\ header.count \in Nat
  /\ header.rest \in Seq([index : Nat \cup {BadName}, scalar : BOOLEAN])

Declared(header) == header.scalar \cup header.list

(* What routing asks of a file before it offers it to the plugin.          *)
CanReadHeader(header) == Signature \subseteq Declared(header)

Indices(header) == {header.rest[n].index : n \in DOMAIN header.rest}

RequiredProblem(header, name) ==
  FirstFailure(<<
    Check(name \notin Declared(header), "missingRequiredProperty"),
    Check(name \in header.list, "unsupportedPropertyType")>>)

\* Slip: the second property of an index replaces the first.
RestProblem_NoDuplicates(header, n) ==
  FirstFailure(<<
    Check(header.rest[n].index = BadName, "invalidRestPropertyName"),
    Check(~header.rest[n].scalar, "unsupportedPropertyType")>>)
RestProblem(header, n) ==
  LET property == header.rest[n] IN
  FirstFailure(<<
    Check(property.index = BadName, "invalidRestPropertyName"),
    Check(~property.scalar, "unsupportedPropertyType"),
    Check(\E m \in 1 .. n - 1 : header.rest[m].index = property.index,
          "duplicateRestIndex")>>)

(* The number of indices is the size of the map they were entered into.    *)
RestCount(header) == Cardinality(Indices(header))

Contiguous(header) == \A n \in 0 .. RestCount(header) - 1 : n \in Indices(header)

RestPerChannel(header) == RestCount(header) \div 3

HeaderShDegree(header) == InferShDegree(RestPerChannel(header) + 1)

(* The diagnostic of the first check that fails, "" for a layout that is   *)
(* accepted.                                                               *)
ValidateHeaderLayout(header) ==
  FirstFailure(<<
    Check(Declared(header) \cap Signature = {}, "notGaussianDialect"),
    Check(header.count = 0, "emptyVertexElement"),
    Check(header.count > kMaxGaussianCount, "importLimitExceeded"),
    FirstFailure([n \in DOMAIN RequiredProperties |->
                    RequiredProblem(header, RequiredProperties[n])]),
    FirstFailure([n \in DOMAIN header.rest |-> RestProblem(header, n)]),
    Check(~Contiguous(header), "nonContiguousRestIndices"),
    Check(RestCount(header) % 3 # 0, "restCountNotRgb"),
    Check(HeaderShDegree(header) = NoDegree, "invalidShDegree"),
    Check(HeaderShDegree(header) > kMaxShDegree, "unsupportedShDegree")>>)
-----------------------------------------------------------------------------
(* The layouts the import is for, said without the order of the checks:    *)
(* between one Gaussian and the limit, every required property a scalar,   *)
(* and the f_rest_* properties numbered 0, 1, 2, ... once each, as many as *)
(* three channels of a supported degree need.                              *)
IsGaussianLayout(header) ==
  /\ header.count \in 1 .. kMaxGaussianCount
  /\ \A n \in DOMAIN RequiredProperties :
       RequiredProperties[n] \in header.scalar \ header.list
  /\ \A n \in DOMAIN header.rest : header.rest[n].scalar
  /\ \E degree \in 0 .. kMaxShDegree :
       /\ Len(header.rest) = 3 * RestPerGaussian(degree)
       /\ Indices(header) = 0 .. Len(header.rest) - 1
=============================================================================
