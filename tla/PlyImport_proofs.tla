--------------------------- MODULE PlyImport_proofs ---------------------------
(***************************************************************************)
(* The import of PLY files, in three parts.                                *)
(*                                                                         *)
(* The chain of header checks accepts exactly the Gaussian layouts, for    *)
(* every header; and where the columns of an accepted one are.             *)
(*                                                                         *)
(* What Read decides before it reads a payload, for every header and every *)
(* arguments: a header is accepted exactly when it has a Gaussian layout,  *)
(* the assembly loop takes exactly the f_rest_* properties that were       *)
(* declared, and valid arguments arrive as they were spelled.              *)
(*                                                                         *)
(* What a call authors has passed every check, in the version each check   *)
(* looked at, although the file may be another one at every open; its      *)
(* statistics are those of what it authors; and it implements its promise. *)
(* For all files, requests and replacements.                               *)
(***************************************************************************)
EXTENDS PlyImport, PlyPrelude, FiniteSetTheorems, WellFoundedInduction, TLAPS

(* ---- Chains of checks -------------------------------------------------- *)

LEMMA HasLeast ==
  ASSUME NEW S, S \subseteq Nat, S # {}
  PROVE  \E x \in S : \A y \in S : x <= y
<1> DEFINE R == OpToRel(<, Nat)
<1>1. R = {p \in Nat \X Nat : p[1] < p[2]}
  BY DEF OpToRel
<1>2. IsWellFoundedOn(R, Nat)
  BY NatLessThanWellFounded
<1> HIDE DEF R
<1>3. PICK x \in S : \A y \in S : ~(<<y, x>> \in R)
  BY <1>2, WFMin
<1>4. \A y \in S : ~(y < x)
  BY <1>1, <1>3
<1> QED BY <1>3, <1>4

(* A chain is without a diagnostic exactly when none of its checks fails.  *)
LEMMA NoFailure ==
  ASSUME NEW codes, DOMAIN codes \subseteq Nat
  PROVE  FirstFailure(codes) = NoProblem
           <=> \A n \in DOMAIN codes : codes[n] = NoProblem
<1> DEFINE failing == {n \in DOMAIN codes : codes[n] # NoProblem}
<1>1. CASE failing = {}
  BY <1>1 DEF FirstFailure
<1>2. CASE failing # {}
  <2>1. PICK m \in failing : \A n \in failing : m <= n
    BY <1>2, HasLeast
  <2>2. (CHOOSE n \in failing : \A k \in failing : n <= k) \in failing
    BY <2>1
  <2>3. FirstFailure(codes) # NoProblem
    BY <1>2, <2>2 DEF FirstFailure
  <2> QED BY <1>2, <2>3
<1> QED BY <1>1, <1>2

LEMMA TwoPass ==
  ASSUME NEW a, NEW b
  PROVE  FirstFailure(<<a, b>>) = NoProblem <=> a = NoProblem /\ b = NoProblem
<1> DEFINE codes == <<a, b>>
<1>1. DOMAIN codes = {1, 2} /\ codes[1] = a /\ codes[2] = b
  OBVIOUS
<1> HIDE DEF codes
<1> QED BY <1>1, NoFailure DEF codes

LEMMA ThreePass ==
  ASSUME NEW a, NEW b, NEW c
  PROVE  FirstFailure(<<a, b, c>>) = NoProblem
           <=> a = NoProblem /\ b = NoProblem /\ c = NoProblem
<1> DEFINE codes == <<a, b, c>>
<1>1. DOMAIN codes = {1, 2, 3} /\ codes[1] = a /\ codes[2] = b /\ codes[3] = c
  OBVIOUS
<1> HIDE DEF codes
<1> QED BY <1>1, NoFailure DEF codes

LEMMA NinePass ==
  ASSUME NEW a, NEW b, NEW c, NEW d, NEW e, NEW f, NEW g, NEW h, NEW i
  PROVE  FirstFailure(<<a, b, c, d, e, f, g, h, i>>) = NoProblem
           <=> /\ a = NoProblem /\ b = NoProblem /\ c = NoProblem
               /\ d = NoProblem /\ e = NoProblem /\ f = NoProblem
               /\ g = NoProblem /\ h = NoProblem /\ i = NoProblem
<1> DEFINE codes == <<a, b, c, d, e, f, g, h, i>>
<1>1. /\ DOMAIN codes = 1 .. 9
      /\ codes[1] = a /\ codes[2] = b /\ codes[3] = c /\ codes[4] = d
      /\ codes[5] = e /\ codes[6] = f /\ codes[7] = g /\ codes[8] = h /\ codes[9] = i
  OBVIOUS
<1>2. \A P : (\A n \in 1 .. 9 : P[n] = NoProblem)
        <=> /\ P[1] = NoProblem /\ P[2] = NoProblem /\ P[3] = NoProblem
            /\ P[4] = NoProblem /\ P[5] = NoProblem /\ P[6] = NoProblem
            /\ P[7] = NoProblem /\ P[8] = NoProblem /\ P[9] = NoProblem
  <2>1. 1 .. 9 = {1, 2, 3, 4, 5, 6, 7, 8, 9}
    OBVIOUS
  <2> QED BY <2>1, Zenon
<1> HIDE DEF codes
<1>3. FirstFailure(codes) = NoProblem <=> \A n \in 1 .. 9 : codes[n] = NoProblem
  BY <1>1, NoFailure
<1>4. FirstFailure(codes) = NoProblem
        <=> /\ a = NoProblem /\ b = NoProblem /\ c = NoProblem
            /\ d = NoProblem /\ e = NoProblem /\ f = NoProblem
            /\ g = NoProblem /\ h = NoProblem /\ i = NoProblem
  BY <1>1, <1>2, <1>3, Zenon
<1> QED BY <1>4 DEF codes

(* ---- The degree of a coefficient count --------------------------------- *)

(* A square has one rounded root, its root.                                *)
LEMMA RootIsUnique ==
  ASSUME NEW s \in Nat, NEW t \in Nat, IsRoundedRoot(s, t * t)
  PROVE  s = t
<1>1. s * s - s < t * t /\ t * t <= s * s + s
  BY DEF IsRoundedRoot
<1>2. ~(s < t)
  <2> SUFFICES ASSUME s < t PROVE FALSE
    OBVIOUS
  <2>1. PICK k \in Nat : t = s + 1 + k
    <3>1. t - s - 1 \in Nat /\ t = s + 1 + (t - s - 1)
      OBVIOUS
    <3> QED BY <3>1
  <2>2. t * t = s * s + s + s + 1 + 2 * (s * k) + k + k + k * k
    BY <2>1
  <2>3. s * s \in Nat /\ s * k \in Nat /\ k * k \in Nat
    BY <2>1
  <2> QED BY <1>1, <2>2, <2>3
<1>3. ~(t < s)
  <2> SUFFICES ASSUME t < s PROVE FALSE
    OBVIOUS
  <2>1. PICK k \in Nat : s = t + 1 + k
    <3>1. s - t - 1 \in Nat /\ s = t + 1 + (s - t - 1)
      OBVIOUS
    <3> QED BY <3>1
  <2>2. s * s - s = t * t + t + 2 * (t * k) + k + k * k
    BY <2>1
  <2>3. t * t \in Nat /\ t * k \in Nat /\ k * k \in Nat
    BY <2>1
  <2> QED BY <1>1, <2>2, <2>3
<1> QED BY <1>2, <1>3

LEMMA RootIsRounded ==
  ASSUME NEW t \in Nat \ {0}
  PROVE  IsRoundedRoot(t, t * t) /\ t \in 1 .. t * t
<1>1. t * t \in Nat /\ t <= t * t
  <2>1. PICK k \in Nat : t = k + 1
    <3>1. t - 1 \in Nat /\ t = (t - 1) + 1
      OBVIOUS
    <3> QED BY <3>1
  <2>2. t * t = k * k + k + t /\ k * k \in Nat
    BY <2>1
  <2> QED BY <2>2
<1>2. t * t - t < t * t /\ t * t <= t * t + t
  BY <1>1
<1> QED BY <1>1, <1>2 DEF IsRoundedRoot

(* A square stands for the degree below its root.                          *)
LEMMA InferSquare ==
  ASSUME NEW t \in Nat \ {0}
  PROVE  InferShDegree(t * t) = t - 1
<1> DEFINE n == t * t
           Rounded(side) == IsRoundedRoot(side, n)
<1>1. Rounded(t) /\ t \in 1 .. n /\ t * t = n
  BY RootIsRounded
<1>2. \A s \in 1 .. n : Rounded(s) => s = t
  <2> TAKE s \in 1 .. n
  <2>1. s \in Nat
    BY <1>1
  <2> QED BY <2>1, RootIsUnique
<1>3. (CHOOSE side \in 1 .. n : Rounded(side)) = t
  <2> HIDE DEF n, Rounded
  <2>1. \E side \in 1 .. n : Rounded(side)
    BY <1>1
  <2>2. /\ (CHOOSE side \in 1 .. n : Rounded(side)) \in 1 .. n
        /\ Rounded(CHOOSE side \in 1 .. n : Rounded(side))
    BY <2>1, Zenon
  <2> QED BY <1>2, <2>2, Zenon
<1>4. \E side \in 1 .. n : IsRoundedRoot(side, n) /\ side * side = n
  BY <1>1
<1> HIDE DEF n
<1>5. InferShDegree(n) = (CHOOSE side \in 1 .. n : IsRoundedRoot(side, n)) - 1
  BY <1>4, Zenon DEF InferShDegree
<1>6. InferShDegree(n) = t - 1
  BY <1>3, <1>5
<1> QED BY <1>6 DEF n

(* And only a square stands for one.                                       *)
LEMMA InferDegree ==
  ASSUME NEW n \in Nat, InferShDegree(n) # NoDegree
  PROVE  InferShDegree(n) \in Nat /\ n = CoefficientsPerGaussian(InferShDegree(n))
<1>1. PICK t \in 1 .. n : t * t = n
  BY DEF InferShDegree
<1>2. InferShDegree(n) = t - 1
  BY <1>1, InferSquare
<1>3. t - 1 \in Nat /\ (t - 1) + 1 = t
  OBVIOUS
<1> QED BY <1>1, <1>2, <1>3 DEF CoefficientsPerGaussian

(* ---- The layouts of a header ------------------------------------------- *)

LEMMA RestFacts ==
  ASSUME NEW h, IsHeader(h)
  PROVE  /\ Len(h.rest) \in Nat /\ DOMAIN h.rest = 1 .. Len(h.rest)
         /\ \A n \in DOMAIN h.rest :
              h.rest[n].index \in Nat \cup {BadName} /\ h.rest[n].scalar \in BOOLEAN
<1> DEFINE P == [index : Nat \cup {BadName}, scalar : BOOLEAN]
           s == h.rest
<1>1. s \in Seq(P)
  BY DEF IsHeader
<1>2. \A p \in P : p.index \in Nat \cup {BadName} /\ p.scalar \in BOOLEAN
  OBVIOUS
<1> HIDE DEF P, s
<1>3. Len(s) \in Nat /\ DOMAIN s = 1 .. Len(s) /\ \A n \in DOMAIN s : s[n] \in P
  BY <1>1
<1>4. \A n \in DOMAIN s : s[n].index \in Nat \cup {BadName} /\ s[n].scalar \in BOOLEAN
  BY <1>2, <1>3
<1> QED BY <1>3, <1>4 DEF s

LEMMA RequiredAccepted ==
  ASSUME NEW h
  PROVE  FirstFailure([n \in DOMAIN RequiredProperties |->
                         RequiredProblem(h, RequiredProperties[n])]) = NoProblem
           <=> \A n \in DOMAIN RequiredProperties :
                 RequiredProperties[n] \in h.scalar \ h.list
<1> DEFINE codes == [n \in DOMAIN RequiredProperties |->
                       RequiredProblem(h, RequiredProperties[n])]
<1>1. DOMAIN codes = DOMAIN RequiredProperties /\ DOMAIN codes \subseteq Nat
  BY DEF RequiredProperties
<1>2. ASSUME NEW name
      PROVE  RequiredProblem(h, name) = NoProblem <=> name \in h.scalar \ h.list
  <2>1. /\ Check(name \notin Declared(h), "missingRequiredProperty") = NoProblem
             <=> name \in Declared(h)
        /\ Check(name \in h.list, "unsupportedPropertyType") = NoProblem
             <=> name \notin h.list
    BY DEF Check, NoProblem
  <2>2. RequiredProblem(h, name) = NoProblem <=> name \in Declared(h) /\ name \notin h.list
    BY <2>1, TwoPass DEF RequiredProblem
  <2> QED BY <2>2 DEF Declared
<1>3. \A n \in DOMAIN codes : codes[n] = RequiredProblem(h, RequiredProperties[n])
  OBVIOUS
<1>4. FirstFailure(codes) = NoProblem <=> \A n \in DOMAIN codes : codes[n] = NoProblem
  BY <1>1, NoFailure
<1> HIDE DEF codes
<1>5. FirstFailure(codes) = NoProblem
        <=> \A n \in DOMAIN RequiredProperties :
              RequiredProperties[n] \in h.scalar \ h.list
  BY <1>1, <1>2, <1>3, <1>4
<1> QED BY <1>5 DEF codes

LEMMA RestAccepted ==
  ASSUME NEW h, IsHeader(h)
  PROVE  FirstFailure([n \in DOMAIN h.rest |-> RestProblem(h, n)]) = NoProblem
           <=> \A n \in DOMAIN h.rest :
                 /\ h.rest[n].index # BadName /\ h.rest[n].scalar
                 /\ \A m \in 1 .. n - 1 : h.rest[m].index # h.rest[n].index
<1> DEFINE codes == [n \in DOMAIN h.rest |-> RestProblem(h, n)]
           Accepts(n) == /\ h.rest[n].index # BadName /\ h.rest[n].scalar
                         /\ \A m \in 1 .. n - 1 : h.rest[m].index # h.rest[n].index
<1>1. DOMAIN codes = DOMAIN h.rest /\ DOMAIN codes \subseteq Nat
  BY RestFacts
<1>2. ASSUME NEW n \in DOMAIN h.rest
      PROVE  RestProblem(h, n) = NoProblem <=> Accepts(n)
  <2> DEFINE a == Check(h.rest[n].index = BadName, "invalidRestPropertyName")
             b == Check(~h.rest[n].scalar, "unsupportedPropertyType")
             c == Check(\E m \in 1 .. n - 1 : h.rest[m].index = h.rest[n].index,
                        "duplicateRestIndex")
  <2>1. a = NoProblem <=> h.rest[n].index # BadName
    BY Zenon DEF Check, NoProblem
  <2>2. h.rest[n].scalar \in BOOLEAN
    BY RestFacts
  <2>3. b = NoProblem <=> h.rest[n].scalar
    BY <2>2, Zenon DEF Check, NoProblem
  <2>4. c = NoProblem <=> \A m \in 1 .. n - 1 : h.rest[m].index # h.rest[n].index
    BY Zenon DEF Check, NoProblem
  <2>5. RestProblem(h, n) = FirstFailure(<<a, b, c>>)
    BY DEF RestProblem
  <2> HIDE DEF a, b, c
  <2>6. RestProblem(h, n) = NoProblem <=> a = NoProblem /\ b = NoProblem /\ c = NoProblem
    BY <2>5, ThreePass
  <2> QED BY <2>1, <2>3, <2>4, <2>6
<1>3. \A n \in DOMAIN codes : codes[n] = RestProblem(h, n)
  OBVIOUS
<1>4. FirstFailure(codes) = NoProblem <=> \A n \in DOMAIN codes : codes[n] = NoProblem
  BY <1>1, NoFailure
<1> HIDE DEF codes, Accepts
<1>5. FirstFailure(codes) = NoProblem <=> \A n \in DOMAIN h.rest : Accepts(n)
  BY <1>1, <1>2, <1>3, <1>4
<1> QED BY <1>5 DEF codes, Accepts

(* The function from the positions of the f_rest_* properties to their     *)
(* indices.                                                                *)
IndexOf(h) == [n \in 1 .. Len(h.rest) |-> h.rest[n].index]

LEMMA IndexFacts ==
  ASSUME NEW h, IsHeader(h)
  PROVE  /\ Len(h.rest) \in Nat /\ DOMAIN h.rest = 1 .. Len(h.rest)
         /\ Indices(h) \subseteq Nat \cup {BadName}
         /\ IndexOf(h) \in Surjection(1 .. Len(h.rest), Indices(h))
         /\ IsFiniteSet(Indices(h)) /\ RestCount(h) \in Nat
         /\ RestCount(h) = Len(h.rest)
              <=> IndexOf(h) \in Injection(1 .. Len(h.rest), Indices(h))
<1> DEFINE L == Len(h.rest)
<1>1. /\ L \in Nat /\ DOMAIN h.rest = 1 .. L
      /\ \A n \in 1 .. L : h.rest[n].index \in Nat \cup {BadName}
  BY RestFacts
<1>2. Indices(h) \subseteq Nat \cup {BadName}
  BY <1>1 DEF Indices
<1>3. IndexOf(h) \in Surjection(1 .. L, Indices(h))
  BY <1>1 DEF IndexOf, Indices, Surjection
<1>4. IsFiniteSet(1 .. L) /\ Cardinality(1 .. L) = L
  BY <1>1, FS_Interval
<1>5. /\ IsFiniteSet(Indices(h))
      /\ Cardinality(Indices(h)) = L <=> IndexOf(h) \in Injection(1 .. L, Indices(h))
  BY <1>3, <1>4, FS_Surjection
<1>6. RestCount(h) \in Nat
  BY <1>5, FS_CardinalityType DEF RestCount
<1> QED BY <1>1, <1>2, <1>3, <1>5, <1>6 DEF RestCount

(* Without a repetition there are as many indices as properties, and with  *)
(* as many there is no repetition.                                         *)
LEMMA Unrepeated ==
  ASSUME NEW h, IsHeader(h)
  PROVE  (\A n \in DOMAIN h.rest : \A m \in 1 .. n - 1 :
            h.rest[m].index # h.rest[n].index)
           <=> RestCount(h) = Len(h.rest)
<1> DEFINE L == Len(h.rest)
<1>1. /\ L \in Nat /\ DOMAIN h.rest = 1 .. L
      /\ IndexOf(h) \in Surjection(1 .. L, Indices(h))
      /\ RestCount(h) = L <=> IndexOf(h) \in Injection(1 .. L, Indices(h))
  BY IndexFacts
<1>2. IndexOf(h) \in [1 .. L -> Indices(h)]
  BY <1>1 DEF Surjection
<1>3. IndexOf(h) \in Injection(1 .. L, Indices(h))
        <=> \A m, n \in 1 .. L : h.rest[m].index = h.rest[n].index => m = n
  BY <1>2 DEF Injection, IsInjective, IndexOf
<1>4. (\A m, n \in 1 .. L : h.rest[m].index = h.rest[n].index => m = n)
        <=> \A n \in 1 .. L : \A m \in 1 .. n - 1 : h.rest[m].index # h.rest[n].index
  <2>1. ASSUME \A m, n \in 1 .. L : h.rest[m].index = h.rest[n].index => m = n,
               NEW n \in 1 .. L, NEW m \in 1 .. n - 1
        PROVE  h.rest[m].index # h.rest[n].index
    <3>1. m \in 1 .. L /\ m # n
      BY <1>1
    <3> QED BY <2>1, <3>1
  <2>2. ASSUME \A n \in 1 .. L : \A m \in 1 .. n - 1 : h.rest[m].index # h.rest[n].index,
               NEW m \in 1 .. L, NEW n \in 1 .. L, h.rest[m].index = h.rest[n].index
        PROVE  m = n
    <3>1. m \notin 1 .. n - 1 /\ n \notin 1 .. m - 1
      BY <2>2
    <3> QED BY <1>1, <3>1
  <2> QED BY <2>1, <2>2
<1> QED BY <1>1, <1>3, <1>4

LEMMA IntervalCardinality ==
  ASSUME NEW n \in Nat
  PROVE  Cardinality(0 .. n - 1) = n
<1>1. n - 1 \in Int /\ (0 > n - 1 <=> n = 0)
  OBVIOUS
<1>2. Cardinality(0 .. n - 1) = IF 0 > n - 1 THEN 0 ELSE n - 1 - 0 + 1
  BY <1>1, FS_Interval
<1> QED BY <1>1, <1>2

(* As many numbers from 0 on as there are indices are all the indices.     *)
LEMMA ContiguousIsAll ==
  ASSUME NEW h, IsHeader(h)
  PROVE  Contiguous(h) <=> Indices(h) = 0 .. RestCount(h) - 1
<1> DEFINE I == Indices(h)
           C == RestCount(h)
<1>1. IsFiniteSet(I) /\ C \in Nat /\ C = Cardinality(I)
  BY IndexFacts DEF RestCount
<1>2. Cardinality(0 .. C - 1) = C
  BY <1>1, IntervalCardinality
<1>3. ASSUME 0 .. C - 1 \subseteq I PROVE I = 0 .. C - 1
  BY <1>1, <1>2, <1>3, FS_Subset
<1> QED BY <1>3 DEF Contiguous

(* Every property of the signature is required, as a scalar.               *)
LEMMA SignatureIsRequired ==
  ASSUME NEW h,
         \A n \in DOMAIN RequiredProperties :
           RequiredProperties[n] \in h.scalar \ h.list
  PROVE  CanReadHeader(h) /\ Declared(h) \cap Signature # {}
<1>1. /\ DOMAIN RequiredProperties = 1 .. 5
      /\ RequiredProperties[2] = "scale_0" /\ RequiredProperties[3] = "rot_0"
      /\ RequiredProperties[4] = "opacity" /\ RequiredProperties[5] = "f_dc_0"
  BY DEF RequiredProperties
<1>2. 2 \in 1 .. 5 /\ 3 \in 1 .. 5 /\ 4 \in 1 .. 5 /\ 5 \in 1 .. 5
  OBVIOUS
<1>3. \A name \in Signature : name \in h.scalar
  BY <1>1, <1>2 DEF Signature
<1> QED BY <1>3, Zenon DEF CanReadHeader, Declared, Signature

(* What the last four checks decide, of a header whose properties are      *)
(* numbered without repetition: there are as many as three channels of a   *)
(* degree need, and the degree is the one the header is taken to have.     *)
RestIsGaussian(h) ==
  /\ Contiguous(h) /\ RestCount(h) % 3 = 0
  /\ HeaderShDegree(h) # NoDegree /\ HeaderShDegree(h) <= kMaxShDegree

LEMMA DegreeIsGaussian ==
  ASSUME NEW h, IsHeader(h), RestCount(h) = Len(h.rest)
  PROVE  RestIsGaussian(h)
           <=> \E degree \in 0 .. kMaxShDegree :
                 /\ Len(h.rest) = 3 * RestPerGaussian(degree)
                 /\ Indices(h) = 0 .. Len(h.rest) - 1
<1> DEFINE L == Len(h.rest)
           R == RestPerChannel(h)
           D == HeaderShDegree(h)
<1>1. /\ L \in Nat /\ R = L \div 3 /\ D = InferShDegree(R + 1)
      /\ Contiguous(h) <=> Indices(h) = 0 .. L - 1
  BY RestFacts, ContiguousIsAll DEF RestPerChannel, HeaderShDegree
<1> HIDE DEF L, R, D
<1>2. R \in Nat
  <2>1. \A n \in Nat : n \div 3 \in Nat
    OBVIOUS
  <2> QED BY <1>1, <2>1
<1>3. ASSUME RestIsGaussian(h)
      PROVE  /\ D \in 0 .. kMaxShDegree /\ L = 3 * RestPerGaussian(D)
             /\ Indices(h) = 0 .. L - 1
  <2>1. /\ Contiguous(h) /\ L % 3 = 0 /\ D # NoDegree /\ D <= kMaxShDegree
    BY <1>3 DEF RestIsGaussian, L, D
  <2>2. D \in Nat /\ R + 1 = CoefficientsPerGaussian(D)
    BY <1>1, <1>2, <2>1, InferDegree
  <2>3. L = 3 * R
    BY <1>1, <2>1
  <2>4. RestPerGaussian(D) = R
    <3> DEFINE c == CoefficientsPerGaussian(D)
    <3>1. c = R + 1 /\ RestPerGaussian(D) = c - 1
      BY <2>2 DEF RestPerGaussian
    <3> HIDE DEF c
    <3> QED BY <1>2, <3>1
  <2>5. D \in 0 .. kMaxShDegree
    BY <2>1, <2>2 DEF kMaxShDegree
  <2> QED BY <1>1, <2>1, <2>3, <2>4, <2>5
<1>4. ASSUME NEW degree \in 0 .. kMaxShDegree, L = 3 * RestPerGaussian(degree),
             Indices(h) = 0 .. L - 1
      PROVE  RestIsGaussian(h)
  <2>1. degree \in Nat /\ degree <= kMaxShDegree
    BY DEF kMaxShDegree
  <2> DEFINE t == degree + 1
  <2>2. t \in Nat \ {0} /\ t * t \in Nat /\ t * t >= 1
    <3>1. t * t = degree * degree + degree + degree + 1 /\ degree * degree \in Nat
      BY <2>1
    <3> QED BY <2>1, <3>1
  <2>3. L = 3 * (t * t - 1)
    BY <1>4 DEF RestPerGaussian, CoefficientsPerGaussian
  <2>4. L % 3 = 0 /\ L \div 3 = t * t - 1
    <3> DEFINE q == t * t - 1
    <3>1. q \in Nat /\ L = 3 * q
      BY <2>2, <2>3
    <3> HIDE DEF q
    <3>2. L % 3 = 0 /\ L \div 3 = q
      BY <3>1
    <3> QED BY <3>2 DEF q
  <2>5. R + 1 = t * t
    BY <1>1, <2>2, <2>4
  <2>6. D = t - 1
    BY <1>1, <2>2, <2>5, InferSquare
  <2>7. D = degree
    BY <2>1, <2>6
  <2>8. Contiguous(h)
    BY <1>1, <1>4
  <2>9. D # NoDegree
    BY <2>1, <2>7 DEF NoDegree
  <2>10. RestCount(h) = L
    BY DEF L
  <2> QED BY <2>1, <2>4, <2>7, <2>8, <2>9, <2>10 DEF RestIsGaussian, D
<1>5. RestIsGaussian(h)
        <=> \E degree \in 0 .. kMaxShDegree :
              L = 3 * RestPerGaussian(degree) /\ Indices(h) = 0 .. L - 1
  BY <1>3, <1>4
<1> QED BY <1>5 DEF L

(* The chain of early returns accepts exactly the Gaussian layouts.        *)
THEOREM LayoutIsAccepted ==
  ASSUME NEW h, IsHeader(h)
  PROVE  ValidateHeaderLayout(h) = NoProblem <=> IsGaussianLayout(h)
<1> DEFINE required == FirstFailure([n \in DOMAIN RequiredProperties |->
                                       RequiredProblem(h, RequiredProperties[n])])
           rest     == FirstFailure([n \in DOMAIN h.rest |-> RestProblem(h, n)])
           Scalars  == \A n \in DOMAIN RequiredProperties :
                         RequiredProperties[n] \in h.scalar \ h.list
           Numbered == \A n \in DOMAIN h.rest :
                         /\ h.rest[n].index # BadName /\ h.rest[n].scalar
                         /\ \A m \in 1 .. n - 1 : h.rest[m].index # h.rest[n].index
<1>1. required = NoProblem <=> Scalars
  BY RequiredAccepted
<1>2. rest = NoProblem <=> Numbered
  BY RestAccepted
<1>3. Scalars => Declared(h) \cap Signature # {}
  BY SignatureIsRequired
<1> DEFINE a == Check(Declared(h) \cap Signature = {}, "notGaussianDialect")
           b == Check(h.count = 0, "emptyVertexElement")
           c == Check(h.count > kMaxGaussianCount, "importLimitExceeded")
           f == Check(~Contiguous(h), "nonContiguousRestIndices")
           g == Check(RestCount(h) % 3 # 0, "restCountNotRgb")
           i == Check(HeaderShDegree(h) = NoDegree, "invalidShDegree")
           j == Check(HeaderShDegree(h) > kMaxShDegree, "unsupportedShDegree")
<1>4. ValidateHeaderLayout(h) = FirstFailure(<<a, b, c, required, rest, f, g, i, j>>)
  BY DEF ValidateHeaderLayout
<1>5. /\ a = NoProblem <=> Declared(h) \cap Signature # {}
      /\ b = NoProblem <=> h.count # 0
      /\ c = NoProblem <=> ~(h.count > kMaxGaussianCount)
      /\ f = NoProblem <=> Contiguous(h)
      /\ g = NoProblem <=> RestCount(h) % 3 = 0
      /\ i = NoProblem <=> HeaderShDegree(h) # NoDegree
      /\ j = NoProblem <=> ~(HeaderShDegree(h) > kMaxShDegree)
  BY Zenon DEF Check, NoProblem, Contiguous
<1> HIDE DEF a, b, c, f, g, i, j, required, rest, Scalars, Numbered
<1>6. ValidateHeaderLayout(h) = NoProblem
        <=> /\ a = NoProblem /\ b = NoProblem /\ c = NoProblem
            /\ required = NoProblem /\ rest = NoProblem /\ f = NoProblem
            /\ g = NoProblem /\ i = NoProblem /\ j = NoProblem
  BY <1>4, NinePass
<1>7. h.count # 0 /\ ~(h.count > kMaxGaussianCount) <=> h.count \in 1 .. kMaxGaussianCount
  BY LimitAssumption DEF IsHeader
<1>8. ASSUME HeaderShDegree(h) # NoDegree
      PROVE  ~(HeaderShDegree(h) > kMaxShDegree) <=> HeaderShDegree(h) <= kMaxShDegree
  <2>1. RestPerChannel(h) + 1 \in Nat
    BY IndexFacts DEF RestPerChannel
  <2>2. HeaderShDegree(h) \in Nat
    BY <1>8, <2>1, InferDegree DEF HeaderShDegree
  <2> QED BY <2>2 DEF kMaxShDegree
<1>9. ValidateHeaderLayout(h) = NoProblem
        <=> h.count \in 1 .. kMaxGaussianCount /\ Scalars /\ Numbered /\ RestIsGaussian(h)
  BY <1>1, <1>2, <1>3, <1>5, <1>6, <1>7, <1>8, Zenon DEF RestIsGaussian
<1> DEFINE IsOfDegree == \E degree \in 0 .. kMaxShDegree :
                           /\ Len(h.rest) = 3 * RestPerGaussian(degree)
                           /\ Indices(h) = 0 .. Len(h.rest) - 1
           AllScalar == \A n \in DOMAIN h.rest : h.rest[n].scalar
<1>10. Numbered /\ RestIsGaussian(h) <=> AllScalar /\ IsOfDegree
  <2>1. ASSUME Numbered, RestIsGaussian(h) PROVE AllScalar /\ IsOfDegree
    <3>1. RestCount(h) = Len(h.rest)
      BY <2>1, Unrepeated DEF Numbered
    <3> QED BY <2>1, <3>1, DegreeIsGaussian DEF Numbered
  <2>2. ASSUME AllScalar, IsOfDegree PROVE Numbered /\ RestIsGaussian(h)
    <3>1. Indices(h) = 0 .. Len(h.rest) - 1 /\ Len(h.rest) \in Nat
      BY <2>2, RestFacts
    <3>2. RestCount(h) = Len(h.rest)
      BY <3>1, IntervalCardinality DEF RestCount
    <3>3. \A n \in DOMAIN h.rest : h.rest[n].index # BadName
      <4>1. \A n \in DOMAIN h.rest : h.rest[n].index \in 0 .. Len(h.rest) - 1
        BY <3>1 DEF Indices
      <4> QED BY <3>1, <4>1 DEF BadName
    <3>4. RestIsGaussian(h)
      BY <2>2, <3>2, DegreeIsGaussian
    <3>5. \A n \in DOMAIN h.rest : \A m \in 1 .. n - 1 :
            h.rest[m].index # h.rest[n].index
      BY <3>2, Unrepeated
    <3> QED BY <2>2, <3>3, <3>4, <3>5 DEF Numbered
  <2> QED BY <2>1, <2>2
<1> QED BY <1>9, <1>10, Zenon DEF IsGaussianLayout, Scalars
(* ---- The columns of an accepted header --------------------------------- *)

(* Every number below three times the channel's is one coefficient of one  *)
(* channel.                                                                *)
LEMMA ColumnsOfChannels ==
  ASSUME NEW per \in Nat
  PROVE  /\ \A channel \in 0 .. 2, coefficient \in 0 .. per - 1 :
              channel * per + coefficient \in 0 .. 3 * per - 1
         /\ \A column \in 0 .. 3 * per - 1 :
              \E channel \in 0 .. 2, coefficient \in 0 .. per - 1 :
                column = channel * per + coefficient
<1>1. ASSUME NEW channel \in 0 .. 2, NEW coefficient \in 0 .. per - 1
      PROVE  channel * per + coefficient \in 0 .. 3 * per - 1
  <2>1. /\ coefficient \in Nat /\ coefficient < per
        /\ channel * per = 0 \/ channel * per = per \/ channel * per = 2 * per
    OBVIOUS
  <2> QED BY <2>1
<1>2. ASSUME NEW column \in 0 .. 3 * per - 1
      PROVE  \E channel \in 0 .. 2, coefficient \in 0 .. per - 1 :
               column = channel * per + coefficient
  <2>1. CASE column < per
    <3>1. column \in 0 .. per - 1 /\ column = 0 * per + column
      BY <2>1
    <3> QED BY <3>1
  <2>2. CASE per <= column /\ column < 2 * per
    <3>1. column - per \in 0 .. per - 1 /\ column = 1 * per + (column - per)
      BY <2>2
    <3> QED BY <3>1
  <2>3. CASE 2 * per <= column
    <3>1. column - 2 * per \in 0 .. per - 1 /\ column = 2 * per + (column - 2 * per)
      BY <2>3
    <3> QED BY <3>1
  <2> QED BY <2>1, <2>2, <2>3
<1> QED BY <1>1, <1>2

(* Division and remainder recover the channel and the coefficient.         *)
LEMMA ChannelOfColumn ==
  ASSUME NEW per \in Nat, NEW channel \in 0 .. 2, NEW coefficient \in 0 .. per - 1
  PROVE  /\ (channel * per + coefficient) \div per = channel
         /\ (channel * per + coefficient) % per = coefficient
<1> DEFINE column == channel * per + coefficient
<1>1. channel \in Nat /\ coefficient \in Nat /\ coefficient < per /\ per > 0
  OBVIOUS
<1>2. column \in Nat
  <2>1. channel * per = 0 \/ channel * per = per \/ channel * per = 2 * per
    OBVIOUS
  <2> QED BY <1>1, <2>1
<1> HIDE DEF column
<1>3. /\ column \div per \in Nat /\ column % per \in 0 .. per - 1
      /\ column = per * (column \div per) + (column % per)
  BY <1>1, <1>2
<1>4. PICK q \in Nat, r \in Nat : q = column \div per /\ r = column % per
  BY <1>3
<1>5. r < per /\ per * q + r = channel * per + coefficient
  BY <1>3, <1>4 DEF column
<1>6. ~(q < channel)
  <2> SUFFICES ASSUME q < channel PROVE FALSE
    OBVIOUS
  <2>1. PICK k \in Nat : channel = q + 1 + k
    <3>1. channel - q - 1 \in Nat /\ channel = q + 1 + (channel - q - 1)
      BY <1>1
    <3> QED BY <3>1
  <2>2. channel * per = per * q + per + k * per /\ k * per \in Nat /\ per * q \in Nat
    BY <2>1
  <2> QED BY <1>1, <1>5, <2>2
<1>7. ~(channel < q)
  <2> SUFFICES ASSUME channel < q PROVE FALSE
    OBVIOUS
  <2>1. PICK k \in Nat : q = channel + 1 + k
    <3>1. q - channel - 1 \in Nat /\ q = channel + 1 + (q - channel - 1)
      BY <1>1
    <3> QED BY <3>1
  <2>2. per * q = channel * per + per + k * per /\ k * per \in Nat /\ channel * per \in Nat
    BY <1>1, <2>1
  <2> QED BY <1>1, <1>5, <2>2
<1>8. q = channel
  BY <1>1, <1>6, <1>7
<1>9. r = coefficient
  <2>1. per * q = channel * per /\ per * q \in Nat
    BY <1>1, <1>8
  <2> QED BY <1>1, <1>5, <2>1
<1> QED BY <1>4, <1>8, <1>9 DEF column

(* The columns an accepted header names, and the degree it is taken for.   *)
LEMMA GaussianLayout ==
  ASSUME NEW h, IsHeader(h), IsGaussianLayout(h)
  PROVE  /\ HeaderShDegree(h) \in 0 .. kMaxShDegree
         /\ Len(h.rest) = 3 * RestPerGaussian(HeaderShDegree(h))
         /\ Indices(h) = 0 .. Len(h.rest) - 1 /\ RestCount(h) = Len(h.rest)
         /\ RestPerChannel(h) = RestPerGaussian(HeaderShDegree(h))
         /\ RestPerChannel(h) \in Nat
         /\ \A degree \in 0 .. kMaxShDegree :
              Len(h.rest) = 3 * RestPerGaussian(degree) => degree = HeaderShDegree(h)
<1>1. PICK degree \in 0 .. kMaxShDegree :
        Len(h.rest) = 3 * RestPerGaussian(degree) /\ Indices(h) = 0 .. Len(h.rest) - 1
  BY DEF IsGaussianLayout
<1>2. RestCount(h) = Len(h.rest)
  <2>1. Len(h.rest) \in Nat
    BY RestFacts
  <2> QED BY <1>1, <2>1, IntervalCardinality DEF RestCount
<1>3. ASSUME NEW d \in 0 .. kMaxShDegree, Len(h.rest) = 3 * RestPerGaussian(d)
      PROVE  /\ RestPerChannel(h) = RestPerGaussian(d) /\ RestPerGaussian(d) \in Nat
             /\ HeaderShDegree(h) = d
  <2> DEFINE t == d + 1
  <2>1. d \in Nat /\ t \in Nat \ {0}
    BY DEF kMaxShDegree
  <2>2. RestPerGaussian(d) = t * t - 1 /\ t * t \in Nat /\ t * t >= 1
    <3>1. t * t = d * d + d + d + 1 /\ d * d \in Nat
      BY <2>1
    <3> QED BY <3>1 DEF RestPerGaussian, CoefficientsPerGaussian
  <2>3. RestPerGaussian(d) \in Nat
    BY <2>2
  <2>4. \A k \in Nat : (3 * k) \div 3 = k
    OBVIOUS
  <2>5. RestPerChannel(h) = RestPerGaussian(d)
    BY <1>2, <1>3, <2>3, <2>4 DEF RestPerChannel
  <2>6. RestPerChannel(h) + 1 = t * t
    BY <2>2, <2>5
  <2>7. HeaderShDegree(h) = t - 1
    BY <2>1, <2>6, InferSquare DEF HeaderShDegree
  <2> QED BY <2>1, <2>3, <2>5, <2>7
<1>4. degree = HeaderShDegree(h)
  BY <1>1, <1>3
<1> QED BY <1>1, <1>2, <1>3, <1>4

-----------------------------------------------------------------------------
(* ---- The inductive invariant ------------------------------------------- *)

Accepts(key) ==
  CASE key = "shDegree"         -> AcceptsShDegree(arguments[key])
    [] key = "opacityThreshold" -> AcceptsThreshold(arguments[key])
    [] OTHER                    -> AcceptsMultiplier(arguments[key])
Parsed(key) ==
  IF key = "shDegree" THEN ParseFullInt(arguments[key]) ELSE arguments[key].value

Stored(key) ==
  IF arguments[key] = Absent THEN options[key] = Defaults[key]
  ELSE Accepts(key) /\ options[key] = Parsed(key)
Untouched(key) == options[key] = Defaults[key]

Typed ==
  /\ arguments \in [Keys -> Texts \cup {Absent}]
  /\ options = [key \in Keys |-> options[key]]
  /\ IsHeader(candidate)
  /\ lookup \in Keys \cup {"done", "failed"}

HeaderChecked == verdict \in {"unchecked", ValidateHeaderLayout(candidate)}

(* What has been looked up is stored, what has not is still the default,   *)
(* and a failed call met an argument it does not accept.                   *)
OptionsStored ==
  /\ lookup \in {"opacityThreshold", "scaleMultiplier", "done"} => Stored("shDegree")
  /\ lookup \in {"scaleMultiplier", "done"} => Stored("opacityThreshold")
  /\ lookup = "done" => Stored("scaleMultiplier")
  /\ lookup = "shDegree" => Untouched("shDegree")
  /\ lookup \in {"shDegree", "opacityThreshold"} => Untouched("opacityThreshold")
  /\ lookup \in {"shDegree", "opacityThreshold", "scaleMultiplier"} =>
       Untouched("scaleMultiplier")
  /\ lookup = "failed" => \E key \in Keys : arguments[key] # Absent /\ ~Accepts(key)

PreludeInv == Typed /\ HeaderChecked /\ OptionsStored

LEMMA InitPrelude == PreludeInit => PreludeInv
<1> SUFFICES ASSUME PreludeInit PROVE PreludeInv
  OBVIOUS
<1>1. PICK call \in Calls : arguments = call.arguments /\ candidate = call.header
  BY DEF PreludeInit
<1>2. options = Defaults /\ lookup = "shDegree" /\ verdict = "unchecked"
  BY DEF PreludeInit
<1>3. arguments \in [Keys -> Texts \cup {Absent}] /\ IsHeader(candidate)
  BY <1>1, CallsAssumption DEF IsHeader
<1>4. options = [key \in Keys |-> options[key]]
  BY <1>2 DEF Defaults, Keys
<1>5. Typed /\ HeaderChecked
  BY <1>2, <1>3, <1>4 DEF Typed, HeaderChecked, Keys
<1>6. OptionsStored
  BY <1>2 DEF OptionsStored, Untouched
<1> QED BY <1>5, <1>6 DEF PreludeInv

(* Looking a key up stores it, and leaves the other options alone.         *)
LEMMA LookupStores ==
  ASSUME Typed, NEW key \in Keys, NEW next,
         Untouched(key), Lookup(key, Accepts(key), Parsed(key), next)
  PROVE  /\ arguments' = arguments /\ options' = [k \in Keys |-> options'[k]]
         /\ \A k \in Keys \ {key} : options'[k] = options[k]
         /\ \/ lookup' = next /\ Stored(key)'
            \/ lookup' = "failed" /\ arguments[key] # Absent /\ ~Accepts(key)
<1>1. arguments' = arguments
  BY DEF Lookup
<1>2. options = [k \in Keys |-> options[k]]
  BY DEF Typed
<1>3. Accepts(key)' = Accepts(key) /\ Parsed(key)' = Parsed(key)
  BY <1>1 DEF Accepts, Parsed
<1>4. CASE arguments[key] = Absent
  <2>1. lookup' = next /\ options' = options
    BY <1>4 DEF Lookup
  <2> QED BY <1>1, <1>2, <1>4, <2>1 DEF Stored, Untouched
<1>5. CASE arguments[key] # Absent /\ Accepts(key)
  <2>1. lookup' = next /\ options' = [options EXCEPT ![key] = Parsed(key)]
    BY <1>5 DEF Lookup
  <2>2. /\ options'[key] = Parsed(key) /\ options' = [k \in Keys |-> options'[k]]
        /\ \A k \in Keys \ {key} : options'[k] = options[k]
    BY <1>2, <2>1
  <2>3. Stored(key)'
    BY <1>1, <1>3, <1>5, <2>2 DEF Stored
  <2> QED BY <1>1, <2>1, <2>2, <2>3
<1>6. CASE arguments[key] # Absent /\ ~Accepts(key)
  <2>1. lookup' = "failed" /\ options' = options
    BY <1>6 DEF Lookup
  <2> QED BY <1>1, <1>2, <1>6, <2>1
<1> QED BY <1>4, <1>5, <1>6

LEMMA LookupStep ==
  ASSUME PreludeInv, ParseImportOptions, UNCHANGED <<candidate, verdict>>
  PROVE  PreludeInv'
<1>1. /\ "shDegree" \in Keys /\ "opacityThreshold" \in Keys
      /\ "scaleMultiplier" \in Keys
      /\ Keys = {"shDegree", "opacityThreshold", "scaleMultiplier"}
  BY DEF Keys
<1>2. Typed /\ HeaderChecked /\ OptionsStored
  BY DEF PreludeInv
<1>3. HeaderChecked'
  BY <1>2 DEF HeaderChecked
<1>4. ASSUME NEW key \in Keys, arguments' = arguments, options'[key] = options[key]
      PROVE  /\ Stored(key) => Stored(key)'
             /\ Untouched(key) => Untouched(key)'
  BY <1>4 DEF Stored, Untouched, Accepts, Parsed
<1>5. ASSUME NEW key \in Keys, arguments' = arguments
      PROVE  Accepts(key)' = Accepts(key)
  BY <1>5 DEF Accepts
<1>6. ASSUME NEW key \in Keys, arguments' = arguments, arguments[key] # Absent,
             ~Accepts(key)
      PROVE  \E k \in Keys : arguments'[k] # Absent /\ ~Accepts(k)'
  BY <1>5, <1>6
<1>7. ASSUME NEW next \in Keys \cup {"done", "failed"}, lookup' \in {next, "failed"},
             arguments' = arguments, options' = [k \in Keys |-> options'[k]]
      PROVE  Typed'
  <2>1. IsHeader(candidate')
    BY <1>2 DEF Typed
  <2>2. lookup' \in Keys \cup {"done", "failed"}
    BY <1>7
  <2> QED BY <1>2, <1>7, <2>1, <2>2 DEF Typed
<1>8. CASE ShDegree
  <2>1. /\ lookup = "shDegree"
        /\ Lookup("shDegree", Accepts("shDegree"), Parsed("shDegree"), "opacityThreshold")
    BY <1>8 DEF ShDegree, Lookup, Accepts, Parsed
  <2>2. /\ Untouched("shDegree") /\ Untouched("opacityThreshold")
        /\ Untouched("scaleMultiplier")
    BY <1>2, <2>1 DEF OptionsStored
  <2>3. /\ arguments' = arguments /\ options' = [k \in Keys |-> options'[k]]
        /\ \A k \in Keys \ {"shDegree"} : options'[k] = options[k]
        /\ \/ lookup' = "opacityThreshold" /\ Stored("shDegree")'
           \/ lookup' = "failed" /\ arguments["shDegree"] # Absent /\ ~Accepts("shDegree")
    BY <1>1, <1>2, <2>1, <2>2, LookupStores
  <2>4. Typed'
    BY <1>1, <1>7, <2>3
  <2>5. Untouched("opacityThreshold")' /\ Untouched("scaleMultiplier")'
    BY <1>1, <1>4, <2>2, <2>3
  <2>6. OptionsStored'
    BY <1>1, <1>6, <2>3, <2>5 DEF OptionsStored
  <2> QED BY <1>3, <2>4, <2>6 DEF PreludeInv
<1>9. CASE OpacityThreshold
  <2>1. /\ lookup = "opacityThreshold"
        /\ Lookup("opacityThreshold", Accepts("opacityThreshold"),
                  Parsed("opacityThreshold"), "scaleMultiplier")
    BY <1>9 DEF OpacityThreshold, Lookup, Accepts, Parsed
  <2>2. /\ Stored("shDegree") /\ Untouched("opacityThreshold")
        /\ Untouched("scaleMultiplier")
    BY <1>2, <2>1 DEF OptionsStored
  <2>3. /\ arguments' = arguments /\ options' = [k \in Keys |-> options'[k]]
        /\ \A k \in Keys \ {"opacityThreshold"} : options'[k] = options[k]
        /\ \/ lookup' = "scaleMultiplier" /\ Stored("opacityThreshold")'
           \/ /\ lookup' = "failed" /\ arguments["opacityThreshold"] # Absent
              /\ ~Accepts("opacityThreshold")
    BY <1>1, <1>2, <2>1, <2>2, LookupStores
  <2>4. Typed'
    BY <1>1, <1>7, <2>3
  <2>5. Stored("shDegree")' /\ Untouched("scaleMultiplier")'
    BY <1>1, <1>4, <2>2, <2>3
  <2>6. OptionsStored'
    BY <1>1, <1>6, <2>3, <2>5 DEF OptionsStored
  <2> QED BY <1>3, <2>4, <2>6 DEF PreludeInv
<1>10. CASE ScaleMultiplier
  <2>1. /\ lookup = "scaleMultiplier"
        /\ Lookup("scaleMultiplier", Accepts("scaleMultiplier"),
                  Parsed("scaleMultiplier"), "done")
    BY <1>10 DEF ScaleMultiplier, Lookup, Accepts, Parsed
  <2>2. Stored("shDegree") /\ Stored("opacityThreshold") /\ Untouched("scaleMultiplier")
    BY <1>2, <2>1 DEF OptionsStored
  <2>3. /\ arguments' = arguments /\ options' = [k \in Keys |-> options'[k]]
        /\ \A k \in Keys \ {"scaleMultiplier"} : options'[k] = options[k]
        /\ \/ lookup' = "done" /\ Stored("scaleMultiplier")'
           \/ /\ lookup' = "failed" /\ arguments["scaleMultiplier"] # Absent
              /\ ~Accepts("scaleMultiplier")
    BY <1>1, <1>2, <2>1, <2>2, LookupStores
  <2>4. Typed'
    BY <1>1, <1>7, <2>3
  <2>5. Stored("shDegree")' /\ Stored("opacityThreshold")'
    BY <1>1, <1>4, <2>2, <2>3
  <2>6. OptionsStored'
    BY <1>1, <1>6, <2>3, <2>5 DEF OptionsStored
  <2> QED BY <1>3, <2>4, <2>6 DEF PreludeInv
<1> QED BY <1>8, <1>9, <1>10 DEF ParseImportOptions

LEMMA NextPrelude == PreludeInv /\ [PreludeNext]_preludeVars => PreludeInv'
<1> SUFFICES ASSUME PreludeInv, [PreludeNext]_preludeVars PROVE PreludeInv'
  OBVIOUS
<1>1. CASE TakeArguments
  BY <1>1, LookupStep DEF TakeArguments
<1>2. ASSUME UNCHANGED <<arguments, options, lookup, candidate>>,
             verdict' \in {verdict, ValidateHeaderLayout(candidate)}
      PROVE  PreludeInv'
  <2>1. HeaderChecked'
    BY <1>2 DEF PreludeInv, HeaderChecked
  <2>2. Typed'
    BY <1>2 DEF PreludeInv, Typed
  <2>3. OptionsStored'
    BY <1>2 DEF PreludeInv, OptionsStored, Stored, Untouched, Accepts, Parsed
  <2> QED BY <2>1, <2>2, <2>3 DEF PreludeInv
<1>3. CASE Validate
  BY <1>2, <1>3 DEF Validate
<1>4. CASE UNCHANGED preludeVars
  BY <1>2, <1>4 DEF preludeVars
<1> QED BY <1>1, <1>3, <1>4 DEF PreludeNext

THEOREM PreludeInvariance == PreludeSpec => []PreludeInv
<1>1. PreludeInit => PreludeInv
  BY InitPrelude
<1>2. PreludeInv /\ [PreludeNext]_preludeVars => PreludeInv'
  BY NextPrelude
<1> QED BY <1>1, <1>2, PTL DEF PreludeSpec

(* ---- Of every header --------------------------------------------------- *)

LEMMA VerdictIsOfHeader ==
  ASSUME PreludeInv
  PROVE  /\ IsHeader(candidate)
         /\ verdict # "unchecked" => (HeaderAccepted <=> IsGaussianLayout(candidate))
         /\ HeaderAccepted => IsGaussianLayout(candidate)
<1>1. IsHeader(candidate) /\ verdict \in {"unchecked", ValidateHeaderLayout(candidate)}
  BY DEF PreludeInv, Typed, HeaderChecked
<1>2. ValidateHeaderLayout(candidate) = "" <=> IsGaussianLayout(candidate)
  BY <1>1, LayoutIsAccepted DEF NoProblem
<1> QED BY <1>1, <1>2 DEF HeaderAccepted

(* A header is accepted exactly when it has a Gaussian layout, and then    *)
(* routing accepts it too.                                                 *)
THEOREM GaussianLayoutsAccepted == PreludeSpec => []AcceptsGaussianLayouts
<1>1. PreludeInv => AcceptsGaussianLayouts
  <2> SUFFICES ASSUME PreludeInv, verdict # "unchecked"
               PROVE  (HeaderAccepted <=> IsGaussianLayout(candidate))
                        /\ (HeaderAccepted => CanReadHeader(candidate))
    BY DEF AcceptsGaussianLayouts
  <2>1. HeaderAccepted <=> IsGaussianLayout(candidate)
    BY VerdictIsOfHeader
  <2>2. IsGaussianLayout(candidate) => CanReadHeader(candidate)
    BY SignatureIsRequired DEF IsGaussianLayout
  <2> QED BY <2>1, <2>2
<1> QED BY <1>1, PreludeInvariance, PTL

(* The assembly loop finds every column it looks up, and passes over none. *)
THEOREM ColumnsTaken == PreludeSpec => []EveryColumnTaken
<1>1. PreludeInv => EveryColumnTaken
  <2> SUFFICES ASSUME PreludeInv, HeaderAccepted
               PROVE  {RestColumn(channel, coefficient) :
                         channel \in 0 .. 2,
                         coefficient \in 0 .. RestPerChannel(candidate) - 1}
                        = Indices(candidate)
    BY DEF EveryColumnTaken
  <2> DEFINE per == RestPerChannel(candidate)
             L   == Len(candidate.rest)
  <2>1. IsHeader(candidate) /\ IsGaussianLayout(candidate)
    BY VerdictIsOfHeader
  <2>2. PICK degree \in 0 .. kMaxShDegree :
          L = 3 * RestPerGaussian(degree) /\ Indices(candidate) = 0 .. L - 1
    BY <2>1 DEF IsGaussianLayout
  <2>3. RestPerGaussian(degree) \in Nat
    <3>1. /\ degree \in Nat
          /\ (degree + 1) * (degree + 1) = degree * degree + degree + degree + 1
          /\ degree * degree \in Nat
      BY DEF kMaxShDegree
    <3> QED BY <3>1 DEF RestPerGaussian, CoefficientsPerGaussian
  <2>4. Cardinality(Indices(candidate)) = L
    <3>1. L \in Nat
      BY <2>1, RestFacts
    <3> QED BY <2>2, <3>1, IntervalCardinality
  <2>5. per = RestPerGaussian(degree)
    <3>1. \A k \in Nat : (3 * k) \div 3 = k
      OBVIOUS
    <3>2. per = L \div 3
      BY <2>4 DEF RestPerChannel, RestCount
    <3> QED BY <2>2, <2>3, <3>1, <3>2
  <2>6. per \in Nat /\ Indices(candidate) = 0 .. 3 * per - 1
    BY <2>2, <2>3, <2>5
  <2>7. \A channel \in 0 .. 2, coefficient \in 0 .. per - 1 :
          RestColumn(channel, coefficient) = channel * per + coefficient
    BY DEF RestColumn
  <2> HIDE DEF per
  <2>8. /\ \A channel \in 0 .. 2, coefficient \in 0 .. per - 1 :
             channel * per + coefficient \in Indices(candidate)
        /\ \A column \in Indices(candidate) :
             \E channel \in 0 .. 2, coefficient \in 0 .. per - 1 :
               column = channel * per + coefficient
    BY <2>6, ColumnsOfChannels
  <2>9. {RestColumn(channel, coefficient) :
           channel \in 0 .. 2, coefficient \in 0 .. per - 1} = Indices(candidate)
    BY <2>7, <2>8
  <2> QED BY <2>9 DEF per
<1> QED BY <1>1, PreludeInvariance, PTL

(* ---- Of all arguments -------------------------------------------------- *)

(* What the conversions of an int do to a degree that is one: nothing.     *)
LEMMA DegreesConvert ==
  ASSUME NEW n \in 0 .. 3
  PROVE  ToInt(ToLong(n)) = n
<1>1. ToLong(n) = n
  BY WidthAssumption DEF ToLong, LongMin
<1>2. n % (2 * (IntMax + 1)) = n
  BY WidthAssumption
<1>3. ~(n > IntMax)
  BY WidthAssumption
<1> QED BY <1>1, <1>2, <1>3 DEF ToInt

LEMMA ValidIsAccepted ==
  ASSUME Typed, NEW key \in Keys, IsValid(key), arguments[key] # Absent
  PROVE  Accepts(key) /\ Parsed(key) = arguments[key].value
<1> DEFINE text == arguments[key]
<1>1. text.kind = "number" /\ text.value \in Valid(key)
  BY DEF IsValid
<1> HIDE DEF text
<1>2. CASE key = "shDegree"
  <2>1. text.value \in 0 .. 3
    BY <1>1, <1>2 DEF Valid
  <2>2. ParseFullInt(text) = text.value
    BY <2>1, DegreesConvert DEF ParseFullInt
  <2>3. AcceptsShDegree(text)
    BY <1>1, <2>1, <2>2 DEF AcceptsShDegree, ParsesAsInt
  <2> QED BY <1>2, <2>2, <2>3 DEF Accepts, Parsed, text
<1>3. CASE key = "opacityThreshold"
  <2>1. text.value \in 0 .. One
    BY <1>1, <1>3 DEF Valid
  <2>2. AcceptsThreshold(text)
    BY <1>1, <2>1, FloatAssumption DEF AcceptsThreshold, ParsesAsFloat
  <2> QED BY <1>3, <2>2 DEF Accepts, Parsed, text
<1>4. CASE key = "scaleMultiplier"
  <2>1. text.value \in 1 .. FloatMax
    BY <1>1, <1>4 DEF Valid
  <2>2. AcceptsMultiplier(text)
    BY <1>1, <2>1, FloatAssumption DEF AcceptsMultiplier, ParsesAsFloat
  <2> QED BY <1>4, <2>2 DEF Accepts, Parsed, text
<1> QED BY <1>2, <1>3, <1>4 DEF Keys

LEMMA TextsSpellIntegers == \A t \in Texts : t.value \in Int
<1>1. ASSUME NEW t \in [kind : {"number"}, value : Numbers] PROVE t.value \in Int
  BY NumbersAssumption
<1>2. ASSUME NEW t \in [kind : {"junk"}, value : {0}] PROVE t.value \in Int
  <2>1. t.value = 0
    OBVIOUS
  <2> QED BY <2>1
<1> QED BY <1>1, <1>2, Zenon DEF Texts

(* An accepted argument is stored as a value within its range.             *)
LEMMA AcceptedIsInRange ==
  ASSUME Typed, \A key \in Keys : Stored(key)
  PROVE  /\ options.shDegree \in -1 .. kMaxShDegree
         /\ options.opacityThreshold \in {-1} \cup 0 .. One
         /\ options.scaleMultiplier \in 1 .. FloatMax
<1>1. /\ "shDegree" \in Keys /\ "opacityThreshold" \in Keys /\ "scaleMultiplier" \in Keys
  BY DEF Keys
<1>2. /\ Defaults["shDegree"] = -1 /\ Defaults["opacityThreshold"] = -1
      /\ Defaults["scaleMultiplier"] = One
  BY DEF Defaults
<1>3. options["shDegree"] \in -1 .. kMaxShDegree
  <2> DEFINE text == arguments["shDegree"]
  <2>1. text # Absent => AcceptsShDegree(text) /\ options["shDegree"] = ParseFullInt(text)
    BY <1>1 DEF Stored, Accepts, Parsed
  <2>2. text = Absent => options["shDegree"] = -1
    BY <1>1, <1>2 DEF Stored
  <2>3. text # Absent => ParseFullInt(text) \in Int
    <3> SUFFICES ASSUME text # Absent PROVE ParseFullInt(text) \in Int
      OBVIOUS
    <3>1. text \in Texts
      BY <1>1 DEF Typed
    <3>2. \A t \in Texts : t.value \in Int
      BY TextsSpellIntegers
    <3>3. \A n \in Int : ToLong(n) \in Int
      BY WidthAssumption DEF ToLong, LongMin
    <3>4. \A n \in Int : ToInt(n) \in Int
      BY WidthAssumption DEF ToInt
    <3> HIDE DEF text
    <3> QED BY <3>1, <3>2, <3>3, <3>4 DEF ParseFullInt
  <2> HIDE DEF text
  <2> QED BY <2>1, <2>2, <2>3 DEF AcceptsShDegree, kMaxShDegree
<1>4. options["opacityThreshold"] \in {-1} \cup 0 .. One
  <2> DEFINE text == arguments["opacityThreshold"]
  <2>1. text # Absent =>
          AcceptsThreshold(text) /\ options["opacityThreshold"] = text.value
    BY <1>1 DEF Stored, Accepts, Parsed
  <2>2. text = Absent => options["opacityThreshold"] = -1
    BY <1>1, <1>2 DEF Stored
  <2> HIDE DEF text
  <2>3. AcceptsThreshold(text) => text.value \in 0 .. One
    BY FloatAssumption DEF AcceptsThreshold, ParsesAsFloat
  <2> QED BY <2>1, <2>2, <2>3
<1>5. options["scaleMultiplier"] \in 1 .. FloatMax
  <2> DEFINE text == arguments["scaleMultiplier"]
  <2>1. text # Absent =>
          AcceptsMultiplier(text) /\ options["scaleMultiplier"] = text.value
    BY <1>1 DEF Stored, Accepts, Parsed
  <2>2. text = Absent => options["scaleMultiplier"] = One
    BY <1>1, <1>2 DEF Stored
  <2> HIDE DEF text
  <2>3. AcceptsMultiplier(text) => text.value \in 1 .. FloatMax
    BY FloatAssumption DEF AcceptsMultiplier, ParsesAsFloat
  <2> QED BY <2>1, <2>2, <2>3, FloatAssumption
<1> QED BY <1>3, <1>4, <1>5

(* Valid arguments are accepted and arrive as they were spelled, absent    *)
(* ones as their defaults, and nothing accepted leaves its range.          *)
THEOREM ArgumentsArrive == PreludeSpec => []ValidArgumentsArrive
<1>1. PreludeInv => ValidArgumentsArrive
  <2> SUFFICES ASSUME PreludeInv PROVE ValidArgumentsArrive
    OBVIOUS
  <2>1. Typed /\ OptionsStored
    BY DEF PreludeInv
  <2>2. lookup = "done" => \A key \in Keys : Stored(key)
    BY <2>1 DEF OptionsStored, Keys
  <2>3. ASSUME \A key \in Keys : IsValid(key) PROVE lookup # "failed"
    BY <2>1, <2>3, ValidIsAccepted DEF OptionsStored
  <2>4. ASSUME \A key \in Keys : IsValid(key), lookup = "done"
        PROVE  options = [key \in Keys |-> IF arguments[key] = Absent
                                           THEN Defaults[key] ELSE arguments[key].value]
    <3>1. \A key \in Keys : options[key] = IF arguments[key] = Absent
                                           THEN Defaults[key] ELSE arguments[key].value
      BY <2>1, <2>2, <2>4, ValidIsAccepted DEF Stored
    <3>2. options = [key \in Keys |-> options[key]]
      BY <2>1 DEF Typed
    <3> QED BY <3>1, <3>2
  <2>5. ASSUME lookup = "done"
        PROVE  /\ options.shDegree \in -1 .. kMaxShDegree
               /\ options.opacityThreshold \in {-1} \cup 0 .. One
               /\ options.scaleMultiplier \in 1 .. FloatMax
    BY <2>1, <2>2, <2>5, AcceptedIsInRange
  <2> QED BY <2>3, <2>4, <2>5 DEF ValidArgumentsArrive
<1> QED BY <1>1, PreludeInvariance, PTL

-----------------------------------------------------------------------------
(* ---- The inductive invariant ------------------------------------------- *)

Decoded  == {"size", "warn", "options", "adjust", "author", "join", "transfer"}
Payload  == {"columns"} \cup Decoded
Accepted == {"payload"} \cup Payload
Headed   == {"layout"} \cup Accepted

Watched == /\ setting \in Settings /\ file \in setting.versions
           /\ file \in seen /\ seen \subseteq Versions

HeaderRead ==
  pc \in {"header"} \cup Headed =>
    /\ request.valid
    /\ pc \in Headed => \E v \in seen : v.opens /\ header = v.header
LayoutChecked == pc \in Accepted => ValidateHeaderLayout(header) = ""
FullImport ==
  pc \in {"payload", "columns", "size", "warn", "options", "adjust"} =>
    ~request.metadataOnly

IsFull(phases) == pc \in phases /\ ~request.metadataOnly

PayloadRead ==
  IsFull(Payload) =>
    document \in seen /\ document.opens /\ HasRequested(document) /\ document.payload

(* The columns of a group have been taken, and their values accepted.      *)
Passes(name) == (NeedsColumns(name) => TakesColumns) /\ ValueProblem(name) = ""
GroupsPassed ==
  /\ IsFull(Payload) => \A n \in DOMAIN Groups : n < group => Passes(Groups[n])
  /\ IsFull(Decoded) => \A n \in DOMAIN Groups : Passes(Groups[n])
  /\ group \in Nat \ {0} /\ (pc \notin Payload \cup {"return"} => group = 1)

Counted ==
  pc \in {"size", "warn", "options"} => Len(cloud.gaussians) = header.count

(* The statistics, before and after the options are applied.               *)
Measured ==
  stats.decoded = header.count /\ stats.sourceBytes \in {v.size : v \in seen}
IsStats(s) ==
  s = [decoded |-> s.decoded, authored |-> s.authored, rejected |-> s.rejected,
       sourceBytes |-> s.sourceBytes]
StatsTaken ==
  /\ pc \in {"warn", "options", "adjust"} /\ request.stats =>
       Measured /\ stats.authored = header.count /\ IsStats(stats)
  /\ IsFull({"author", "join", "transfer"}) /\ request.stats =>
       /\ Measured /\ stats.authored = Len(cloud.gaussians)
       /\ stats.rejected = stats.decoded - stats.authored

(* The worker runs while the caller waits, and what it leaves is there     *)
(* when it has ended.                                                      *)
WorkerDone ==
  /\ worker = "running" => pc = "join"
  /\ pc = "transfer" => worker = "true"
  /\ pc \in {"join", "transfer"} /\ worker = "true" =>
       generated = IF request.metadataOnly THEN Metadata(header, request)
                   ELSE Full(cloud)
  /\ pc \notin {"join", "transfer", "return"} => worker = "none"

IInv == /\ Watched /\ HeaderRead /\ LayoutChecked /\ FullImport /\ PayloadRead
        /\ GroupsPassed /\ Counted /\ StatsTaken /\ WorkerDone

(* ---- What holds of an import ------------------------------------------- *)

(* A layer is authored under the layout of a header that was there and is  *)
(* accepted, from a payload that was there, is as long as that header says *)
(* and has the columns it names, and of which every value taken decodes    *)
(* (GaussianPlyDecoder.cpp:85-187,357-521, PlyReader.cpp:204-280).         *)
AuthoredFromChecked ==
  Imported =>
    \E v \in seen, d \in seen :
      /\ header = v.header /\ document = d
      /\ request.valid /\ v.opens /\ ValidateHeaderLayout(v.header) = ""
      /\ d.opens /\ d.payload /\ HasRequested(d)
      /\ d.header.count = v.header.count
      /\ \A n \in DOMAIN d.row :
           /\ d.row[n].scale \in 0 .. ScaleMax
           /\ {"positions", "scales", "rotations", "opacities", "dcCoefficients"}
                \cap d.row[n].bad = {}
           /\ RestCount(v.header) > 0 => "restCoefficients" \notin d.row[n].bad
      /\ generated = Full(cloud)

LEMMA InitIInv == Init => IInv
<1> SUFFICES ASSUME Init PROVE IInv
  OBVIOUS
<1>1. /\ pc = "idle" /\ worker = "none" /\ group = 1 /\ setting \in Settings
      /\ file \in setting.versions /\ seen = {file}
  BY DEF Init
<1>2. Watched
  BY <1>1 DEF Watched, Versions
<1>3. HeaderRead /\ LayoutChecked /\ FullImport /\ PayloadRead /\ GroupsPassed
      /\ Counted /\ StatsTaken /\ WorkerDone
  BY <1>1 DEF HeaderRead, LayoutChecked, FullImport, PayloadRead, GroupsPassed,
     Counted, StatsTaken, WorkerDone, IsFull, Headed, Accepted, Payload, Decoded
<1> QED BY <1>2, <1>3 DEF IInv

(* What was there stays among what has been there.                         *)
LEMMA EditFileStep == IInv /\ EditFile => IInv'
<1> SUFFICES ASSUME IInv, EditFile PROVE IInv'
  OBVIOUS
<1>1. /\ file' \in setting.versions /\ UNCHANGED <<setting, request, pc, worker>>
      /\ seen' = IF pc = "idle" THEN {file'} ELSE seen \cup {file'}
      /\ UNCHANGED <<header, document, group, cloud, stats, generated>>
  BY DEF EditFile, decodeVars, authorVars
<1>2. Watched'
  BY <1>1 DEF IInv, Watched, Versions
<1>3. CASE pc = "idle"
  <2>1. HeaderRead' /\ LayoutChecked' /\ FullImport' /\ PayloadRead' /\ Counted'
        /\ StatsTaken'
    BY <1>1, <1>3 DEF HeaderRead, LayoutChecked, FullImport, PayloadRead, Counted,
       StatsTaken, IsFull, Headed, Accepted, Payload, Decoded
  <2>2. GroupsPassed' /\ WorkerDone'
    BY <1>1, <1>3 DEF IInv, GroupsPassed, WorkerDone, IsFull, Payload, Decoded
  <2> QED BY <1>2, <2>1, <2>2 DEF IInv
<1>4. CASE pc # "idle"
  <2>1. seen \subseteq seen'
    BY <1>1, <1>4
  <2>2. HeaderRead' /\ LayoutChecked' /\ FullImport' /\ Counted'
    BY <1>1, <2>1 DEF IInv, HeaderRead, LayoutChecked, FullImport, Counted
  <2>3. PayloadRead'
    BY <1>1, <2>1 DEF IInv, PayloadRead, IsFull, HasRequested
  <2>4. GroupsPassed'
    BY <1>1 DEF IInv, GroupsPassed, IsFull, Passes, NeedsColumns, TakesColumns,
       ValueProblem
  <2>5. StatsTaken'
    BY <1>1, <2>1 DEF IInv, StatsTaken, IsFull, Measured, IsStats
  <2>6. WorkerDone'
    BY <1>1 DEF IInv, WorkerDone, Metadata, Full
  <2> QED BY <1>2, <2>2, <2>3, <2>4, <2>5, <2>6 DEF IInv
<1> QED BY <1>3, <1>4

(* A call that is about to return is bound to nothing.                     *)
LEMMA Returning ==
  ASSUME IInv, UNCHANGED <<setting, file, seen, group>>, pc' = "return",
         worker' # "running"
  PROVE  IInv'
<1>1. Watched'
  BY DEF IInv, Watched
<1>2. HeaderRead' /\ LayoutChecked' /\ FullImport' /\ PayloadRead' /\ GroupsPassed'
      /\ Counted' /\ StatsTaken' /\ WorkerDone'
  BY DEF IInv, HeaderRead, LayoutChecked, FullImport, PayloadRead, GroupsPassed,
     Counted, StatsTaken, WorkerDone, IsFull, Headed, Accepted, Payload, Decoded
<1> QED BY <1>1, <1>2 DEF IInv

LEMMA CallStep == IInv /\ Call => IInv'
<1> SUFFICES ASSUME IInv, Call PROVE IInv'
  OBVIOUS
<1>1. /\ pc = "idle" /\ pc' = "arguments" /\ UNCHANGED <<setting, file, seen, worker, group>>
  BY DEF Call, fileVars, authorVars, decodeVars
<1>2. Watched'
  BY <1>1 DEF IInv, Watched
<1>3. HeaderRead' /\ LayoutChecked' /\ FullImport' /\ PayloadRead' /\ GroupsPassed'
      /\ Counted' /\ StatsTaken' /\ WorkerDone'
  BY <1>1 DEF IInv, HeaderRead, LayoutChecked, FullImport, PayloadRead, GroupsPassed,
     Counted, StatsTaken, WorkerDone, IsFull, Headed, Accepted, Payload, Decoded
<1> QED BY <1>2, <1>3 DEF IInv

LEMMA Leaving == IInv /\ LeaveRead => IInv'
<1> SUFFICES ASSUME IInv, LeaveRead PROVE IInv'
  OBVIOUS
<1>1. /\ pc' = "idle" /\ worker' = "none" /\ group' = 1 /\ seen' = {file}
      /\ UNCHANGED <<setting, file>>
  BY DEF LeaveRead
<1>2. Watched'
  BY <1>1 DEF IInv, Watched, Versions
<1>3. HeaderRead' /\ LayoutChecked' /\ FullImport' /\ PayloadRead' /\ GroupsPassed'
      /\ Counted' /\ StatsTaken' /\ WorkerDone'
  BY <1>1 DEF HeaderRead, LayoutChecked, FullImport, PayloadRead, GroupsPassed,
     Counted, StatsTaken, WorkerDone, IsFull, Headed, Accepted, Payload, Decoded
<1> QED BY <1>2, <1>3 DEF IInv

(* ---- Arguments, header and layout -------------------------------------- *)

Early == {"arguments", "header", "layout"}

LEMMA ParseArgumentsStep == IInv /\ ParseArguments => IInv'
<1> SUFFICES ASSUME IInv, ParseArguments PROVE IInv'
  OBVIOUS
<1>1. /\ pc = "arguments" /\ worker = "none"
      /\ UNCHANGED <<setting, file, seen, request, group, worker>>
  BY DEF ParseArguments, fileVars, decodeVars, authorVars, IInv, WorkerDone
<1>2. CASE pc' = "return"
  BY <1>1, <1>2, Returning
<1>3. CASE pc' # "return"
  <2>1. pc' = "header" /\ request.valid
    BY <1>3 DEF ParseArguments, Fail, Continue
  <2>2. Watched'
    BY <1>1 DEF IInv, Watched
  <2>3. HeaderRead' /\ LayoutChecked' /\ FullImport' /\ PayloadRead' /\ GroupsPassed'
        /\ Counted' /\ StatsTaken' /\ WorkerDone'
    BY <1>1, <2>1 DEF IInv, HeaderRead, LayoutChecked, FullImport, PayloadRead,
       GroupsPassed, Counted, StatsTaken, WorkerDone, IsFull, Headed, Accepted,
       Payload, Decoded
  <2> QED BY <2>2, <2>3 DEF IInv
<1> QED BY <1>2, <1>3

LEMMA ReadHeaderStep == IInv /\ ReadHeader => IInv'
<1> SUFFICES ASSUME IInv, ReadHeader PROVE IInv'
  OBVIOUS
<1>1. /\ pc = "header" /\ worker = "none" /\ request.valid /\ file \in seen
      /\ UNCHANGED <<setting, file, seen, request, group, worker>>
  BY DEF ReadHeader, fileVars, authorVars, IInv, WorkerDone, HeaderRead, Watched
<1>2. CASE pc' = "return"
  BY <1>1, <1>2, Returning
<1>3. CASE pc' # "return"
  <2>1. pc' = "layout" /\ file.opens /\ header' = file.header
    BY <1>3 DEF ReadHeader, Fail, Continue
  <2>2. Watched'
    BY <1>1 DEF IInv, Watched
  <2>3. HeaderRead' /\ LayoutChecked' /\ FullImport' /\ PayloadRead' /\ GroupsPassed'
        /\ Counted' /\ StatsTaken' /\ WorkerDone'
    BY <1>1, <2>1 DEF IInv, HeaderRead, LayoutChecked, FullImport, PayloadRead,
       GroupsPassed, Counted, StatsTaken, WorkerDone, IsFull, Headed, Accepted,
       Payload, Decoded
  <2> QED BY <2>2, <2>3 DEF IInv
<1> QED BY <1>2, <1>3

(* A metadata-only import goes from here to the worker.                    *)
LEMMA CheckLayoutStep == IInv /\ CheckLayout => IInv'
<1> SUFFICES ASSUME IInv, CheckLayout PROVE IInv'
  OBVIOUS
<1>1. /\ pc = "layout" /\ worker = "none"
      /\ UNCHANGED <<setting, file, seen, request, header, group, worker>>
  BY DEF CheckLayout, fileVars, decodeVars, authorVars, IInv, WorkerDone
<1>2. CASE pc' = "return"
  BY <1>1, <1>2, Returning
<1>3. CASE pc' # "return"
  <2>1. /\ ValidateHeaderLayout(header) = ""
        /\ pc' = IF request.metadataOnly THEN "author" ELSE "payload"
    BY <1>3 DEF CheckLayout, Fail, Continue
  <2>2. Watched'
    BY <1>1 DEF IInv, Watched
  <2>3. HeaderRead'
    BY <1>1, <2>1 DEF IInv, HeaderRead, Headed, Accepted, Payload, Decoded
  <2>4. LayoutChecked'
    BY <1>1, <2>1 DEF LayoutChecked
  <2>5. FullImport' /\ PayloadRead' /\ GroupsPassed' /\ Counted' /\ StatsTaken'
        /\ WorkerDone'
    BY <1>1, <2>1 DEF IInv, FullImport, PayloadRead, GroupsPassed, Counted, StatsTaken,
       WorkerDone, IsFull, Payload, Decoded
  <2> QED BY <2>2, <2>3, <2>4, <2>5 DEF IInv
<1> QED BY <1>2, <1>3

(* ---- The payload ------------------------------------------------------- *)

(* Header and request stay what they were when they were checked.          *)
LEMMA GoingOn ==
  ASSUME IInv, UNCHANGED <<setting, file, seen, request, header>>,
         pc \in Accepted, pc' \in Accepted
  PROVE  Watched' /\ HeaderRead' /\ LayoutChecked'
<1>1. Watched'
  BY DEF IInv, Watched
<1>2. HeaderRead'
  BY DEF IInv, HeaderRead, Headed
<1>3. LayoutChecked'
  BY DEF IInv, LayoutChecked
<1> QED BY <1>1, <1>2, <1>3

(* And so does the payload.                                                *)
LEMMA DecodingOn ==
  ASSUME IInv, UNCHANGED <<setting, file, seen, request, header, document>>,
         pc \in Payload, pc' \in Payload, group' \in Nat \ {0},
         IsFull({"columns"})' => \A n \in DOMAIN Groups : n < group' => Passes(Groups[n]),
         IsFull(Decoded)' => \A n \in DOMAIN Groups : Passes(Groups[n])
  PROVE  Watched' /\ HeaderRead' /\ LayoutChecked' /\ PayloadRead' /\ GroupsPassed'
<1>1. pc \in Accepted /\ pc' \in Accepted
  BY DEF Accepted
<1>2. Watched' /\ HeaderRead' /\ LayoutChecked'
  BY <1>1, GoingOn
<1>3. PayloadRead'
  BY DEF IInv, PayloadRead, IsFull, HasRequested
<1>4. ASSUME NEW name PROVE Passes(name)' <=> Passes(name)
  BY DEF Passes, NeedsColumns, TakesColumns, ValueProblem
<1>5. GroupsPassed'
  BY <1>4 DEF GroupsPassed, IsFull, Payload
<1> QED BY <1>2, <1>3, <1>5

LEMMA ReadPayloadStep == IInv /\ ReadPayload => IInv'
<1> SUFFICES ASSUME IInv, ReadPayload PROVE IInv'
  OBVIOUS
<1>1. /\ pc = "payload" /\ worker = "none" /\ ~request.metadataOnly
      /\ UNCHANGED <<setting, file, seen, request, header, group, worker>>
  BY DEF ReadPayload, fileVars, authorVars, IInv, WorkerDone, FullImport
<1>2. CASE pc' = "return"
  BY <1>1, <1>2, Returning
<1>3. CASE pc' # "return"
  <2>1. /\ pc' = "columns" /\ document' = file
        /\ file.opens /\ HasRequested(file) /\ file.payload
    BY <1>3 DEF ReadPayload, Fail, Continue
  <2>2. pc \in Accepted /\ pc' \in Accepted
    BY <1>1, <2>1 DEF Accepted, Payload
  <2>3. Watched' /\ HeaderRead' /\ LayoutChecked'
    BY <1>1, <2>2, GoingOn
  <2>4. PayloadRead'
    BY <1>1, <2>1, <2>3 DEF PayloadRead, Watched, HasRequested
  <2>5. GroupsPassed'
    <3>1. group = 1
      BY <1>1 DEF IInv, GroupsPassed, Payload, Decoded
    <3>2. \A n \in DOMAIN Groups : ~(n < 1)
      BY DEF Groups
    <3> QED BY <1>1, <2>1, <3>1, <3>2 DEF GroupsPassed, IsFull, Payload, Decoded
  <2>6. FullImport' /\ Counted' /\ StatsTaken' /\ WorkerDone'
    BY <1>1, <2>1 DEF FullImport, Counted, StatsTaken, WorkerDone, IsFull
  <2> QED BY <2>3, <2>4, <2>5, <2>6 DEF IInv
<1> QED BY <1>2, <1>3

LEMMA AssembleGroupStep == IInv /\ AssembleGroup => IInv'
<1> SUFFICES ASSUME IInv, AssembleGroup PROVE IInv'
  OBVIOUS
<1>1. /\ pc = "columns" /\ worker = "none" /\ ~request.metadataOnly /\ group \in Nat \ {0}
      /\ UNCHANGED <<setting, file, seen, request, header, document, worker>>
  BY DEF AssembleGroup, fileVars, authorVars, IInv, WorkerDone, FullImport, GroupsPassed
<1>2. CASE pc' = "return"
  <2>1. UNCHANGED group
    BY <1>2 DEF AssembleGroup, Continue
  <2> QED BY <1>1, <1>2, <2>1, Returning
<1>3. CASE pc' # "return"
  <2> DEFINE name == Groups[group]
             taken == Check(NeedsColumns(name) /\ ~TakesColumns, "propertyCountMismatch")
  <2>1. /\ pc' = "columns" /\ group' = group + 1
        /\ FirstFailure(<<taken, ValueProblem(name)>>) = NoProblem
    BY <1>3 DEF AssembleGroup, Fail, Continue, NoProblem
  <2>2. taken = NoProblem /\ ValueProblem(name) = NoProblem
    <3> HIDE DEF taken, name
    <3> QED BY <2>1, TwoPass
  <2>3. Passes(Groups[group])
    BY <2>2 DEF Passes, Check, NoProblem
  <2>4. \A n \in DOMAIN Groups : n < group => Passes(Groups[n])
    BY <1>1 DEF IInv, GroupsPassed, IsFull, Payload
  <2>5. \A n \in DOMAIN Groups : n < group + 1 => Passes(Groups[n])
    <3>1. \A n \in DOMAIN Groups : n \in Nat
      BY DEF Groups
    <3>2. \A n \in DOMAIN Groups : n < group + 1 => n < group \/ n = group
      BY <1>1, <3>1
    <3> QED BY <2>3, <2>4, <3>2
  <2>6. pc \in Payload /\ pc' \in Payload /\ pc' \notin Decoded /\ group' \in Nat \ {0}
    <3>1. group' \in Nat \ {0}
      BY <1>1, <2>1
    <3>2. pc = "columns" /\ pc' = "columns"
      BY <1>1, <2>1
    <3> QED BY <3>1, <3>2 DEF Payload, Decoded
  <2>7. Watched' /\ HeaderRead' /\ LayoutChecked' /\ PayloadRead' /\ GroupsPassed'
    <3>1. ~IsFull(Decoded)'
      BY <2>6 DEF IsFull
    <3> QED BY <1>1, <2>1, <2>5, <2>6, <3>1, DecodingOn
  <2>8. FullImport' /\ Counted' /\ StatsTaken' /\ WorkerDone'
    BY <1>1, <2>1 DEF FullImport, Counted, StatsTaken, WorkerDone, IsFull
  <2> QED BY <2>7, <2>8 DEF IInv
<1> QED BY <1>2, <1>3

(* ---- The cloud and its statistics -------------------------------------- *)

(* Nothing more is asked of what has been decoded.                         *)
LEMMA DecodedOn ==
  ASSUME IInv, UNCHANGED <<setting, file, seen, request, header, document, group>>,
         pc \in Decoded, pc' \in Decoded
  PROVE  Watched' /\ HeaderRead' /\ LayoutChecked' /\ PayloadRead' /\ GroupsPassed'
<1>1. pc \in Payload /\ pc' \in Payload /\ group' \in Nat \ {0}
  BY DEF Payload, IInv, GroupsPassed
<1>2. ~IsFull({"columns"})'
  BY DEF IsFull, Decoded
<1>3. IsFull(Decoded)' => \A n \in DOMAIN Groups : Passes(Groups[n])
  BY DEF IInv, GroupsPassed, IsFull
<1> QED BY <1>1, <1>2, <1>3, DecodingOn

LEMMA FinishDecodeStep == IInv /\ FinishDecode => IInv'
<1> SUFFICES ASSUME IInv, FinishDecode PROVE IInv'
  OBVIOUS
<1>1. /\ pc = "columns" /\ group > Len(Groups) /\ worker = "none"
      /\ ~request.metadataOnly /\ group \in Nat \ {0}
      /\ UNCHANGED <<setting, file, seen, request, header, document, group, worker>>
  BY DEF FinishDecode, fileVars, authorVars, IInv, WorkerDone, FullImport, GroupsPassed
<1>2. CASE pc' = "return"
  BY <1>1, <1>2, Returning
<1>3. CASE pc' # "return"
  <2>1. /\ cloud' = FlipYZAxes(DecodedCloud)
        /\ pc' = IF request.stats THEN "size" ELSE "warn"
    BY <1>3 DEF FinishDecode, Fail, Continue
  <2>2. \A n \in DOMAIN Groups : Passes(Groups[n])
    <3>1. \A n \in DOMAIN Groups : n < group
      BY <1>1 DEF Groups
    <3> QED BY <1>1, <3>1 DEF IInv, GroupsPassed, IsFull, Payload
  <2>3. pc \in Payload /\ pc' \in Payload /\ pc' # "columns" /\ group' \in Nat \ {0}
    BY <1>1, <2>1 DEF Payload, Decoded
  <2>4. Watched' /\ HeaderRead' /\ LayoutChecked' /\ PayloadRead' /\ GroupsPassed'
    <3>1. ~IsFull({"columns"})'
      BY <2>3 DEF IsFull
    <3> QED BY <1>1, <2>2, <2>3, <3>1, DecodingOn
  <2>5. Len(cloud'.gaussians) = header.count
    <3>1. cloud'.gaussians = DecodedCloud.gaussians
      BY <2>1 DEF FlipYZAxes, DecodedCloud
    <3>2. header.count \in Nat
      BY <1>1, SettingsAssumption
      DEF IInv, Watched, HeaderRead, Headed, Accepted, Payload, IsVersion, IsHeader
    <3> QED BY <3>1, <3>2 DEF DecodedCloud
  <2>6. FullImport' /\ StatsTaken' /\ WorkerDone'
    BY <1>1, <2>1 DEF FullImport, StatsTaken, WorkerDone, IsFull
  <2>7. Counted'
    BY <1>1, <2>5 DEF Counted
  <2> QED BY <2>4, <2>6, <2>7 DEF IInv
<1> QED BY <1>2, <1>3

LEMMA MeasureSourceStep == IInv /\ MeasureSource => IInv'
<1> SUFFICES ASSUME IInv, MeasureSource PROVE IInv'
  OBVIOUS
<1>1. /\ pc = "size" /\ pc' = "warn" /\ worker = "none" /\ ~request.metadataOnly
      /\ Len(cloud.gaussians) = header.count /\ file \in seen
      /\ UNCHANGED <<setting, file, seen, request, header, document, group, cloud, worker>>
  BY DEF MeasureSource, Continue, fileVars, decodeVars, authorVars, IInv, WorkerDone,
     FullImport, Counted, Watched
<1>2. /\ stats'.decoded = header.count /\ stats'.authored = header.count
      /\ stats'.sourceBytes = file.size /\ IsStats(stats')
  BY <1>1 DEF MeasureSource, NoStats, IsStats
<1>3. Watched' /\ HeaderRead' /\ LayoutChecked' /\ PayloadRead' /\ GroupsPassed'
  BY <1>1, DecodedOn DEF Decoded
<1>4. FullImport' /\ Counted' /\ WorkerDone'
  BY <1>1 DEF FullImport, Counted, WorkerDone
<1>5. StatsTaken'
  BY <1>1, <1>2 DEF StatsTaken, Measured, IsFull, IsStats
<1> QED BY <1>3, <1>4, <1>5 DEF IInv

LEMMA WarnStep == IInv /\ Warn => IInv'
<1> SUFFICES ASSUME IInv, Warn PROVE IInv'
  OBVIOUS
<1>1. /\ pc = "warn" /\ pc' = "options" /\ worker = "none" /\ ~request.metadataOnly
      /\ UNCHANGED <<setting, file, seen, request, header, document, group, cloud, worker, stats>>
  BY DEF Warn, Continue, fileVars, decodeVars, authorVars, IInv, WorkerDone, FullImport
<1>2. Watched' /\ HeaderRead' /\ LayoutChecked' /\ PayloadRead' /\ GroupsPassed'
  BY <1>1, DecodedOn DEF Decoded
<1>3. FullImport' /\ Counted' /\ WorkerDone'
  BY <1>1 DEF IInv, FullImport, Counted, WorkerDone
<1>4. StatsTaken'
  BY <1>1 DEF IInv, StatsTaken, Measured, IsFull, IsStats
<1> QED BY <1>2, <1>3, <1>4 DEF IInv

LEMMA ApplyImportOptionsStep == IInv /\ ApplyImportOptions => IInv'
<1> SUFFICES ASSUME IInv, ApplyImportOptions PROVE IInv'
  OBVIOUS
<1>1. /\ pc = "options" /\ worker = "none" /\ ~request.metadataOnly
      /\ UNCHANGED <<setting, file, seen, request, header, document, group, worker, stats>>
  BY DEF ApplyImportOptions, fileVars, authorVars, IInv, WorkerDone, FullImport
<1>2. CASE pc' = "return"
  BY <1>1, <1>2, Returning
<1>3. CASE pc' # "return"
  <2>1. pc' = "adjust"
    BY <1>3 DEF ApplyImportOptions, Fail, Continue
  <2>2. Watched' /\ HeaderRead' /\ LayoutChecked' /\ PayloadRead' /\ GroupsPassed'
    BY <1>1, <2>1, DecodedOn DEF Decoded
  <2>3. FullImport' /\ Counted' /\ WorkerDone'
    BY <1>1, <2>1 DEF FullImport, Counted, WorkerDone
  <2>4. StatsTaken'
    BY <1>1, <2>1 DEF IInv, StatsTaken, Measured, IsFull, IsStats
  <2> QED BY <2>2, <2>3, <2>4 DEF IInv
<1> QED BY <1>2, <1>3

(* What was authored before is what is decoded.                            *)
LEMMA AdjustStatsStep == IInv /\ AdjustStats => IInv'
<1> SUFFICES ASSUME IInv, AdjustStats PROVE IInv'
  OBVIOUS
<1>1. /\ pc = "adjust" /\ pc' = "author" /\ worker = "none" /\ ~request.metadataOnly
      /\ UNCHANGED <<setting, file, seen, request, header, document, group, cloud, worker>>
  BY DEF AdjustStats, Continue, fileVars, decodeVars, authorVars, IInv, WorkerDone, FullImport
<1>2. Watched' /\ HeaderRead' /\ LayoutChecked' /\ PayloadRead' /\ GroupsPassed'
  BY <1>1, DecodedOn DEF Decoded
<1>3. FullImport' /\ Counted' /\ WorkerDone'
  BY <1>1 DEF FullImport, Counted, WorkerDone
<1>4. ASSUME request.stats
      PROVE  /\ stats'.decoded = header.count /\ stats'.authored = Len(cloud.gaussians)
             /\ stats'.rejected = stats'.decoded - stats'.authored
             /\ stats'.sourceBytes \in {v.size : v \in seen}
  <2>1. /\ stats.decoded = header.count /\ stats.authored = header.count
        /\ stats.sourceBytes \in {v.size : v \in seen} /\ IsStats(stats)
    BY <1>1, <1>4 DEF IInv, StatsTaken, Measured
  <2>2. stats' = [stats EXCEPT !.authored = Len(cloud.gaussians),
                               !.rejected = stats.authored - Len(cloud.gaussians)]
    BY <1>4 DEF AdjustStats
  <2>3. /\ stats'.decoded = stats.decoded /\ stats'.sourceBytes = stats.sourceBytes
        /\ stats'.authored = Len(cloud.gaussians)
        /\ stats'.rejected = stats.authored - Len(cloud.gaussians)
    BY <2>1, <2>2 DEF IsStats
  <2> QED BY <2>1, <2>3
<1>5. StatsTaken'
  BY <1>1, <1>4 DEF StatsTaken, Measured, IsFull
<1> QED BY <1>2, <1>3, <1>5 DEF IInv

(* ---- Two threads ------------------------------------------------------- *)

Authoring == {"author", "join", "transfer"}

(* While the worker runs, and until the caller has its result, nothing of  *)
(* what it reads is touched.                                               *)
LEMMA AuthoringOn ==
  ASSUME IInv, UNCHANGED <<setting, file, seen, request, header, document, group, cloud, stats>>,
         pc \in Authoring, pc' \in Authoring, WorkerDone'
  PROVE  IInv'
<1>1. pc \in Decoded /\ pc' \in Decoded
  BY DEF Authoring, Decoded
<1>2. Watched' /\ HeaderRead' /\ LayoutChecked' /\ PayloadRead' /\ GroupsPassed'
  BY <1>1, DecodedOn
<1>3. FullImport' /\ Counted'
  BY DEF FullImport, Counted, Authoring
<1>4. StatsTaken'
  BY DEF IInv, StatsTaken, Measured, IsFull, Authoring
<1> QED BY <1>2, <1>3, <1>4 DEF IInv

LEMMA StartWorkerStep == IInv /\ StartWorker => IInv'
<1> SUFFICES ASSUME IInv, StartWorker PROVE IInv'
  OBVIOUS
<1>1. /\ pc = "author" /\ pc' = "join" /\ worker' = "running"
      /\ UNCHANGED <<setting, file, seen, request, header, document, group, cloud, stats>>
  BY DEF StartWorker, Spawn, Continue, fileVars, decodeVars
<1>2. WorkerDone'
  BY <1>1 DEF WorkerDone
<1> QED BY <1>1, <1>2, AuthoringOn DEF Authoring

LEMMA WorkerStep == IInv /\ Worker => IInv'
<1> SUFFICES ASSUME IInv, Worker PROVE IInv'
  OBVIOUS
<1>1. /\ pc = "join" /\ pc' = "join" /\ worker' \in {"true", "false", "threw"}
      /\ UNCHANGED <<setting, file, seen, request, header, document, group, cloud, stats>>
  BY DEF Worker, WorkerAuthors, WorkerThrows, Author, EndByException, fileVars,
     decodeVars, IInv, WorkerDone
<1>2. worker' = "true" =>
        generated' = IF request.metadataOnly THEN Metadata(header, request)
                     ELSE Full(cloud)
  BY DEF Worker, WorkerAuthors, WorkerThrows, Author, EndByException
<1>3. WorkerDone'
  BY <1>1, <1>2 DEF WorkerDone, Metadata, Full
<1> QED BY <1>1, <1>3, AuthoringOn DEF Authoring

LEMMA JoinStep == IInv /\ Join => IInv'
<1> SUFFICES ASSUME IInv, Join PROVE IInv'
  OBVIOUS
<1>1. /\ pc = "join" /\ worker \in {"true", "false", "threw"}
      /\ (pc' = "transfer" /\ worker = "true") \/ pc' = "return"
      /\ UNCHANGED <<setting, file, seen, request, header, document, group, cloud, stats,
                     worker, generated>>
  BY DEF Join, Get, fileVars, decodeVars, authorVars
<1>2. CASE pc' = "return"
  BY <1>1, <1>2, Returning
<1>3. CASE pc' = "transfer" /\ worker = "true"
  <2>1. WorkerDone'
    BY <1>1, <1>3 DEF IInv, WorkerDone, Metadata, Full
  <2> QED BY <1>1, <1>3, <2>1, AuthoringOn DEF Authoring
<1> QED BY <1>1, <1>2, <1>3

LEMMA NextIInv == IInv /\ [Next]_vars => IInv'
<1> SUFFICES ASSUME IInv, [Next]_vars PROVE IInv'
  OBVIOUS
<1>1. CASE EditFile \/ Call \/ Worker
  BY <1>1, EditFileStep, CallStep, WorkerStep
<1>2. CASE ParseArguments \/ ReadHeader \/ CheckLayout \/ ReadPayload
           \/ AssembleGroup \/ FinishDecode
  BY <1>2, ParseArgumentsStep, ReadHeaderStep, CheckLayoutStep, ReadPayloadStep,
     AssembleGroupStep, FinishDecodeStep
<1>3. CASE MeasureSource \/ Warn \/ ApplyImportOptions \/ AdjustStats
           \/ StartWorker \/ Join
  BY <1>3, MeasureSourceStep, WarnStep, ApplyImportOptionsStep, AdjustStatsStep,
     StartWorkerStep, JoinStep
<1>4. CASE TransferContent \/ Return
  BY <1>4, Leaving DEF TransferContent, Return
<1>5. CASE UNCHANGED vars
  <2>1. UNCHANGED <<setting, file, seen, request, pc, header, document, group, cloud,
                    stats, worker, generated>>
    BY <1>5 DEF vars, fileVars, decodeVars, authorVars
  <2>2. Watched' /\ HeaderRead' /\ LayoutChecked' /\ FullImport' /\ Counted'
    BY <2>1 DEF IInv, Watched, HeaderRead, LayoutChecked, FullImport, Counted
  <2>3. PayloadRead'
    BY <2>1 DEF IInv, PayloadRead, IsFull, HasRequested
  <2>4. GroupsPassed'
    BY <2>1 DEF IInv, GroupsPassed, IsFull, Passes, NeedsColumns, TakesColumns,
       ValueProblem
  <2>5. StatsTaken' /\ WorkerDone'
    BY <2>1 DEF IInv, StatsTaken, IsFull, Measured, IsStats, WorkerDone, Metadata, Full
  <2> QED BY <2>2, <2>3, <2>4, <2>5 DEF IInv
<1> QED BY <1>1, <1>2, <1>3, <1>4, <1>5 DEF Next, Caller

(* ---- Of every import --------------------------------------------------- *)

THEOREM Invariance == Spec => []IInv
<1>1. Init => IInv
  BY InitIInv
<1>2. IInv /\ [Next]_vars => IInv'
  BY NextIInv
<1> QED BY <1>1, <1>2, PTL DEF Spec

(* The first group that is always taken compares the lengths.              *)
LEMMA ColumnsAreTaken ==
  ASSUME \A n \in DOMAIN Groups : Passes(Groups[n])
  PROVE  document.header.count = header.count
<1>1. 1 \in DOMAIN Groups /\ Groups[1] = "positions"
  BY DEF Groups
<1>2. Passes("positions")
  BY <1>1
<1> QED BY <1>2 DEF Passes, NeedsColumns, TakesColumns

(* The statistics of an import account for every Gaussian of the file that *)
(* was read, whatever is replaced meanwhile.                               *)
THEOREM StatisticsAccount == Spec => []StatsAccountForEveryGaussian
<1>1. IInv => StatsAccountForEveryGaussian
  <2> SUFFICES ASSUME IInv, Imported, request.stats
               PROVE  /\ stats.decoded = document.header.count
                      /\ stats.authored = generated.count
                      /\ stats.rejected = stats.decoded - stats.authored
                      /\ stats.sourceBytes \in {v.size : v \in seen}
    BY DEF StatsAccountForEveryGaussian
  <2>1. pc = "transfer" /\ ~request.metadataOnly
    BY DEF Imported
  <2>2. /\ Measured /\ stats.authored = Len(cloud.gaussians)
        /\ stats.rejected = stats.decoded - stats.authored
    BY <2>1 DEF IInv, StatsTaken, IsFull
  <2>3. document.header.count = header.count
    BY <2>1, ColumnsAreTaken DEF IInv, GroupsPassed, IsFull, Decoded
  <2>4. generated.count = Len(cloud.gaussians)
    BY <2>1 DEF IInv, WorkerDone, Full
  <2> QED BY <2>2, <2>3, <2>4 DEF Measured
<1> QED BY <1>1, Invariance, PTL

(* What passes as a group holds values that decode.                        *)
LEMMA ValuesDecode ==
  ASSUME \A n \in DOMAIN Groups : Passes(Groups[n]), NEW n \in DOMAIN document.row
  PROVE  /\ document.row[n].scale \in 0 .. ScaleMax
         /\ {"positions", "scales", "rotations", "opacities", "dcCoefficients"}
              \cap document.row[n].bad = {}
         /\ RestCount(header) > 0 => "restCoefficients" \notin document.row[n].bad
<1> DEFINE rows == {document.row[m] : m \in DOMAIN document.row}
           Bad(name) == \E row \in rows : name \in row.bad
<1>1. /\ ValueProblem("positions") = "" /\ ValueProblem("scales") = ""
      /\ ValueProblem("rotations") = "" /\ ValueProblem("opacities") = ""
      /\ ValueProblem("dcCoefficients") = "" /\ ValueProblem("restCoefficients") = ""
  <2>1. /\ DOMAIN Groups = 1 .. 6 /\ Groups[1] = "positions" /\ Groups[2] = "scales"
        /\ Groups[3] = "rotations" /\ Groups[4] = "opacities"
        /\ Groups[5] = "dcCoefficients" /\ Groups[6] = "restCoefficients"
    BY DEF Groups
  <2>2. /\ Passes(Groups[1]) /\ Passes(Groups[2]) /\ Passes(Groups[3])
        /\ Passes(Groups[4]) /\ Passes(Groups[5]) /\ Passes(Groups[6])
    <3>1. \A m \in 1 .. 6 : Passes(Groups[m])
      BY <2>1
    <3> QED BY <3>1
  <2>3. /\ Passes("positions") /\ Passes("scales") /\ Passes("rotations")
        /\ Passes("opacities") /\ Passes("dcCoefficients") /\ Passes("restCoefficients")
    BY <2>1, <2>2
  <2> QED BY <2>3 DEF Passes
<1>2. document.row[n] \in rows
  OBVIOUS
<1>3. ~Bad("positions") /\ ~Bad("rotations") /\ ~Bad("opacities") /\ ~Bad("dcCoefficients")
  BY <1>1 DEF ValueProblem, Check
<1>4. ~(Bad("restCoefficients") /\ RestCount(header) > 0)
  BY <1>1 DEF ValueProblem, Check
<1>5. ~Bad("scales") /\ ~\E row \in rows : row.scale \notin 0 .. ScaleMax
  <2> DEFINE a == Check(Bad("scales"), "nonFiniteValue")
             b == Check(\E row \in rows : row.scale \notin 0 .. ScaleMax, "logScaleOverflow")
  <2>1. FirstFailure(<<a, b>>) = NoProblem
    BY <1>1 DEF ValueProblem, NoProblem
  <2>2. a = NoProblem /\ b = NoProblem
    <3> HIDE DEF a, b
    <3> QED BY <2>1, TwoPass
  <2> QED BY <2>2 DEF Check, NoProblem
<1> HIDE DEF rows
<1> QED BY <1>2, <1>3, <1>4, <1>5

(* Every check of a call holds of the very versions its layer is made of.  *)
THEOREM ImportsWereChecked == Spec => []AuthoredFromChecked
<1>1. IInv => AuthoredFromChecked
  <2> SUFFICES ASSUME IInv, Imported PROVE AuthoredFromChecked
    BY DEF AuthoredFromChecked
  <2>1. pc = "transfer" /\ ~request.metadataOnly /\ IsFull(Payload) /\ IsFull(Decoded)
        /\ pc \in Headed /\ pc \in Accepted
    BY DEF Imported, IsFull, Headed, Accepted, Payload, Decoded
  <2>2. PICK v \in seen : v.opens /\ header = v.header
    BY <2>1 DEF IInv, HeaderRead
  <2>3. request.valid /\ ValidateHeaderLayout(header) = ""
    BY <2>1 DEF IInv, HeaderRead, LayoutChecked
  <2>4. document \in seen /\ document.opens /\ HasRequested(document) /\ document.payload
    BY <2>1 DEF IInv, PayloadRead
  <2>5. \A n \in DOMAIN Groups : Passes(Groups[n])
    BY <2>1 DEF IInv, GroupsPassed
  <2>6. document.header.count = header.count
    BY <2>5, ColumnsAreTaken
  <2>7. \A n \in DOMAIN document.row :
          /\ document.row[n].scale \in 0 .. ScaleMax
          /\ {"positions", "scales", "rotations", "opacities", "dcCoefficients"}
               \cap document.row[n].bad = {}
          /\ RestCount(header) > 0 => "restCoefficients" \notin document.row[n].bad
    BY <2>5, ValuesDecode
  <2>8. generated = Full(cloud)
    BY <2>1 DEF IInv, WorkerDone
  <2> QED BY <2>2, <2>3, <2>4, <2>6, <2>7, <2>8 DEF AuthoredFromChecked
<1> QED BY <1>1, Invariance, PTL

(* ---- The survivors of the filter --------------------------------------- *)

IsInOrder(s, S) ==
  /\ s \in [1 .. Cardinality(S) -> S]
  /\ \A m, n \in DOMAIN s : m < n => s[m] < s[n]

LEMMA CanBeOrdered ==
  ASSUME NEW k \in Nat, NEW S, S \subseteq 0 .. k - 1
  PROVE  IsFiniteSet(S) /\ Cardinality(S) \in Nat /\ \E s : IsInOrder(s, S)
<1>1. ASSUME NEW n \in Nat, NEW T, T \subseteq 0 .. n - 1
      PROVE  IsFiniteSet(T) /\ Cardinality(T) \in Nat
  <2>1. IsFiniteSet(0 .. n - 1)
    BY FS_Interval
  <2>2. IsFiniteSet(T)
    BY <1>1, <2>1, FS_Subset
  <2> QED BY <2>2, FS_CardinalityType
<1> DEFINE Unordered == {n \in Nat : \E T : T \subseteq 0 .. n - 1 /\ ~\E s : IsInOrder(s, T)}
<1>2. Unordered = {}
  <2> SUFFICES ASSUME Unordered # {} PROVE FALSE
    OBVIOUS
  <2>1. PICK n \in Unordered : \A m \in Unordered : n <= m
    BY HasLeast
  <2>2. n \in Nat
    OBVIOUS
  <2>3. PICK T : T \subseteq 0 .. n - 1 /\ ~\E s : IsInOrder(s, T)
    OBVIOUS
  <2>4. IsFiniteSet(T) /\ Cardinality(T) \in Nat
    BY <1>1, <2>2, <2>3
  <2>5. CASE n = 0
    <3>1. T = {}
      BY <2>3, <2>5
    <3>2. Cardinality(T) = 0
      BY <3>1, FS_EmptySet
    <3>3. IsInOrder([m \in 1 .. 0 |-> 0], T)
      BY <3>2 DEF IsInOrder
    <3> QED BY <2>3, <3>3
  <2>6. CASE n # 0
    <3> DEFINE l == n - 1
    <3>1. l \in Nat /\ l \notin Unordered
      <4>1. l \in Nat /\ ~(n <= l)
        BY <2>2, <2>6
      <4> QED BY <2>1, <4>1
    <3>2. \A U : U \subseteq 0 .. l - 1 => \E s : IsInOrder(s, U)
      BY <3>1
    <3> HIDE DEF Unordered
    <3>3. CASE l \notin T
      <4>1. T \subseteq 0 .. l - 1
        BY <2>2, <2>3, <3>3
      <4> QED BY <2>3, <3>2, <4>1
    <3>4. CASE l \in T
      <4> DEFINE U == T \ {l}
      <4>1. U \subseteq 0 .. l - 1
        BY <2>2, <2>3
      <4>2. PICK s : IsInOrder(s, U)
        BY <3>2, <4>1
      <4>3. IsFiniteSet(U) /\ Cardinality(U) \in Nat /\ Cardinality(U) = Cardinality(T) - 1
        BY <1>1, <2>4, <3>1, <3>4, <4>1, FS_RemoveElement
      <4> DEFINE c == Cardinality(T)
                 t == [m \in 1 .. c |-> IF m = c THEN l ELSE s[m]]
      <4>4. c \in Nat /\ Cardinality(U) = c - 1 /\ c >= 1
        BY <2>4, <4>3
      <4>5. s \in [1 .. c - 1 -> U] /\ \A i, j \in 1 .. c - 1 : i < j => s[i] < s[j]
        BY <4>2, <4>4 DEF IsInOrder
      <4>6. \A m \in 1 .. c : m # c => m \in 1 .. c - 1
        BY <4>4
      <4> HIDE DEF c, U, l
      <4>7. U \subseteq T /\ l \in T
        BY <3>4 DEF U
      <4>8. t \in [1 .. c -> T]
        BY <4>5, <4>6, <4>7
      <4>9. ASSUME NEW i \in 1 .. c, NEW j \in 1 .. c, i < j PROVE t[i] < t[j]
        <5>1. i # c /\ i \in 1 .. c - 1
          BY <4>4, <4>9
        <5>2. t[i] = s[i] /\ s[i] \in 0 .. l - 1
          BY <4>1, <4>5, <5>1
        <5>3. CASE j = c
          <6>1. t[j] = l
            BY <5>3
          <6> QED BY <3>1, <5>2, <6>1
        <5>4. CASE j # c
          <6>1. t[j] = s[j] /\ j \in 1 .. c - 1
            BY <4>6, <5>4
          <6> QED BY <4>5, <4>9, <5>1, <5>2, <6>1
        <5> QED BY <5>3, <5>4
      <4>10. IsInOrder(t, T)
        BY <4>8, <4>9 DEF IsInOrder, c
      <4> QED BY <2>3, <4>10
    <3> QED BY <3>3, <3>4
  <2> QED BY <2>5, <2>6
<1> QED BY <1>1, <1>2

LEMMA Ordered ==
  ASSUME NEW k \in Nat, NEW S, S \subseteq 0 .. k - 1
  PROVE  /\ Cardinality(S) \in Nat /\ InOrder(S) \in [1 .. Cardinality(S) -> S]
         /\ DOMAIN InOrder(S) = 1 .. Cardinality(S)
         /\ \A m \in DOMAIN InOrder(S) : InOrder(S)[m] \in S
<1>1. Cardinality(S) \in Nat /\ \E s : IsInOrder(s, S)
  BY CanBeOrdered
<1>2. \E s \in [1 .. Cardinality(S) -> S] : \A m, n \in DOMAIN s : m < n => s[m] < s[n]
  BY <1>1 DEF IsInOrder
<1>3. InOrder(S) \in [1 .. Cardinality(S) -> S]
  BY <1>2, Zenon DEF InOrder
<1> QED BY <1>1, <1>3

(* ---- What the cloud is ------------------------------------------------- *)

(* The header has been accepted, and the payload has its length.           *)
Matching ==
  /\ IsHeader(header) /\ IsGaussianLayout(header) /\ IsRequest(request)
  /\ IsVersion(document) /\ document.payload /\ document.header.count = header.count

Decoding == FlipYZAxes(DecodedCloud)

RowOf(n) == [row |-> n - 1, scale |-> document.row[n - 1].scale,
             opacity |-> document.row[n - 1].opacity]

LEMMA DecodingIs ==
  Decoding = [frame |-> "RUB", shDegree |-> HeaderShDegree(header),
              gaussians |-> [n \in 1 .. header.count |-> RowOf(n)],
              rest |-> RestOf(document, RestPerChannel(header))]
<1> DEFINE degree    == HeaderShDegree(header)
           gaussians == [n \in 1 .. header.count |-> RowOf(n)]
           rest      == RestOf(document, RestPerChannel(header))
<1>1. DecodedCloud = [frame |-> "RDF", shDegree |-> degree,
                      gaussians |-> gaussians, rest |-> rest]
  BY DEF DecodedCloud, RowOf
<1> HIDE DEF degree, gaussians, rest
<1>2. Decoding = [frame |-> "RUB", shDegree |-> degree,
                  gaussians |-> gaussians, rest |-> rest]
  BY <1>1 DEF Decoding, FlipYZAxes
<1> QED BY <1>2 DEF degree, gaussians, rest

LEMMA RowsAreThere ==
  ASSUME Matching
  PROVE  /\ header.count \in Nat /\ header.count > 0
         /\ DOMAIN document.row = 0 .. header.count - 1
         /\ \A n \in DOMAIN document.row :
              document.row[n].scale \in Int /\ document.row[n].opacity \in Int
<1>1. header.count \in Nat /\ header.count \in 1 .. kMaxGaussianCount
  BY DEF Matching, IsHeader, IsGaussianLayout
<1> QED BY <1>1, LimitAssumption DEF Matching, IsVersion

(* What the gate looks at has been looked at value by value.               *)
LEMMA DecodingIsValid ==
  ASSUME Matching,
         \A n \in DOMAIN document.row : document.row[n].scale \in 0 .. ScaleMax
  PROVE  IsValidCloud(Decoding)
<1> DEFINE degree    == HeaderShDegree(header)
           gaussians == [n \in 1 .. header.count |-> RowOf(n)]
           rest      == RestOf(document, RestPerChannel(header))
<1>1. Decoding.shDegree = degree /\ Decoding.gaussians = gaussians /\ Decoding.rest = rest
  BY DecodingIs
<1>2. header.count \in Nat /\ header.count > 0 /\ DOMAIN document.row = 0 .. header.count - 1
  BY RowsAreThere
<1>3. Len(gaussians) > 0 /\ DOMAIN gaussians = 1 .. header.count
  BY <1>2
<1>4. /\ degree \in 0 .. kMaxShDegree /\ RestPerChannel(header) = RestPerGaussian(degree)
      /\ RestPerChannel(header) \in Nat
  BY GaussianLayout DEF Matching
<1>5. Len(rest) = RestPerGaussian(degree)
  BY <1>4 DEF RestOf
<1>6. ASSUME NEW n \in 1 .. header.count PROVE gaussians[n].scale \in 0 .. ScaleMax
  <2>1. n - 1 \in DOMAIN document.row
    BY <1>2
  <2>2. gaussians[n].scale = document.row[n - 1].scale
    BY DEF RowOf
  <2> QED BY <2>1, <2>2
<1> HIDE DEF degree, gaussians, rest
<1> QED BY <1>1, <1>3, <1>4, <1>5, <1>6 DEF IsValidCloud

Kept == {g \in 0 .. header.count - 1 : document.row[g].opacity >= request.opacityThreshold}

Survivor(g) == [row |-> g, scale |-> document.row[g].scale + request.scaleShift,
                opacity |-> document.row[g].opacity]

LEMMA KeptAreOrdered ==
  ASSUME Matching
  PROVE  /\ Survivors(document, request) = InOrder(Kept)
         /\ Cardinality(Kept) \in Nat /\ DOMAIN InOrder(Kept) = 1 .. Cardinality(Kept)
         /\ InOrder(Kept) \in [1 .. Cardinality(Kept) -> Kept]
         /\ \A n \in DOMAIN InOrder(Kept) :
              InOrder(Kept)[n] \in Kept /\ InOrder(Kept)[n] \in DOMAIN document.row
<1>1. Survivors(document, request) = InOrder(Kept)
  BY DEF Survivors, Kept, Matching
<1>2. /\ header.count \in Nat /\ Kept \subseteq 0 .. header.count - 1
      /\ Kept \subseteq DOMAIN document.row
  BY RowsAreThere DEF Kept
<1> QED BY <1>1, <1>2, Ordered

(* Options scale and filter the rows, and cut the coefficients off.        *)
LEMMA AppliedIs ==
  ASSUME Matching
  PROVE  Applied(Decoding) =
           [frame |-> "RUB",
            shDegree |-> EffectiveShDegree(request, HeaderShDegree(header)),
            gaussians |-> [n \in DOMAIN InOrder(Kept) |-> Survivor(InOrder(Kept)[n])],
            rest |-> Truncated(RestOf(document, RestPerChannel(header)),
                       EffectiveShDegree(request, HeaderShDegree(header)))]
<1> DEFINE d      == HeaderShDegree(header)
           rest   == RestOf(document, RestPerChannel(header))
           scaled == [n \in DOMAIN Decoding.gaussians |->
                        [Decoding.gaussians[n] EXCEPT !.scale = @ + request.scaleShift]]
           loud   == {g \in 0 .. Len(scaled) - 1 :
                        scaled[g + 1].opacity >= request.opacityThreshold}
           kept   == InOrder(loud)
           degree == EffectiveShDegree(request, d)
<1>1. header.count \in Nat
  BY RowsAreThere
<1>2. /\ Decoding = [frame |-> "RUB", shDegree |-> d,
                     gaussians |-> [n \in 1 .. header.count |-> RowOf(n)], rest |-> rest]
  BY DecodingIs
<1>3. /\ DOMAIN Decoding.gaussians = 1 .. header.count
      /\ \A n \in 1 .. header.count : Decoding.gaussians[n] = RowOf(n)
  BY <1>2
<1>4. DOMAIN scaled = 1 .. header.count /\ Len(scaled) = header.count
  BY <1>1, <1>3
<1>5. ASSUME NEW g \in 0 .. header.count - 1
      PROVE  scaled[g + 1] = Survivor(g)
  <2>1. g + 1 \in 1 .. header.count /\ (g + 1) - 1 = g
    BY <1>1
  <2>2. Decoding.gaussians[g + 1] =
          [row |-> g, scale |-> document.row[g].scale, opacity |-> document.row[g].opacity]
    BY <1>3, <2>1 DEF RowOf
  <2> DEFINE s == Decoding.gaussians[g + 1]
  <2>3. scaled[g + 1] = [s EXCEPT !.scale = s.scale + request.scaleShift]
    BY <1>3, <2>1, Zenon
  <2> HIDE DEF s, scaled
  <2>4. s = [row |-> g, scale |-> document.row[g].scale, opacity |-> document.row[g].opacity]
    BY <2>2 DEF s
  <2>5. [s EXCEPT !.scale = s.scale + request.scaleShift]
          = [row |-> g, scale |-> s.scale + request.scaleShift,
             opacity |-> document.row[g].opacity]
    BY <2>4
  <2> QED BY <2>3, <2>4, <2>5 DEF Survivor
<1>6. Applied(Decoding) = [frame |-> "RUB", shDegree |-> degree,
        gaussians |-> [n \in DOMAIN kept |-> scaled[kept[n] + 1]],
        rest |-> Truncated(rest, degree)]
  <2> DEFINE c == Decoding
             gaussians == [n \in DOMAIN kept |-> scaled[kept[n] + 1]]
  <2>1. Applied(c) = [c EXCEPT !.gaussians = gaussians,
                        !.shDegree = EffectiveShDegree(request, c.shDegree),
                        !.rest = Truncated(c.rest, EffectiveShDegree(request, c.shDegree))]
    BY Zenon DEF Applied
  <2>2. /\ c.shDegree = d /\ c.rest = rest
        /\ c = [frame |-> "RUB", shDegree |-> d, gaussians |-> c.gaussians, rest |-> rest]
    BY <1>2
  <2>3. Applied(c) = [c EXCEPT !.gaussians = gaussians, !.shDegree = degree,
                        !.rest = Truncated(rest, degree)]
    <3> HIDE DEF c, gaussians, rest, d
    <3> QED BY <2>1, <2>2, Zenon
  <2> HIDE DEF gaussians, degree, rest, c, d
  <2>4. Applied(c) = [frame |-> "RUB", shDegree |-> degree, gaussians |-> gaussians,
                      rest |-> Truncated(rest, degree)]
    <3> DEFINE g == c.gaussians
               e == Truncated(rest, degree)
    <3>1. c = [frame |-> "RUB", shDegree |-> d, gaussians |-> g, rest |-> rest]
      BY <2>2
    <3>2. Applied(c) = [c EXCEPT !.gaussians = gaussians, !.shDegree = degree, !.rest = e]
      BY <2>3
    <3> HIDE DEF g, e
    <3>3. [[frame |-> "RUB", shDegree |-> d, gaussians |-> g, rest |-> rest]
             EXCEPT !.gaussians = gaussians]
            = [frame |-> "RUB", shDegree |-> d, gaussians |-> gaussians, rest |-> rest]
      OBVIOUS
    <3>4. [[frame |-> "RUB", shDegree |-> d, gaussians |-> gaussians, rest |-> rest]
             EXCEPT !.shDegree = degree]
            = [frame |-> "RUB", shDegree |-> degree, gaussians |-> gaussians, rest |-> rest]
      OBVIOUS
    <3>5. [[frame |-> "RUB", shDegree |-> degree, gaussians |-> gaussians, rest |-> rest]
             EXCEPT !.rest = e]
            = [frame |-> "RUB", shDegree |-> degree, gaussians |-> gaussians, rest |-> e]
      OBVIOUS
    <3>6. Applied(c)
            = [frame |-> "RUB", shDegree |-> degree, gaussians |-> gaussians, rest |-> e]
      BY <3>1, <3>2, <3>3, <3>4, <3>5, Zenon
    <3> QED BY <3>6 DEF e
  <2> QED BY <2>4 DEF gaussians, c
<1> HIDE DEF scaled
<1>7. kept = InOrder(Kept)
  <2>1. ASSUME NEW g \in 0 .. header.count - 1
        PROVE  scaled[g + 1].opacity = document.row[g].opacity
    <3>1. scaled[g + 1] = Survivor(g)
      BY <1>5
    <3>2. Survivor(g).opacity = document.row[g].opacity
      BY DEF Survivor
    <3> QED BY <3>1, <3>2
  <2>2. \A g : g \in loud <=> g \in Kept
    BY <1>4, <2>1 DEF Kept
  <2>3. loud = Kept
    <3> HIDE DEF loud
    <3> QED BY <2>2
  <2> QED BY <2>3, Zenon
<1> HIDE DEF kept
<1>8. \A n \in DOMAIN InOrder(Kept) : scaled[InOrder(Kept)[n] + 1] = Survivor(InOrder(Kept)[n])
  <2>1. \A g \in Kept : g \in 0 .. header.count - 1
    BY DEF Kept
  <2> QED BY <1>5, <2>1, KeptAreOrdered
<1>9. [n \in DOMAIN kept |-> scaled[kept[n] + 1]]
        = [n \in DOMAIN InOrder(Kept) |-> Survivor(InOrder(Kept)[n])]
  BY <1>7, <1>8
<1> QED BY <1>6, <1>9

(* ---- The layer it means ------------------------------------------------ *)

LEMMA RestGrows ==
  ASSUME NEW d \in 0 .. kMaxShDegree, NEW e \in 0 .. kMaxShDegree, d <= e
  PROVE  /\ RestPerGaussian(d) \in Nat /\ RestPerGaussian(e) \in Nat
         /\ RestPerGaussian(d) <= RestPerGaussian(e)
<1>1. \A n \in 0 .. 3 : n = 0 \/ n = 1 \/ n = 2 \/ n = 3
  OBVIOUS
<1>2. /\ RestPerGaussian(0) = 0 /\ RestPerGaussian(1) = 3
      /\ RestPerGaussian(2) = 8 /\ RestPerGaussian(3) = 15
  BY DEF RestPerGaussian, CoefficientsPerGaussian
<1>3. /\ d = 0 \/ d = 1 \/ d = 2 \/ d = 3
      /\ e = 0 \/ e = 1 \/ e = 2 \/ e = 3
  BY <1>1 DEF kMaxShDegree
<1> QED BY <1>2, <1>3

(* The degree that is kept is that of the source, or a lower one.          *)
LEMMA DegreeKept ==
  ASSUME IsHeader(header), IsGaussianLayout(header), IsRequest(request)
  PROVE  /\ ImportedShDegree(header, request)
              = EffectiveShDegree(request, HeaderShDegree(header))
         /\ EffectiveShDegree(request, HeaderShDegree(header))
              \in 0 .. HeaderShDegree(header)
         /\ EffectiveShDegree(request, HeaderShDegree(header)) \in 0 .. kMaxShDegree
<1> DEFINE D == HeaderShDegree(header)
<1>1. /\ D \in 0 .. kMaxShDegree /\ Len(header.rest) = 3 * RestPerGaussian(D)
      /\ \A degree \in 0 .. kMaxShDegree :
           Len(header.rest) = 3 * RestPerGaussian(degree) => degree = D
  BY GaussianLayout
<1> HIDE DEF D
<1>2. SourceShDegree(header) = D
  BY <1>1 DEF SourceShDegree
<1>3. request.shDegree \in Int
  BY DEF IsRequest
<1>4. /\ ImportedShDegree(header, request) = EffectiveShDegree(request, D)
      /\ EffectiveShDegree(request, D) \in 0 .. D
  <2>1. D \in Nat
    BY <1>1
  <2> QED BY <1>2, <1>3, <2>1 DEF ImportedShDegree, EffectiveShDegree
<1>5. EffectiveShDegree(request, D) \in 0 .. kMaxShDegree
  <2>1. \A m \in Nat : \A n \in 0 .. m : \A l \in 0 .. n : l \in 0 .. m
    OBVIOUS
  <2> QED BY <1>1, <1>4, <2>1 DEF kMaxShDegree
<1> QED BY <1>4, <1>5 DEF D

LEMMA MeaningOfColumn ==
  ASSUME NEW v, IsHeader(v.header), NEW n
  PROVE  ColumnMeaning(v, n) = Meaning(v, n)
<1>1. {p.index : p \in Range(v.header.rest)} = Indices(v.header)
  BY DEF Range, Indices
<1> QED BY <1>1 DEF ColumnMeaning, Meaning, RestPerChannel, RestCount

(* A coefficient's three channels, in one version of the file and in two.  *)
RestMeant(v, per, n) ==
  [c \in 1 .. n |-> [ch \in 1 .. 3 |->
     IF v = document THEN [channel |-> ch - 1, coefficient |-> c - 1]
     ELSE ColumnMeaning(document, (ch - 1) * per + c - 1)]]

LEMMA RestIsMeant ==
  ASSUME Matching, NEW v, v.header = header, NEW degree \in 0 .. kMaxShDegree,
         degree <= HeaderShDegree(header)
  PROVE  Truncated(RestOf(document, RestPerChannel(header)), degree)
           = RestMeant(v, RestPerChannel(header), RestPerGaussian(degree))
<1> DEFINE per == RestPerChannel(header)
           n   == RestPerGaussian(degree)
           s   == RestOf(document, per)
<1>1. /\ HeaderShDegree(header) \in 0 .. kMaxShDegree
      /\ per = RestPerGaussian(HeaderShDegree(header)) /\ per \in Nat
  BY GaussianLayout DEF Matching
<1>2. n \in Nat /\ n <= per
  BY <1>1, RestGrows
<1>3. s = [c \in 1 .. per |-> [ch \in 1 .. 3 |-> Meaning(document, (ch - 1) * per + c - 1)]]
  BY DEF RestOf
<1>4. Truncated(s, degree) = [c \in 1 .. n |-> s[c]]
  <2> HIDE DEF n, s
  <2>1. Truncated(s, degree) = SubSeq(s, 1, n)
    BY DEF Truncated, n
  <2>2. \A c \in 1 .. n : 1 + c - 1 = c
    BY <1>2
  <2> QED BY <1>2, <2>1, <2>2
<1>5. ASSUME NEW c \in 1 .. n, NEW ch \in 1 .. 3
      PROVE  Meaning(document, (ch - 1) * per + c - 1)
               = IF v = document THEN [channel |-> ch - 1, coefficient |-> c - 1]
                 ELSE ColumnMeaning(document, (ch - 1) * per + c - 1)
  <2>1. CASE v = document
    <3>1. RestPerChannel(document.header) = per
      BY <2>1
    <3>2. ch - 1 \in 0 .. 2 /\ c - 1 \in 0 .. per - 1
      BY <1>1, <1>2
    <3>3. (ch - 1) * per + c - 1 = (ch - 1) * per + (c - 1)
      <4>1. \A a, b \in Int : a + b - 1 = a + (b - 1)
        OBVIOUS
      <4>2. (ch - 1) * per \in Int /\ c \in Int
        BY <1>1, <1>2
      <4> QED BY <4>1, <4>2
    <3> HIDE DEF per
    <3>4. /\ ((ch - 1) * per + (c - 1)) \div per = ch - 1
          /\ ((ch - 1) * per + (c - 1)) % per = c - 1
      BY <1>1, <3>2, ChannelOfColumn
    <3> QED BY <2>1, <3>1, <3>3, <3>4, Zenon DEF Meaning
  <2>2. CASE v # document
    <3>1. IsHeader(document.header)
      BY DEF Matching, IsVersion
    <3> QED BY <2>2, <3>1, MeaningOfColumn
  <2> QED BY <2>1, <2>2
<1>6. \A c \in 1 .. n : c \in 1 .. per
  BY <1>1, <1>2
<1> HIDE DEF per, n, s
<1>7. ASSUME NEW c \in 1 .. n
      PROVE  s[c] = [ch \in 1 .. 3 |->
                       IF v = document THEN [channel |-> ch - 1, coefficient |-> c - 1]
                       ELSE ColumnMeaning(document, (ch - 1) * per + c - 1)]
  <2>1. s[c] = [ch \in 1 .. 3 |-> Meaning(document, (ch - 1) * per + c - 1)]
    BY <1>3, <1>6
  <2> QED BY <1>5, <2>1, Zenon
<1>8. [c \in 1 .. n |-> s[c]] = RestMeant(v, per, n)
  BY <1>7, Zenon DEF RestMeant
<1> QED BY <1>4, <1>8 DEF per, n, s

(* What the writer is given is the content the reading has.                *)
LEMMA ContentIs ==
  ASSUME Matching, ~request.metadataOnly, NEW v, v.header = header
  PROVE  Content([head |-> v, body |-> document], request) = Full(Applied(Decoding))
<1> DEFINE x      == [head |-> v, body |-> document]
           D      == HeaderShDegree(header)
           degree == EffectiveShDegree(request, D)
           per    == RestPerChannel(header)
           kept   == InOrder(Kept)
           rows   == [n \in DOMAIN kept |-> Survivor(kept[n])]
           rest   == RestMeant(v, per, RestPerGaussian(degree))
           meant  == [frame |-> "RUB", shDegree |-> degree, gaussians |-> rows, rest |-> rest]
<1>1. x.head.header = header /\ x.body = document /\ x.head = v
  OBVIOUS
<1>2. /\ degree = ImportedShDegree(header, request) /\ degree \in 0 .. kMaxShDegree
      /\ degree <= D
  BY DegreeKept DEF Matching
<1>3. Survivors(document, request) = kept /\ DOMAIN kept = 1 .. Cardinality(Kept)
      /\ Cardinality(Kept) \in Nat /\ kept \in [1 .. Cardinality(Kept) -> Kept]
  BY KeptAreOrdered
<1>4. per = Len(header.rest) \div 3
  BY GaussianLayout DEF Matching, RestPerChannel
<1>5. Applied(Decoding) = meant
  <2>1. Truncated(RestOf(document, per), degree) = rest
    BY <1>2, RestIsMeant
  <2> QED BY <2>1, AppliedIs, Zenon
<1>6. Len(rows) = Len(kept)
  <2> HIDE DEF kept
  <2>1. DOMAIN rows = 1 .. Cardinality(Kept)
    BY <1>3
  <2>2. Len(kept) = Cardinality(Kept)
    BY <1>3
  <2> QED BY <1>3, <2>1, <2>2
<1>7. Content(x, request)
        = [kind |-> "full", count |-> Len(kept), shDegree |-> degree,
           cloud |-> [frame |-> "RUB", shDegree |-> degree, gaussians |-> rows, rest |-> rest]]
  <2> HIDE DEF x, degree, per, kept
  <2> USE DEF Survivor, RestMeant
  <2> QED BY <1>1, <1>2, <1>3, <1>4, Zenon DEF Content
<1> HIDE DEF rows, rest, kept, degree
<1>8. Full(meant) = [kind |-> "full", count |-> Len(rows), shDegree |-> degree,
                     cloud |-> meant]
  BY DEF Full
<1> QED BY <1>5, <1>6, <1>7, <1>8

(* ---- What the writer accepts ------------------------------------------- *)

AreAuthorable ==
  \A g \in Range(Survivors(document, request)) :
    document.row[g].scale + request.scaleShift \in 0 .. ScaleMax - 1

LEMMA WriterPasses ==
  /\ request.metadataOnly => WriterProblem = ""
  /\ ~request.metadataOnly =>
       (WriterProblem = "" <=>
          IsValidCloud(cloud)
            /\ \A n \in DOMAIN cloud.gaussians : cloud.gaussians[n].scale # ScaleMax)
<1> DEFINE a == Check(~IsValidCloud(cloud), "cloudValidationFailed")
           b == Check(Observes(request.changeBlock), "scaffoldAuthoringFailed")
           c == Check(\E n \in DOMAIN cloud.gaussians : cloud.gaussians[n].scale = ScaleMax,
                      "extentOverflow")
<1>1. /\ a = NoProblem <=> IsValidCloud(cloud)
      /\ c = NoProblem <=> \A n \in DOMAIN cloud.gaussians : cloud.gaussians[n].scale # ScaleMax
  BY Zenon DEF Check, NoProblem
<1>2. ~Observes(request.changeBlock)
  BY DEF Observes, AuthoringThread
<1>3. b = NoProblem
  BY <1>2 DEF Check
<1>4. request.metadataOnly => WriterProblem = b
  BY DEF WriterProblem
<1>5. ~request.metadataOnly => WriterProblem = FirstFailure(<<a, b, c>>)
  BY DEF WriterProblem
<1> HIDE DEF a, b, c
<1>6. FirstFailure(<<a, b, c>>) = NoProblem <=> a = NoProblem /\ b = NoProblem /\ c = NoProblem
  BY ThreePass
<1> QED BY <1>1, <1>3, <1>4, <1>5, <1>6 DEF NoProblem

(* Nothing is left of the cloud when nothing is kept.                      *)
LEMMA LeftWhenKept ==
  ASSUME Matching
  PROVE  /\ Applied(Decoding).gaussians = <<>> <=> Survivors(document, request) = <<>>
         /\ Survivors(document, request) = <<>> <=> Cardinality(Kept) = 0
<1> DEFINE kept == InOrder(Kept)
           rows == [n \in DOMAIN kept |-> Survivor(kept[n])]
<1>1. Survivors(document, request) = kept /\ DOMAIN kept = 1 .. Cardinality(Kept)
      /\ Cardinality(Kept) \in Nat /\ kept \in [1 .. Cardinality(Kept) -> Kept]
  BY KeptAreOrdered
<1>2. Applied(Decoding).gaussians = rows
  BY AppliedIs
<1> HIDE DEF kept
<1>3. DOMAIN rows = 1 .. Cardinality(Kept)
  BY <1>1
<1>4. ASSUME NEW f, DOMAIN f = 1 .. Cardinality(Kept), f = [n \in DOMAIN f |-> f[n]]
      PROVE  f = <<>> <=> Cardinality(Kept) = 0
  <2>1. ASSUME f = <<>> PROVE Cardinality(Kept) = 0
    <3>1. 1 .. Cardinality(Kept) = {}
      BY <1>4, <2>1
    <3> QED BY <1>1, <3>1
  <2>2. ASSUME Cardinality(Kept) = 0 PROVE f = <<>>
    <3>1. DOMAIN f = {}
      BY <1>4, <2>2
    <3> QED BY <1>4, <3>1
  <2> QED BY <2>1, <2>2
<1>5. rows = <<>> <=> Cardinality(Kept) = 0
  <2>1. rows = [n \in DOMAIN rows |-> rows[n]]
    OBVIOUS
  <2> HIDE DEF rows
  <2> QED BY <1>3, <1>4, <2>1
<1>6. kept = <<>> <=> Cardinality(Kept) = 0
  <2>1. kept = [n \in DOMAIN kept |-> kept[n]]
    BY <1>1
  <2> QED BY <1>1, <1>4, <2>1
<1> QED BY <1>1, <1>2, <1>5, <1>6

LEMMA WriterAgrees ==
  ASSUME Matching, ~request.metadataOnly, cloud = Applied(Decoding),
         cloud.gaussians # <<>>
  PROVE  WriterProblem = "" <=> AreAuthorable
<1> DEFINE D      == HeaderShDegree(header)
           degree == EffectiveShDegree(request, D)
           kept   == InOrder(Kept)
           rows   == [n \in DOMAIN kept |-> Survivor(kept[n])]
           rest   == Truncated(RestOf(document, RestPerChannel(header)), degree)
<1>1. cloud.gaussians = rows /\ cloud.shDegree = degree /\ cloud.rest = rest
  BY AppliedIs
<1>2. degree \in 0 .. kMaxShDegree /\ degree <= D
  BY DegreeKept DEF Matching
<1>3. Len(rest) = RestPerGaussian(degree)
  <2>1. rest = RestMeant([header |-> header], RestPerChannel(header), RestPerGaussian(degree))
    BY <1>2, RestIsMeant
  <2>2. RestPerGaussian(degree) \in Nat
    BY <1>2, RestGrows
  <2> HIDE DEF rest, degree
  <2> QED BY <2>1, <2>2 DEF RestMeant
<1>4. /\ Survivors(document, request) = kept /\ DOMAIN kept = 1 .. Cardinality(Kept)
      /\ Cardinality(Kept) \in Nat
      /\ \A n \in DOMAIN kept : kept[n] \in DOMAIN document.row
  BY KeptAreOrdered
<1>5. Cardinality(Kept) # 0
  BY LeftWhenKept
<1>6. DOMAIN rows = DOMAIN kept /\ Len(rows) = Cardinality(Kept)
  <2> HIDE DEF kept
  <2> QED BY <1>4
<1>7. \A n \in DOMAIN kept :
        rows[n].scale = document.row[kept[n]].scale + request.scaleShift
  BY DEF Survivor
<1>8. \A n \in DOMAIN kept : document.row[kept[n]].scale + request.scaleShift \in Int
  <2>1. \A n \in DOMAIN kept : document.row[kept[n]].scale \in Int
    <3>1. \A m \in DOMAIN document.row : document.row[m].scale \in Int
      BY RowsAreThere
    <3> QED BY <1>4, <3>1, Zenon
  <2>2. request.scaleShift \in Int
    BY DEF Matching, IsRequest
  <2>3. \A m \in Int : m + request.scaleShift \in Int
    BY <2>2
  <2> QED BY <2>1, <2>3, Zenon
<1>9. Len(rows) > 0
  BY <1>4, <1>5, <1>6
<1> HIDE DEF rows, rest, degree, kept
<1>10. IsValidCloud(cloud) <=> \A n \in DOMAIN kept : rows[n].scale \in 0 .. ScaleMax
  BY <1>1, <1>2, <1>3, <1>6, <1>9 DEF IsValidCloud
<1>11. WriterProblem = "" <=>
         \A n \in DOMAIN kept : rows[n].scale \in 0 .. ScaleMax /\ rows[n].scale # ScaleMax
  BY <1>1, <1>6, <1>10, WriterPasses
<1>12. \A m \in Int : m \in 0 .. ScaleMax /\ m # ScaleMax <=> m \in 0 .. ScaleMax - 1
  BY ScaleMaxAssumption
<1>13. WriterProblem = "" <=>
         \A n \in DOMAIN kept :
           document.row[kept[n]].scale + request.scaleShift \in 0 .. ScaleMax - 1
  BY <1>7, <1>8, <1>11, <1>12, Zenon
<1> QED BY <1>4, <1>13, Zenon DEF AreAuthorable, Range

(* ---- The reading a call has made --------------------------------------- *)

AllPass == \A n \in DOMAIN Groups : Passes(Groups[n])

(* What the checks of a payload have shown of it.                          *)
LEMMA PayloadIsMatching ==
  ASSUME IInv, request \in Requests, IsFull(Payload), AllPass
  PROVE  /\ Matching /\ request.valid /\ HasRequested(document)
         /\ document \in seen /\ document.opens
         /\ \E v \in seen : v.opens /\ v.header = header
<1>1. pc \in Headed /\ pc \in Accepted /\ ~request.metadataOnly
  BY DEF IsFull, Headed, Accepted
<1>2. PICK v \in seen : v.opens /\ header = v.header
  BY <1>1 DEF IInv, HeaderRead
<1>3. document \in seen /\ document.opens /\ HasRequested(document) /\ document.payload
  BY DEF IInv, PayloadRead
<1>4. IsVersion(document) /\ IsVersion(v)
  BY <1>2, <1>3, SettingsAssumption DEF IInv, Watched
<1>5. IsHeader(header)
  BY <1>2, <1>4 DEF IsVersion
<1>6. IsGaussianLayout(header)
  BY <1>1, <1>5, LayoutIsAccepted DEF IInv, LayoutChecked, NoProblem
<1>7. document.header.count = header.count
  BY ColumnsAreTaken DEF AllPass
<1>8. request.valid /\ IsRequest(request)
  BY <1>1, SettingsAssumption DEF IInv, HeaderRead
<1> QED BY <1>2, <1>3, <1>4, <1>5, <1>6, <1>7, <1>8 DEF Matching

(* The columns of the payload are those a reading must have.               *)
LEMMA ColumnsAreThere ==
  ASSUME NEW v
  PROVE  HasRequested(v)
           <=> /\ Range(RequiredProperties) \subseteq v.header.scalar \ v.header.list
               /\ Indices(header)
                    \subseteq {p.index : p \in {q \in Range(v.header.rest) : q.scalar}}
<1>1. (\A n \in DOMAIN RequiredProperties :
         RequiredProperties[n] \in v.header.scalar \ v.header.list)
        <=> Range(RequiredProperties) \subseteq v.header.scalar \ v.header.list
  BY DEF Range
<1>2. \A index : index \in {p.index : p \in {q \in Range(v.header.rest) : q.scalar}}
        <=> \E n \in DOMAIN v.header.rest :
              v.header.rest[n].index = index /\ v.header.rest[n].scalar
  BY DEF Range
<1> QED BY <1>1, <1>2, Zenon DEF HasRequested

(* The rows a reading must have are those whose groups have passed.        *)
AreDecodable ==
  \A n \in DOMAIN document.row :
    /\ document.row[n].bad \subseteq
         (IF header.rest = <<>> THEN {"restCoefficients"} ELSE {})
    /\ document.row[n].scale \in 0 .. ScaleMax

LEMMA RestIsEmpty ==
  ASSUME Matching
  PROVE  header.rest = <<>> <=> ~(RestCount(header) > 0)
<1>1. RestCount(header) = Len(header.rest) /\ Len(header.rest) \in Nat
  BY GaussianLayout, RestFacts DEF Matching
<1>2. header.rest \in Seq([index : Nat \cup {BadName}, scalar : BOOLEAN])
  BY DEF Matching, IsHeader
<1>3. header.rest = <<>> <=> Len(header.rest) = 0
  BY <1>2
<1> QED BY <1>1, <1>3

LEMMA PassedIsDecodable ==
  ASSUME Matching, AllPass
  PROVE  AreDecodable
<1> SUFFICES ASSUME NEW n \in DOMAIN document.row
             PROVE  /\ document.row[n].bad \subseteq
                         (IF header.rest = <<>> THEN {"restCoefficients"} ELSE {})
                    /\ document.row[n].scale \in 0 .. ScaleMax
  BY DEF AreDecodable
<1> DEFINE bad == document.row[n].bad
<1>1. /\ document.row[n].scale \in 0 .. ScaleMax
      /\ {"positions", "scales", "rotations", "opacities", "dcCoefficients"} \cap bad = {}
      /\ RestCount(header) > 0 => "restCoefficients" \notin bad
  BY ValuesDecode DEF AllPass
<1>2. bad \subseteq Range(Groups)
  BY DEF Matching, IsVersion
<1>3. \A name \in Range(Groups) :
        name \in {"positions", "scales", "rotations", "opacities", "dcCoefficients"}
          \/ name = "restCoefficients"
  BY DEF Range, Groups
<1> HIDE DEF bad
<1>4. \A name \in bad : name = "restCoefficients" /\ ~(RestCount(header) > 0)
  BY <1>1, <1>2, <1>3
<1>5. bad \subseteq (IF header.rest = <<>> THEN {"restCoefficients"} ELSE {})
  BY <1>4, RestIsEmpty
<1> QED BY <1>1, <1>5 DEF bad

LEMMA DecodablePasses ==
  ASSUME Matching, AreDecodable, NEW n \in DOMAIN Groups
  PROVE  ValueProblem(Groups[n]) = ""
<1> DEFINE name == Groups[n]
           rows == {document.row[m] : m \in DOMAIN document.row}
           bad  == \E row \in rows : name \in row.bad
<1>1. \A row \in rows :
        /\ row.bad \subseteq (IF header.rest = <<>> THEN {"restCoefficients"} ELSE {})
        /\ row.scale \in 0 .. ScaleMax
  BY DEF AreDecodable
<1> HIDE DEF rows
<1>2. name # "restCoefficients" => ~bad
  BY <1>1
<1>3. RestCount(header) > 0 => ~bad
  BY <1>1, RestIsEmpty
<1>4. ~\E row \in rows : row.scale \notin 0 .. ScaleMax
  BY <1>1
<1> HIDE DEF bad
<1> DEFINE a == Check(bad, "nonFiniteValue")
           b == Check(\E row \in rows : row.scale \notin 0 .. ScaleMax, "logScaleOverflow")
<1>5. CASE name = "restCoefficients"
  <2>1. ValueProblem(name) = Check(bad /\ RestCount(header) > 0, "nonFiniteShCoefficient")
    BY <1>5, Zenon DEF ValueProblem, bad, rows
  <2> QED BY <1>3, <2>1 DEF Check, NoProblem
<1>6. CASE name = "scales"
  <2>1. ValueProblem(name) = FirstFailure(<<a, b>>)
    BY <1>6, Zenon DEF ValueProblem, bad, rows
  <2>2. a = NoProblem /\ b = NoProblem
    BY <1>2, <1>4, <1>6 DEF Check
  <2> HIDE DEF a, b
  <2> QED BY <2>1, <2>2, TwoPass DEF NoProblem
<1>7. CASE name # "restCoefficients" /\ name # "scales"
  <2>1. ValueProblem(name) = a
    BY <1>7, Zenon DEF ValueProblem, bad, rows
  <2> QED BY <1>2, <1>7, <2>1 DEF Check, NoProblem
<1> QED BY <1>5, <1>6, <1>7

(* With a header that was there, what is authored is a reading of it.      *)
LEMMA FullIsImportable ==
  ASSUME Matching, ~request.metadataOnly, request.valid, HasRequested(document),
         document.opens, AreDecodable, NEW v, v.opens, v.header = header
  PROVE  Importable([head |-> v, body |-> document], request)
           <=> Survivors(document, request) # <<>> /\ AreAuthorable
<1> DEFINE x == [head |-> v, body |-> document]
<1>1. x.head = v /\ x.body = document
  OBVIOUS
<1>2. /\ IsGaussianLayout(header) /\ document.payload
      /\ document.header.count = header.count
      /\ Range(RequiredProperties) \subseteq document.header.scalar \ document.header.list
      /\ Indices(header)
           \subseteq {p.index : p \in {q \in Range(document.header.rest) : q.scalar}}
  BY ColumnsAreThere DEF Matching
<1> HIDE DEF x
<1>3. Importable(x, request) <=> Survivors(document, request) # <<>> /\ AreAuthorable
  BY <1>1, <1>2, Zenon DEF Importable, AreDecodable, AreAuthorable
<1> QED BY <1>3 DEF x

LEMMA MetadataIsImportable ==
  ASSUME request.metadataOnly, request.valid, IsGaussianLayout(header),
         NEW v, v.opens, v.header = header, NEW d
  PROVE  Importable([head |-> v, body |-> d], request)
BY DEF Importable

(* ---- Why a call fails -------------------------------------------------- *)

(* The cloud is the one the payload stands for under the header.           *)
CloudDecoded ==
  /\ pc \in {"size", "warn", "options"} => cloud = Decoding
  /\ IsFull({"adjust", "author", "join", "transfer"}) =>
       cloud = Applied(Decoding) /\ cloud.gaussians # <<>>

(* What the writer has checked still holds when the layer is taken.        *)
WriterAccepts ==
  pc \in {"join", "transfer"} /\ worker = "true" => WriterProblem = ""

(* A call that is going to fail, of a file that was there all along, has   *)
(* met a refused call, or cannot be satisfied.                             *)
Undisturbed == ~fault /\ seen = {file}
Refused     == pc = "return" \/ worker \in {"false", "threw"}
Fits        == Importable([head |-> file, body |-> file], request)
RefusalJustified == Refused /\ Undisturbed => ~Fits

JInv == request \in Requests /\ CloudDecoded /\ WriterAccepts /\ RefusalJustified

LEMMA InitJInv == Init => JInv
<1> SUFFICES ASSUME Init PROVE JInv
  OBVIOUS
<1>1. pc = "idle" /\ worker = "none" /\ setting \in Settings /\ request \in setting.requests
  BY DEF Init
<1>2. request \in Requests
  BY <1>1 DEF Requests
<1> QED BY <1>1, <1>2
    DEF JInv, CloudDecoded, WriterAccepts, RefusalJustified, Refused, IsFull

LEMMA JReturning ==
  ASSUME JInv, UNCHANGED request, pc' = "return", Undisturbed' => ~Fits'
  PROVE  JInv'
BY DEF JInv, CloudDecoded, WriterAccepts, RefusalJustified, IsFull

LEMMA JGoing ==
  ASSUME JInv, UNCHANGED request, pc' # "return", worker' \in {"none", "running"},
         CloudDecoded'
  PROVE  JInv'
BY DEF JInv, WriterAccepts, RefusalJustified, Refused

(* What a call looks at is the file, unless that has been replaced.        *)
LEMMA NothingReplaced ==
  ASSUME IInv, seen = {file}
  PROVE  /\ pc \in Headed => header = file.header /\ file.opens
         /\ IsFull(Payload) => document = file
         /\ IsVersion(file) /\ IsHeader(file.header)
<1>1. pc \in Headed => header = file.header /\ file.opens
  BY DEF IInv, HeaderRead
<1>2. IsFull(Payload) => document = file
  BY DEF IInv, PayloadRead
<1>3. IsVersion(file)
  BY SettingsAssumption DEF IInv, Watched
<1> QED BY <1>1, <1>2, <1>3 DEF IsVersion

LEMMA JParseArguments == IInv /\ JInv /\ ParseArguments => JInv'
<1> SUFFICES ASSUME IInv, JInv, ParseArguments PROVE JInv'
  OBVIOUS
<1>1. pc = "arguments" /\ worker = "none" /\ UNCHANGED <<file, seen, request, worker, fault>>
  BY DEF ParseArguments, fileVars, authorVars, IInv, WorkerDone
<1>2. CASE pc' = "return"
  <2>1. ~request.valid
    BY <1>2 DEF ParseArguments, Continue
  <2>2. ~Fits'
    BY <1>1, <2>1 DEF Fits, Importable
  <2> QED BY <1>1, <1>2, <2>2, JReturning
<1>3. CASE pc' # "return"
  <2>1. pc' = "header"
    BY <1>3 DEF ParseArguments, Fail, Continue
  <2>2. CloudDecoded'
    BY <2>1 DEF CloudDecoded, IsFull
  <2> QED BY <1>1, <1>3, <2>2, JGoing
<1> QED BY <1>2, <1>3

LEMMA JReadHeader == IInv /\ JInv /\ ReadHeader => JInv'
<1> SUFFICES ASSUME IInv, JInv, ReadHeader PROVE JInv'
  OBVIOUS
<1>1. pc = "header" /\ worker = "none" /\ UNCHANGED <<file, seen, request, worker, fault>>
  BY DEF ReadHeader, fileVars, authorVars, IInv, WorkerDone
<1>2. CASE pc' = "return"
  <2>1. ~file.opens
    BY <1>2 DEF ReadHeader, Continue
  <2>2. ~Fits'
    BY <1>1, <2>1 DEF Fits, Importable
  <2> QED BY <1>1, <1>2, <2>2, JReturning
<1>3. CASE pc' # "return"
  <2>1. pc' = "layout"
    BY <1>3 DEF ReadHeader, Fail, Continue
  <2>2. CloudDecoded'
    BY <2>1 DEF CloudDecoded, IsFull
  <2> QED BY <1>1, <1>3, <2>2, JGoing
<1> QED BY <1>2, <1>3

LEMMA JCheckLayout == IInv /\ JInv /\ CheckLayout => JInv'
<1> SUFFICES ASSUME IInv, JInv, CheckLayout PROVE JInv'
  OBVIOUS
<1>1. pc = "layout" /\ worker = "none" /\ UNCHANGED <<file, seen, request, worker, fault>>
  BY DEF CheckLayout, fileVars, authorVars, IInv, WorkerDone
<1>2. CASE pc' = "return"
  <2>1. ValidateHeaderLayout(header) # ""
    BY <1>2 DEF CheckLayout, Continue
  <2>2. ASSUME seen = {file} PROVE ~Fits
    <3>1. header = file.header /\ IsHeader(file.header)
      BY <1>1, <2>2, NothingReplaced DEF Headed
    <3>2. ~IsGaussianLayout(file.header)
      BY <2>1, <3>1, LayoutIsAccepted DEF NoProblem
    <3> QED BY <3>2 DEF Fits, Importable
  <2>3. Undisturbed' => ~Fits'
    BY <1>1, <2>2 DEF Undisturbed, Fits
  <2> QED BY <1>1, <1>2, <2>3, JReturning
<1>3. CASE pc' # "return"
  <2>1. pc' = IF request.metadataOnly THEN "author" ELSE "payload"
    BY <1>3 DEF CheckLayout, Fail, Continue
  <2>2. CloudDecoded'
    BY <1>1, <2>1 DEF CloudDecoded, IsFull
  <2> QED BY <1>1, <1>3, <2>2, JGoing
<1> QED BY <1>2, <1>3

LEMMA JReadPayload == IInv /\ JInv /\ ReadPayload => JInv'
<1> SUFFICES ASSUME IInv, JInv, ReadPayload PROVE JInv'
  OBVIOUS
<1>1. /\ pc = "payload" /\ worker = "none" /\ ~request.metadataOnly
      /\ UNCHANGED <<file, seen, request, worker>>
  BY DEF ReadPayload, fileVars, authorVars, IInv, WorkerDone, FullImport
<1>2. CASE pc' = "return"
  <2>1. fault' \/ (~(file.opens /\ HasRequested(file) /\ file.payload) /\ UNCHANGED fault)
    BY <1>2 DEF ReadPayload, Continue
  <2>2. ASSUME seen = {file}, ~(file.opens /\ HasRequested(file) /\ file.payload)
        PROVE  ~Fits
    <3>1. header = file.header
      BY <1>1, <2>2, NothingReplaced DEF Headed, Accepted
    <3>2. HasRequested(file)
           <=> /\ Range(RequiredProperties) \subseteq file.header.scalar \ file.header.list
               /\ Indices(file.header)
                    \subseteq {p.index : p \in {q \in Range(file.header.rest) : q.scalar}}
      BY <3>1, ColumnsAreThere
    <3> QED BY <1>1, <2>2, <3>2, Zenon DEF Fits, Importable
  <2>3. Undisturbed' => ~Fits'
    BY <1>1, <2>1, <2>2 DEF Undisturbed, Fits
  <2> QED BY <1>1, <1>2, <2>3, JReturning
<1>3. CASE pc' # "return"
  <2>1. pc' = "columns"
    BY <1>3 DEF ReadPayload, Fail, Continue
  <2>2. CloudDecoded'
    BY <2>1 DEF CloudDecoded, IsFull
  <2> QED BY <1>1, <1>3, <2>2, JGoing
<1> QED BY <1>2, <1>3

(* While the columns are taken, the payload is one that fits the header.   *)
LEMMA ColumnsMatch ==
  ASSUME IInv, request \in Requests, pc = "columns", ~request.metadataOnly,
         document.header.count = header.count
  PROVE  Matching
<1>1. pc \in Headed /\ pc \in Accepted /\ IsFull(Payload)
  BY DEF IsFull, Headed, Accepted, Payload
<1>2. PICK v \in seen : header = v.header
  BY <1>1 DEF IInv, HeaderRead
<1>3. document \in seen /\ document.payload
  BY <1>1 DEF IInv, PayloadRead
<1>4. IsVersion(document) /\ IsVersion(v)
  BY <1>2, <1>3, SettingsAssumption DEF IInv, Watched
<1>5. IsHeader(header)
  BY <1>2, <1>4 DEF IsVersion
<1>6. IsGaussianLayout(header)
  BY <1>1, <1>5, LayoutIsAccepted DEF IInv, LayoutChecked, NoProblem
<1>7. IsRequest(request)
  BY SettingsAssumption
<1> QED BY <1>3, <1>4, <1>5, <1>6, <1>7 DEF Matching

(* Without the columns and the values a reading must have, it is none.     *)
LEMMA UndecodableFails ==
  ASSUME header = file.header, document = file, ~request.metadataOnly, ~AreDecodable
  PROVE  ~Fits
<1>1. ~\A n \in DOMAIN file.row :
        /\ file.row[n].bad \subseteq
             (IF file.header.rest = <<>> THEN {"restCoefficients"} ELSE {})
        /\ file.row[n].scale \in 0 .. ScaleMax
  BY DEF AreDecodable
<1> QED BY <1>1, Zenon DEF Fits, Importable

LEMMA JAssembleGroup == IInv /\ JInv /\ AssembleGroup => JInv'
<1> SUFFICES ASSUME IInv, JInv, AssembleGroup PROVE JInv'
  OBVIOUS
<1>1. /\ pc = "columns" /\ worker = "none" /\ ~request.metadataOnly /\ group \in Nat \ {0}
      /\ group <= Len(Groups) /\ UNCHANGED <<file, seen, request, worker>>
  BY DEF AssembleGroup, fileVars, authorVars, IInv, WorkerDone, FullImport, GroupsPassed
<1>2. CASE pc' = "return"
  <2> DEFINE name == Groups[group]
             taken == Check(NeedsColumns(name) /\ ~TakesColumns, "propertyCountMismatch")
  <2>1. \/ fault'
        \/ FirstFailure(<<taken, ValueProblem(name)>>) # NoProblem /\ UNCHANGED fault
    BY <1>2 DEF AssembleGroup, Continue, NoProblem
  <2>2. ASSUME seen = {file}, FirstFailure(<<taken, ValueProblem(name)>>) # NoProblem
        PROVE  ~Fits
    <3>1. taken # NoProblem \/ ValueProblem(name) # NoProblem
      <4> HIDE DEF taken, name
      <4> QED BY <2>2, TwoPass
    <3>2. header = file.header /\ document = file
      BY <1>1, <2>2, NothingReplaced DEF Headed, Accepted, Payload, IsFull
    <3>3. taken = NoProblem
      BY <3>2 DEF Check, TakesColumns
    <3>4. group \in DOMAIN Groups
      <4>1. Len(Groups) = 6 /\ DOMAIN Groups = 1 .. 6
        BY DEF Groups
      <4> QED BY <1>1, <4>1
    <3>5. ValueProblem(Groups[group]) # ""
      BY <3>1, <3>3 DEF NoProblem
    <3>6. Matching
      BY <1>1, <3>2, ColumnsMatch DEF JInv
    <3>7. ~AreDecodable
      BY <3>4, <3>5, <3>6, DecodablePasses
    <3> QED BY <1>1, <3>2, <3>7, UndecodableFails
  <2> HIDE DEF taken, name
  <2>3. Undisturbed' => ~Fits'
    BY <1>1, <2>1, <2>2 DEF Undisturbed, Fits
  <2> QED BY <1>1, <1>2, <2>3, JReturning
<1>3. CASE pc' # "return"
  <2>1. pc' = "columns"
    BY <1>3 DEF AssembleGroup, Fail, Continue
  <2>2. CloudDecoded'
    BY <2>1 DEF CloudDecoded, IsFull
  <2> QED BY <1>1, <1>3, <2>2, JGoing
<1> QED BY <1>2, <1>3

(* What is decoded always passes the gate.                                 *)
LEMMA JFinishDecode == IInv /\ JInv /\ FinishDecode => JInv'
<1> SUFFICES ASSUME IInv, JInv, FinishDecode PROVE JInv'
  OBVIOUS
<1>1. /\ pc = "columns" /\ group > Len(Groups) /\ worker = "none"
      /\ ~request.metadataOnly /\ group \in Nat \ {0}
      /\ UNCHANGED <<file, seen, request, header, document, worker>>
  BY DEF FinishDecode, fileVars, authorVars, IInv, WorkerDone, FullImport, GroupsPassed
<1>2. AllPass
  <2>1. \A n \in DOMAIN Groups : n < group
    BY <1>1 DEF Groups
  <2> QED BY <1>1, <2>1 DEF AllPass, IInv, GroupsPassed, IsFull, Payload
<1>3. IsValidCloud(Decoding)
  <2>1. document.header.count = header.count
    BY <1>2, ColumnsAreTaken DEF AllPass
  <2>2. Matching
    BY <1>1, <2>1, ColumnsMatch DEF JInv
  <2>3. \A n \in DOMAIN document.row : document.row[n].scale \in 0 .. ScaleMax
    BY <1>2, ValuesDecode DEF AllPass
  <2> QED BY <2>2, <2>3, DecodingIsValid
<1>4. cloud' = Decoding /\ pc' = IF request.stats THEN "size" ELSE "warn"
  BY <1>3 DEF FinishDecode, Continue, Decoding
<1>5. Decoding' = Decoding
  BY <1>1 DEF Decoding, DecodedCloud
<1>6. CloudDecoded'
  BY <1>4, <1>5 DEF CloudDecoded, IsFull
<1> QED BY <1>1, <1>4, <1>6, JGoing

LEMMA JCarriesOn ==
  ASSUME IInv, JInv, UNCHANGED <<request, header, document, cloud>>, worker' = "none",
         \/ pc \in {"size", "warn"} /\ pc' \in {"warn", "options"}
         \/ pc = "adjust" /\ pc' = "author"
  PROVE  JInv'
<1>1. Decoding' = Decoding
  BY DEF Decoding, DecodedCloud
<1>2. Applied(Decoding)' = Applied(Decoding)
  BY <1>1 DEF Applied
<1>3. CloudDecoded'
  BY <1>1, <1>2 DEF JInv, CloudDecoded, IsFull
<1> QED BY <1>3, JGoing

LEMMA JMeasureSource == IInv /\ JInv /\ (MeasureSource \/ Warn \/ AdjustStats) => JInv'
<1> SUFFICES ASSUME IInv, JInv, MeasureSource \/ Warn \/ AdjustStats PROVE JInv'
  OBVIOUS
<1>1. /\ UNCHANGED <<request, header, document, cloud, worker>>
      /\ \/ pc \in {"size", "warn"} /\ pc' \in {"warn", "options"}
         \/ pc = "adjust" /\ pc' = "author"
  BY DEF MeasureSource, Warn, AdjustStats, Continue, fileVars, decodeVars, authorVars
<1>2. worker = "none"
  BY <1>1 DEF IInv, WorkerDone
<1> QED BY <1>1, <1>2, JCarriesOn

LEMMA JApplyImportOptions == IInv /\ JInv /\ ApplyImportOptions => JInv'
<1> SUFFICES ASSUME IInv, JInv, ApplyImportOptions PROVE JInv'
  OBVIOUS
<1>1. /\ pc = "options" /\ worker = "none" /\ ~request.metadataOnly
      /\ UNCHANGED <<file, seen, request, header, document, worker, fault>>
  BY DEF ApplyImportOptions, fileVars, authorVars, IInv, WorkerDone, FullImport
<1>2. cloud = Decoding
  BY <1>1 DEF JInv, CloudDecoded
<1>3. CASE pc' = "return"
  <2>1. Applied(Decoding).gaussians = <<>>
    BY <1>2, <1>3 DEF ApplyImportOptions, Continue
  <2>2. ASSUME seen = {file} PROVE ~Fits
    <3>1. IsFull(Payload) /\ AllPass
      BY <1>1 DEF IInv, GroupsPassed, IsFull, Payload, Decoded, AllPass
    <3>2. Matching /\ document = file
      BY <2>2, <3>1, PayloadIsMatching, NothingReplaced DEF JInv
    <3>3. Survivors(file, request) = <<>>
      BY <2>1, <3>2, LeftWhenKept
    <3> QED BY <1>1, <3>3, Zenon DEF Fits, Importable
  <2>3. Undisturbed' => ~Fits'
    BY <1>1, <2>2 DEF Undisturbed, Fits
  <2> QED BY <1>1, <1>3, <2>3, JReturning
<1>4. CASE pc' # "return"
  <2>1. pc' = "adjust" /\ cloud' = Applied(Decoding) /\ Applied(Decoding).gaussians # <<>>
    BY <1>2, <1>4 DEF ApplyImportOptions, Fail, Continue
  <2>2. Decoding' = Decoding
    BY <1>1 DEF Decoding, DecodedCloud
  <2>3. Applied(Decoding)' = Applied(Decoding)
    BY <1>1, <2>2 DEF Applied
  <2>4. CloudDecoded'
    BY <2>1, <2>3 DEF CloudDecoded
  <2> QED BY <1>1, <1>4, <2>4, JGoing
<1> QED BY <1>3, <1>4

(* What the worker is given is not touched while it runs.                  *)
LEMMA JAuthoringOn ==
  ASSUME JInv, UNCHANGED <<request, header, document, cloud>>,
         pc \in Authoring, pc' \in Authoring
  PROVE  request' \in Requests /\ CloudDecoded' /\ WriterProblem' = WriterProblem
<1>1. Decoding' = Decoding
  BY DEF Decoding, DecodedCloud
<1>2. Applied(Decoding)' = Applied(Decoding)
  BY <1>1 DEF Applied
<1>3. CloudDecoded'
  BY <1>2 DEF JInv, CloudDecoded, IsFull, Authoring
<1>4. WriterProblem' = WriterProblem
  BY DEF WriterProblem
<1> QED BY <1>3, <1>4 DEF JInv

LEMMA JStartWorker == IInv /\ JInv /\ StartWorker => JInv'
<1> SUFFICES ASSUME IInv, JInv, StartWorker PROVE JInv'
  OBVIOUS
<1>1. /\ pc = "author" /\ pc' = "join" /\ worker' = "running"
      /\ UNCHANGED <<request, header, document, cloud>>
  BY DEF StartWorker, Spawn, Continue, fileVars, decodeVars
<1>2. CloudDecoded'
  BY <1>1, JAuthoringOn DEF Authoring
<1> QED BY <1>1, <1>2, JGoing

(* The writer takes every cloud of a reading, and no other.                *)
LEMMA WriterIsRight ==
  ASSUME IInv, JInv, pc = "join", seen = {file}, WriterProblem # ""
  PROVE  ~Fits
<1>1. ~request.metadataOnly
  BY WriterPasses
<1>2. IsFull(Payload) /\ IsFull({"adjust", "author", "join", "transfer"}) /\ AllPass
  BY <1>1 DEF IInv, GroupsPassed, IsFull, Payload, Decoded, AllPass
<1>3. Matching /\ document = file
  BY <1>2, PayloadIsMatching, NothingReplaced DEF JInv
<1>4. cloud = Applied(Decoding) /\ cloud.gaussians # <<>>
  BY <1>2 DEF JInv, CloudDecoded
<1>5. ~AreAuthorable
  BY <1>1, <1>3, <1>4, WriterAgrees
<1> QED BY <1>1, <1>3, <1>5, Zenon DEF Fits, Importable, AreAuthorable

LEMMA JWorker == IInv /\ JInv /\ Worker => JInv'
<1> SUFFICES ASSUME IInv, JInv, Worker PROVE JInv'
  OBVIOUS
<1>1. /\ pc = "join" /\ pc' = "join"
      /\ UNCHANGED <<file, seen, request, header, document, cloud>>
  BY DEF Worker, WorkerAuthors, WorkerThrows, Author, EndByException, fileVars,
     decodeVars, IInv, WorkerDone
<1>2. \/ worker' = "true" /\ WriterProblem = ""
      \/ worker' = "false" /\ WriterProblem # ""
      \/ fault' /\ worker' \in {"false", "threw"}
  BY DEF Worker, WorkerAuthors, WorkerThrows, Author, EndByException
<1>3. request' \in Requests /\ CloudDecoded' /\ WriterProblem' = WriterProblem
  BY <1>1, JAuthoringOn DEF Authoring
<1>4. WriterAccepts'
  BY <1>2, <1>3 DEF WriterAccepts
<1>5. ASSUME Refused', Undisturbed' PROVE ~Fits'
  <2>1. WriterProblem # "" /\ seen = {file}
    BY <1>1, <1>2, <1>5 DEF Refused, Undisturbed
  <2>2. ~Fits
    BY <1>1, <2>1, WriterIsRight
  <2> QED BY <1>1, <2>2 DEF Fits
<1> QED BY <1>3, <1>4, <1>5 DEF JInv, RefusalJustified

LEMMA JJoin == IInv /\ JInv /\ Join => JInv'
<1> SUFFICES ASSUME IInv, JInv, Join PROVE JInv'
  OBVIOUS
<1>1. /\ pc = "join" /\ worker \in {"true", "false", "threw"}
      /\ \/ pc' = "transfer" /\ worker = "true"
         \/ pc' = "return" /\ worker \in {"false", "threw"}
      /\ UNCHANGED <<file, seen, request, header, document, cloud, worker, fault>>
  BY DEF Join, Get, fileVars, decodeVars, authorVars
<1>2. CASE pc' = "return" /\ worker \in {"false", "threw"}
  <2>1. Undisturbed' => ~Fits'
    BY <1>1, <1>2 DEF JInv, RefusalJustified, Refused, Undisturbed, Fits
  <2> QED BY <1>1, <1>2, <2>1, JReturning
<1>3. CASE pc' = "transfer" /\ worker = "true"
  <2>1. request' \in Requests /\ CloudDecoded' /\ WriterProblem' = WriterProblem
    BY <1>1, <1>3, JAuthoringOn DEF Authoring
  <2>2. WriterAccepts'
    BY <1>1, <1>3, <2>1 DEF JInv, WriterAccepts
  <2>3. RefusalJustified'
    BY <1>1, <1>3 DEF RefusalJustified, Refused
  <2> QED BY <2>1, <2>2, <2>3 DEF JInv
<1> QED BY <1>1, <1>2, <1>3

(* A call in progress sees the replacement; the next one never does.       *)
LEMMA JEditFile == IInv /\ JInv /\ EditFile => JInv'
<1> SUFFICES ASSUME IInv, JInv, EditFile PROVE JInv'
  OBVIOUS
<1>1. /\ UNCHANGED <<request, pc, header, document, cloud, worker, fault>>
      /\ seen' = IF pc = "idle" THEN {file'} ELSE seen \cup {file'}
  BY DEF EditFile, decodeVars, authorVars
<1>2. Decoding' = Decoding
  BY <1>1 DEF Decoding, DecodedCloud
<1>3. Applied(Decoding)' = Applied(Decoding)
  BY <1>1, <1>2 DEF Applied
<1>4. CloudDecoded'
  BY <1>1, <1>2, <1>3 DEF JInv, CloudDecoded, IsFull
<1>5. WriterProblem' = WriterProblem
  BY <1>1 DEF WriterProblem
<1>6. request' \in Requests /\ WriterAccepts'
  BY <1>1, <1>5 DEF JInv, WriterAccepts
<1>7. ASSUME Refused', Undisturbed' PROVE ~Fits'
  <2>1. pc # "idle" /\ Refused
    BY <1>1, <1>7 DEF Refused, IInv, WorkerDone
  <2>2. ~fault /\ seen \cup {file'} = {file'}
    BY <1>1, <1>7, <2>1 DEF Undisturbed
  <2>3. file' = file /\ seen = {file}
    BY <2>2 DEF IInv, Watched
  <2>4. ~Fits
    BY <2>1, <2>2, <2>3 DEF JInv, RefusalJustified, Undisturbed
  <2> QED BY <1>1, <2>3, <2>4 DEF Fits
<1> QED BY <1>4, <1>6, <1>7 DEF JInv, RefusalJustified

(* Between two calls nothing is promised.                                  *)
LEMMA JBetween ==
  ASSUME IInv, JInv, Call \/ LeaveRead
  PROVE  JInv'
<1>1. /\ pc' \in {"idle", "arguments"} /\ worker' = "none"
      /\ (request' \in setting.requests \/ UNCHANGED request)
  BY DEF Call, LeaveRead, authorVars, IInv, WorkerDone
<1>2. request' \in Requests
  BY <1>1 DEF IInv, Watched, JInv, Requests
<1>3. CloudDecoded' /\ WriterAccepts' /\ RefusalJustified'
  BY <1>1 DEF CloudDecoded, WriterAccepts, RefusalJustified, Refused, IsFull
<1> QED BY <1>2, <1>3 DEF JInv

LEMMA JStutter ==
  ASSUME JInv, UNCHANGED vars
  PROVE  JInv'
<1>1. UNCHANGED <<file, seen, request, pc, worker, fault, header, document, cloud>>
  BY DEF vars, fileVars, decodeVars, authorVars
<1>2. Decoding' = Decoding
  BY <1>1 DEF Decoding, DecodedCloud
<1>3. Applied(Decoding)' = Applied(Decoding)
  BY <1>1, <1>2 DEF Applied
<1>4. CloudDecoded'
  BY <1>1, <1>2, <1>3 DEF JInv, CloudDecoded, IsFull
<1>5. WriterProblem' = WriterProblem
  BY <1>1 DEF WriterProblem
<1>6. request' \in Requests /\ WriterAccepts'
  BY <1>1, <1>5 DEF JInv, WriterAccepts
<1>7. RefusalJustified'
  BY <1>1 DEF JInv, RefusalJustified, Refused, Undisturbed, Fits
<1> QED BY <1>4, <1>6, <1>7 DEF JInv

LEMMA NextJInv == IInv /\ JInv /\ [Next]_vars => JInv'
<1> SUFFICES ASSUME IInv, JInv, [Next]_vars PROVE JInv'
  OBVIOUS
<1>1. CASE EditFile \/ Worker \/ StartWorker \/ Join
  BY <1>1, JEditFile, JWorker, JStartWorker, JJoin
<1>2. CASE Call \/ TransferContent \/ Return
  BY <1>2, JBetween DEF TransferContent, Return
<1>3. CASE ParseArguments \/ ReadHeader \/ CheckLayout \/ ReadPayload \/ AssembleGroup
  BY <1>3, JParseArguments, JReadHeader, JCheckLayout, JReadPayload, JAssembleGroup
<1>4. CASE FinishDecode \/ MeasureSource \/ Warn \/ AdjustStats \/ ApplyImportOptions
  BY <1>4, JFinishDecode, JMeasureSource, JApplyImportOptions
<1>5. CASE UNCHANGED vars
  BY <1>5, JStutter
<1> QED BY <1>1, <1>2, <1>3, <1>4, <1>5 DEF Next, Caller

(* In every call the cloud is the one the payload stands for under the     *)
(* header, what the worker authored is what the writer accepts, and a call *)
(* that fails with nothing refused, of a file nobody replaced, has met a   *)
(* file or arguments that cannot be satisfied (GaussianPlyFileFormat.cpp:  *)
(* 65-201 with the decoder and the writer it calls).                       *)
THEOREM Agreement == Spec => [](IInv /\ JInv)
<1>1. Init => IInv /\ JInv
  BY InitIInv, InitJInv
<1>2. IInv /\ JInv /\ [Next]_vars => IInv' /\ JInv'
  BY NextIInv, NextJInv
<1> QED BY <1>1, <1>2, PTL DEF Spec

(* ---- The refinement ---------------------------------------------------- *)

(* The layer that is taken is the content of a reading the call has made.  *)
LEMMA TakenIsContent ==
  ASSUME IInv, JInv, pc = "transfer"
  PROVE  \E x \in Readings(seen) : Importable(x, request) /\ generated = Content(x, request)
<1>1. worker = "true" /\ pc \in Headed /\ pc \in Accepted
  BY DEF IInv, WorkerDone, Headed, Accepted, Payload, Decoded
<1>2. WriterProblem = ""
  BY <1>1 DEF JInv, WriterAccepts
<1>3. CASE ~request.metadataOnly
  <2>1. IsFull(Payload) /\ IsFull({"adjust", "author", "join", "transfer"}) /\ AllPass
    BY <1>3 DEF IInv, GroupsPassed, IsFull, Payload, Decoded, AllPass
  <2>2. /\ Matching /\ request.valid /\ HasRequested(document)
        /\ document \in seen /\ document.opens
        /\ \E v \in seen : v.opens /\ v.header = header
    BY <2>1, PayloadIsMatching DEF JInv
  <2>3. PICK v \in seen : v.opens /\ v.header = header
    BY <2>2
  <2>4. cloud = Applied(Decoding) /\ cloud.gaussians # <<>>
    BY <2>1 DEF JInv, CloudDecoded
  <2>5. AreDecodable /\ AreAuthorable /\ Survivors(document, request) # <<>>
    BY <1>2, <1>3, <2>1, <2>2, <2>4, PassedIsDecodable, WriterAgrees, LeftWhenKept
  <2> DEFINE x == [head |-> v, body |-> document]
  <2>6. Importable(x, request)
    BY <1>3, <2>2, <2>3, <2>5, FullIsImportable
  <2>7. generated = Full(cloud)
    BY <1>1, <1>3 DEF IInv, WorkerDone
  <2>8. Content(x, request) = Full(cloud)
    BY <1>3, <2>2, <2>3, <2>4, ContentIs
  <2>9. x \in Readings(seen)
    BY <2>2, <2>3 DEF Readings
  <2> QED BY <2>6, <2>7, <2>8, <2>9
<1>4. CASE request.metadataOnly
  <2>1. request.valid
    BY <1>1 DEF IInv, HeaderRead
  <2>2. PICK v \in seen : v.opens /\ header = v.header
    BY <1>1 DEF IInv, HeaderRead
  <2>3. IsHeader(header)
    BY <2>2, SettingsAssumption DEF IInv, Watched, IsVersion
  <2>4. IsGaussianLayout(header)
    BY <1>1, <2>3, LayoutIsAccepted DEF IInv, LayoutChecked, NoProblem
  <2> DEFINE x == [head |-> v, body |-> v]
  <2>5. Importable(x, request)
    BY <1>4, <2>1, <2>2, <2>4, MetadataIsImportable
  <2>6. generated = Metadata(header, request)
    BY <1>1, <1>4 DEF IInv, WorkerDone
  <2>7. ImportedShDegree(header, request) = EffectiveShDegree(request, HeaderShDegree(header))
    <3>1. IsRequest(request)
      BY SettingsAssumption DEF JInv
    <3> QED BY <2>3, <2>4, <3>1, DegreeKept
  <2>8. x.head.header = header
    BY <2>2
  <2>9. Content(x, request) = Metadata(header, request)
    <3> HIDE DEF x
    <3> QED BY <1>4, <2>7, <2>8, Zenon DEF Content, Metadata
  <2>10. x \in Readings(seen)
    BY DEF Readings
  <2> QED BY <2>5, <2>6, <2>9, <2>10
<1> QED BY <1>3, <1>4

LEMMA InitRefines == Init => Promise!Init
<1> SUFFICES ASSUME Init PROVE Promise!Init
  OBVIOUS
<1>1. /\ setting \in Settings /\ file \in setting.versions /\ seen = {file}
      /\ request \in setting.requests /\ pc = "idle" /\ ~fault
  BY DEF Init
<1>2. file \in Versions /\ request \in Requests
  BY <1>1 DEF Versions, Requests
<1> QED BY <1>1, <1>2 DEF Promise!Init

(* A step inside the call is no step of the promise, or a refused call.    *)
Inside == /\ pc # "idle" /\ pc' # "idle"
          /\ UNCHANGED <<file, seen, request, layer>>
          /\ UNCHANGED fault \/ fault'

LEMMA InsideRefines == Inside => [Promise!Next]_(Promise!vars)
<1> SUFFICES ASSUME Inside PROVE [Promise!Next]_(Promise!vars)
  OBVIOUS
<1>1. CASE UNCHANGED fault
  <2>1. (pc # "idle")' = (pc # "idle")
    BY DEF Inside
  <2>2. UNCHANGED Promise!vars
    BY <1>1, <2>1 DEF Inside, Promise!vars
  <2> QED BY <2>2
<1>2. CASE fault'
  <2>1. Promise!Refuse
    BY <1>2 DEF Inside, Promise!Refuse
  <2> QED BY <2>1 DEF Promise!Next
<1> QED BY <1>1, <1>2 DEF Inside

LEMMA CallerIsInside ==
  IInv /\ (Caller \/ Worker) => Inside \/ TransferContent \/ Return
<1> SUFFICES ASSUME IInv, Caller \/ Worker, ~TransferContent, ~Return
             PROVE  Inside
  OBVIOUS
<1>1. CASE ParseArguments \/ ReadHeader \/ CheckLayout \/ ReadPayload \/ AssembleGroup
  BY <1>1 DEF ParseArguments, ReadHeader, CheckLayout, ReadPayload, AssembleGroup,
     Fail, Continue, Inside, fileVars
<1>2. CASE FinishDecode \/ MeasureSource \/ Warn \/ ApplyImportOptions \/ AdjustStats
  BY <1>2 DEF FinishDecode, MeasureSource, Warn, ApplyImportOptions, AdjustStats,
     Fail, Continue, Inside, fileVars
<1>3. CASE StartWorker \/ Join
  BY <1>3 DEF StartWorker, Spawn, Join, Get, Continue, Inside, fileVars
<1>4. CASE Worker
  <2>1. pc = "join"
    BY <1>4 DEF IInv, WorkerDone, Worker, WorkerAuthors, WorkerThrows, Author,
       EndByException
  <2> QED BY <1>4, <2>1 DEF Worker, WorkerAuthors, WorkerThrows, Author,
       EndByException, Inside, fileVars
<1> QED BY <1>1, <1>2, <1>3, <1>4 DEF Caller

LEMMA TransferRefines == IInv /\ JInv /\ TransferContent => Promise!Succeed
<1> SUFFICES ASSUME IInv, JInv, TransferContent PROVE Promise!Succeed
  OBVIOUS
<1>1. /\ pc = "transfer" /\ layer' = generated /\ pc' = "idle" /\ seen' = {file}
      /\ fault' = FALSE /\ UNCHANGED <<file, request>>
  BY DEF TransferContent, Transfer, LeaveRead
<1>2. \E x \in Readings(seen) : Importable(x, request) /\ layer' = Content(x, request)
  BY <1>1, TakenIsContent
<1>3. Promise!Returns
  BY <1>1 DEF Promise!Returns
<1> QED BY <1>2, <1>3 DEF Promise!Succeed

LEMMA ReturnRefines == IInv /\ JInv /\ Return => Promise!Fail
<1> SUFFICES ASSUME IInv, JInv, Return PROVE Promise!Fail
  OBVIOUS
<1>1. /\ pc = "return" /\ pc' = "idle" /\ seen' = {file} /\ fault' = FALSE
      /\ UNCHANGED <<file, request, layer>>
  BY DEF Return, LeaveRead
<1>2. fault \/ seen # {file} \/ \E x \in Readings(seen) : ~Importable(x, request)
  <2> SUFFICES ASSUME ~fault, seen = {file}
               PROVE  \E x \in Readings(seen) : ~Importable(x, request)
    OBVIOUS
  <2>1. ~Importable([head |-> file, body |-> file], request)
    BY <1>1 DEF JInv, RefusalJustified, Refused, Undisturbed, Fits
  <2>2. [head |-> file, body |-> file] \in Readings(seen)
    BY DEF Readings
  <2> QED BY <2>1, <2>2
<1>3. Promise!Returns
  BY <1>1 DEF Promise!Returns
<1> QED BY <1>1, <1>2, <1>3 DEF Promise!Fail

LEMMA EditRefines == IInv /\ EditFile => Promise!Edit
<1> SUFFICES ASSUME IInv, EditFile PROVE Promise!Edit
  OBVIOUS
<1>1. /\ file' \in setting.versions /\ UNCHANGED <<request, pc, layer, fault>>
      /\ seen' = IF pc = "idle" THEN {file'} ELSE seen \cup {file'}
  BY DEF EditFile
<1>2. file' \in Versions
  BY <1>1 DEF IInv, Watched, Versions
<1> QED BY <1>1, <1>2 DEF Promise!Edit

LEMMA CallRefines == IInv /\ Call => Promise!Call
<1> SUFFICES ASSUME IInv, Call PROVE Promise!Call
  OBVIOUS
<1>1. /\ pc = "idle" /\ pc' = "arguments" /\ request' \in setting.requests
      /\ UNCHANGED <<file, seen, fault, layer>>
  BY DEF Call, fileVars
<1>2. request' \in Requests
  BY <1>1 DEF IInv, Watched, Requests
<1> QED BY <1>1, <1>2 DEF Promise!Call

LEMMA NextRefines ==
  IInv /\ JInv /\ [Next]_vars => [Promise!Next]_(Promise!vars)
<1> SUFFICES ASSUME IInv, JInv, [Next]_vars PROVE [Promise!Next]_(Promise!vars)
  OBVIOUS
<1>1. CASE EditFile \/ Call
  BY <1>1, EditRefines, CallRefines DEF Promise!Next
<1>2. CASE TransferContent \/ Return
  BY <1>2, TransferRefines, ReturnRefines DEF Promise!Next
<1>3. CASE (Caller \/ Worker) /\ ~TransferContent /\ ~Return
  BY <1>3, CallerIsInside, InsideRefines
<1>4. CASE UNCHANGED vars
  <2>1. UNCHANGED <<file, seen, request, pc, layer, fault>>
    BY <1>4 DEF vars, fileVars
  <2> QED BY <2>1 DEF Promise!vars
<1> QED BY <1>1, <1>2, <1>3, <1>4 DEF Next

(* The import implements its promise: it replaces the layer by what the    *)
(* file stands for - one version of it, or the columns of one under the    *)
(* layout of another if it is replaced between the opens - or it fails for *)
(* a reason and leaves the layer as it was (GaussianPlyFileFormat.cpp:     *)
(* 65-201).                                                                *)
THEOREM Refinement == Spec => ImplementsPromise
<1>1. Init => Promise!Init
  BY InitRefines
<1>2. IInv /\ JInv /\ [Next]_vars => [Promise!Next]_(Promise!vars)
  BY NextRefines
<1> QED BY <1>1, <1>2, Agreement, PTL DEF Spec, ImplementsPromise, Promise!Spec
=============================================================================
