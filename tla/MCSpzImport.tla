----------------------------- MODULE MCSpzImport -----------------------------
(* Bytes of five bits: a float16 has four exponent and five mantissa bits, *)
(* a fixed-point number fifteen bits, a smallest-three rotation twenty.    *)
(* One and two Gaussians of each container version and degree; words at    *)
(* the edges of each encoding; containers the reader refuses.              *)
EXTENDS SpzImport

Header(version, points, degree) ==
  [version |-> version, pointCount |-> points, shDegree |-> degree,
   fractionalBits |-> 2, antialiased |-> FALSE]

(* The words of a file, three positions and a rotation for each Gaussian.  *)
File(h, words, rotations) ==
  [problem |-> "", headerProblem |-> "", size |-> 1, extensionBytes |-> 0,
   header |-> h,
   position |-> [g \in 0 .. h.pointCount - 1 |->
                   [axis \in 0 .. 2 |-> words[3 * g + axis + 1]]],
   rotation |-> [g \in 0 .. h.pointCount - 1 |-> rotations[g + 1]]]

(* Zeros, subnormals, the normals next to them and the largest, of either  *)
(* sign; infinities and a NaN.                                             *)
Halves ==
  {File(Header(1, 2, 0), <<0, 1, 2, 3, 16, 31>>, <<0, 1024 * 20>>),
   File(Header(1, 2, 0), <<32, 33, 63, 64, 479, 512>>, <<31, 5 + 32 * 20>>),
   File(Header(1, 2, 2), <<513, 514, 528, 543, 544, 991>>, <<32767, 16912>>)}
NonFinite ==
  {File(Header(1, 1, 0), <<480, 1, 1>>, <<1>>),
   File(Header(1, 1, 0), <<1, 481, 1>>, <<1>>),
   File(Header(1, 2, 0), <<1, 1, 1, 1, 1, 992>>, <<1, 1>>)}
Fixeds ==
  {File(Header(2, 2, 1), <<0, 1, 1023, 1024, 16383, 16384>>, <<15888, 31 * 1024>>),
   [File(Header(2, 1, 3), <<32767, 32766, 31744>>, <<992>>)
      EXCEPT !.header.antialiased = TRUE]}

(* Every largest component, every sign, radicands positive, zero and       *)
(* negative.                                                               *)
Place(n) == 64^n
SmallestThrees ==
  {File(Header(3, 2, 0), <<1, 2, 3, 4, 5, 6>>,
        <<largest * Place(3) + 5 * Place(2) + 40 * Place(1) + 3,
          largest * Place(3) + 63 * Place(2) + 31 * Place(1) + a>>) :
     <<largest, a>> \in {<<0, 0>>, <<1, 31>>, <<2, 1>>, <<3, 62>>}}

Degree4 == File(Header(3, 1, 4), <<9, 9, 9>>, <<1000>>)

Two == [File(Header(3, 2, 1), <<20000, 2, 3, 4, 5, 6>>, <<Place(3) + 40, 7>>) EXCEPT
          !.extensionBytes = 8, !.header.antialiased = TRUE]
Gone == [Two EXCEPT !.problem = "unreadableFile",
                    !.headerProblem = "unreadableFile", !.size = 0]

Broken ==
  {Gone, [Two EXCEPT !.problem = "truncatedContainer"]}

MCEditVersions == {Two, Gone}
MCVersions == Halves \cup NonFinite \cup Fixeds \cup SmallestThrees
                \cup {Degree4} \cup Broken \cup MCEditVersions

MCRequests == [metadataOnly : BOOLEAN, stats : {TRUE}, changeBlock : {TRUE}]
              \cup [metadataOnly : {FALSE}, stats : {FALSE}, changeBlock : {FALSE}]
=============================================================================
