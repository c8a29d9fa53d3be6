----------------------------- MODULE MCSogImport -----------------------------
(* Bytes of three bits and two centroids in a row.  Position codes at both *)
(* ends of their range, ranges that run either way or leave that of a      *)
(* float; every scale of a codebook with too small and too large entries;  *)
(* every rotation tag, with and without room for the dropped component;    *)
(* labels in every row of the palette, at its end and past it.             *)
EXTENDS SogImport
LOCAL INSTANCE FiniteSetsExt

Image(width, texels) == [width |-> width, texel |-> [n \in 0 .. Len(texels) - 1 |-> texels[n + 1]]]
(* The texels of a palette are told apart by red and green.                *)
Palette(width, height) ==
  [width |-> width,
   texel |-> [n \in 0 .. width * height - 1 |-> <<n % 8, n \div 8, (3 * n + 1) % 8, 7>>]]

MCLogMin == -6
Scales == <<-9, -6, -1, 0, 5, 7, 8, 9>>

SmallDocument(count, size, low, high, scales, quats) ==
  [problem |-> "", headerProblem |-> "", size |-> size, count |-> count,
   shBands |-> 0, paletteCount |-> 0,
   mins |-> <<-8, 0, 2>>, maxs |-> <<8, 5, -3>>,
   scalesCodebook |-> [b \in 0 .. 7 |-> Scales[b + 1]],
   sh0Codebook |-> [b \in 0 .. 7 |-> 2 * b - 5],
   shCodebook |-> [b \in 0 .. 7 |-> 3 - b],
   planes |-> <<Image(count, low), Image(count, high), Image(count, scales),
                Image(count, quats), Image(count, [g \in 1 .. count |-> <<g, 7, 0, 8 - g>>])>>]

(* With spherical harmonics, each Gaussian with its label.                 *)
Lit(v, bands, palette, labels) ==
  LET rows == IF palette = 0 THEN 1 ELSE (palette + 1) \div 2 IN
  [v EXCEPT !.shBands = bands, !.paletteCount = palette,
            !.planes = @ \o <<Palette(2 * bands * (bands + 2), rows),
                              Image(v.count, labels)>>]

Codes(a, b, c) == <<a, b, c, 7>>
One(quat) == SmallDocument(1, 5, <<Codes(1, 6, 3)>>, <<Codes(2, 0, 7)>>, <<Codes(1, 3, 5)>>,
                      <<quat>>)
Two == SmallDocument(2, 6, <<Codes(0, 7, 3), Codes(7, 0, 5)>>, <<Codes(0, 7, 1), Codes(7, 0, 6)>>,
                <<Codes(1, 2, 3), Codes(4, 5, 1)>>, <<<<0, 7, 3, 4>>, <<4, 4, 3, 7>>>>)
Three == SmallDocument(3, 7, <<Codes(1, 2, 3), Codes(4, 5, 6), Codes(7, 0, 1)>>,
                  <<Codes(3, 2, 1), Codes(0, 7, 0), Codes(6, 5, 4)>>,
                  <<Codes(1, 1, 1), Codes(2, 5, 2), Codes(3, 3, 4)>>,
                  <<<<3, 4, 3, 5>>, <<7, 7, 7, 6>>, <<0, 1, 2, 7>>>>)

Four(v, a, b, c) ==
  [v EXCEPT !.count = 4,
            !.planes = [p \in 1 .. 5 |->
              IF p = 4 THEN Image(4, [g \in 1 .. 4 |-> <<a, b, c, 3 + g>>])
              ELSE Image(4, [g \in 1 .. 4 |-> v.planes[p].texel[0]])]]
Rotations == {Four(One(<<1, 5, 6, 7>>), 1, 5, 6), Four(One(<<1, 5, 6, 7>>), 7, 0, 7),
              One(<<1, 5, 6, 3>>)}
Ranges ==
  {[Two EXCEPT !.maxs[1] = n] : n \in {9, 13, 20}} \cup {[Two EXCEPT !.mins[3] = -9]}
UsedScales == {[Two EXCEPT !.planes[3].texel[1][axis] = b] :
                 axis \in {3}, b \in {0, 6, 7}}
Palettes ==
  {Lit(Three, 1, 3, <<Codes(0, 0, 1), Codes(1, 0, 0), Codes(2, 0, 0)>>),
   Lit(Three, 1, 3, <<Codes(3, 0, 0), Codes(2, 0, 0), Codes(1, 1, 0)>>),
   Lit(Three, 1, 10, <<Codes(1, 1, 0), Codes(7, 0, 0), Codes(0, 1, 0)>>),
   Lit(Three, 1, 0, <<Codes(0, 0, 0), Codes(0, 0, 0), Codes(0, 0, 0)>>),
   Lit(Two, 2, 3, <<Codes(2, 0, 0), Codes(1, 0, 0)>>),
   Lit(One(<<6, 2, 1, 6>>), 3, 4, <<Codes(3, 0, 0)>>)}
Broken ==
  {[Two EXCEPT !.problem = p, !.headerProblem = p] :
     p \in {"malformedArchive", "emptyPointSet"}}
  \cup {[Two EXCEPT !.problem = "missingPlane"]}

Edited == Lit(Two, 1, 3, <<Codes(1, 0, 0), Codes(3, 0, 0)>>)
Unreadable == [Two EXCEPT !.problem = "unreadableFile", !.headerProblem = "unreadableFile"]
(* A definition of its own, so that the list is made once.                 *)
Catalog ==
  <<Edited, Unreadable, Two>>
    \o FoldSet(LAMBDA v, numbered : Append(numbered, v), <<>>,
               Rotations \cup Ranges \cup UsedScales \cup Palettes \cup Broken)
MCFiles == Catalog
MCEditVersions == {1, 2}

MCRequests == [metadataOnly : BOOLEAN, stats : {TRUE}, changeBlock : {TRUE}]
              \cup [metadataOnly : {FALSE}, stats : {FALSE}, changeBlock : {FALSE}]
=============================================================================
