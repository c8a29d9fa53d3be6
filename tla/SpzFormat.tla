----------------------------- MODULE SpzFormat ------------------------------
(***************************************************************************)
(* The layout of an SPZ v1-v3 body (SpzReader.h): fixed widths per         *)
(* Gaussian, and the attribute streams one behind the other.  A header is  *)
(* a record with at least version, pointCount and shDegree.                *)
(***************************************************************************)
EXTENDS Integers

kSpecMaxShDegree == 4

BytesPerPosition(h) == IF h.version = 1 THEN 6 ELSE 9
BytesPerRotation(h) == IF h.version >= 3 THEN 4 ELSE 3
ShDimensions(h)     == (h.shDegree + 1) * (h.shDegree + 1) - 1

ExpectedPayloadBytes(h) ==
  (BytesPerPosition(h) + 1 + 3 + 3 + BytesPerRotation(h)
     + 3 * ShDimensions(h)) * h.pointCount

StreamBytes(h) ==
  [positions |-> h.pointCount * BytesPerPosition(h), alphas |-> h.pointCount,
   colors |-> h.pointCount * 3, scales |-> h.pointCount * 3,
   rotations |-> h.pointCount * BytesPerRotation(h),
   sh |-> h.pointCount * 3 * ShDimensions(h)]
Slices(h) ==
  LET size      == StreamBytes(h)
      alphas    == size.positions
      colors    == alphas + size.alphas
      scales    == colors + size.colors
      rotations == scales + size.scales
      sh        == rotations + size.rotations
      Span(offset, bytes) == [offset |-> offset, size |-> bytes]
  IN  <<Span(0, size.positions), Span(alphas, size.alphas),
        Span(colors, size.colors), Span(scales, size.scales),
        Span(rotations, size.rotations), Span(sh, size.sh)>>
=============================================================================
