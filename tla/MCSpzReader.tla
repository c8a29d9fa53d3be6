----------------------------- MODULE MCSpzReader -----------------------------
(* One small container of each container version, with and without         *)
(* extension records, and the ways in which it can be broken: cut short at *)
(* every interesting byte, followed by more, corrupt, mislabelled; with a  *)
(* gzip header that ends before, within and behind the bounded prefixes.   *)
EXTENDS SpzReader

Header(version, points, degree, ext) ==
  [magic |-> TRUE, version |-> version, pointCount |-> points,
   shDegree |-> degree, extensions |-> ext]

(* A container with surplus bytes behind its attribute streams.            *)
Container(h, offset, ratio, surplus) ==
  LET total == kHeaderSize + ExpectedPayloadBytes(h) + surplus IN
  [opens |-> TRUE, signature |-> "gzip", offset |-> offset, badAt |-> 0,
   header |-> h, total |-> total, ratio |-> ratio, corruptAt |-> total,
   crcMatches |-> TRUE, lengthMatches |-> TRUE,
   size |-> offset + CeilDiv(total, ratio) + 1 + kTrailerSize]

Plain(h) == Container(h, 10, 4, 0)

Good ==
  {Plain(Header(1, 1, 0, FALSE)), Plain(Header(2, 2, 0, FALSE)),
   Plain(Header(3, 1, 1, FALSE)), Plain(Header(3, 1, 4, TRUE))}
  \cup {Container(Header(3, 1, 0, TRUE), 10, 4, x) : x \in {1, 8, 9, 16, 17}}
  \cup {Container(Header(2, 1, 0, FALSE), o, r, 0) :
          o \in {10, 18, 19, 20, 29, 30, 31, 40}, r \in {1, 4}}

Base == Plain(Header(2, 1, 0, FALSE))

Broken ==
  {[Base EXCEPT !.size = s] : s \in (0 .. 30) \cup {70}}
  \cup {[Base EXCEPT !.total = t, !.corruptAt = t] : t \in {3, 15, 16, 34, 36, 60}}
  \cup {[Base EXCEPT !.corruptAt = c] : c \in {0, 3, 8, 20}}
  \cup {[Base EXCEPT !.badAt = b] : b \in {3, 10}}
  \cup {[Base EXCEPT !.crcMatches = FALSE], [Base EXCEPT !.lengthMatches = FALSE],
        [Base EXCEPT !.opens = FALSE], [Base EXCEPT !.signature = "ngsp"],
        [Base EXCEPT !.signature = "unknown"],
        [Base EXCEPT !.signature = "ngsp", !.header.version = 4],
        [Base EXCEPT !.header.magic = FALSE]}
  \cup {[Base EXCEPT !.header.version = v] : v \in {0, 3, 4}}
  \cup {[Base EXCEPT !.header.pointCount = n] : n \in {0, 2, 3, 4, 100}}
  \cup {[Base EXCEPT !.header.shDegree = d] : d \in {1, 5}}
  \cup {Container(Header(3, 1, 0, x), 10, 4, s) :
          x \in BOOLEAN, s \in {1, 17, 18, 24}}
  \cup {[Container(Header(3, 1, 0, TRUE), 10, 4, 16) EXCEPT !.size = @ - n] :
          n \in 8 .. 12}
  \cup {[Container(Header(2, 1, 0, FALSE), 31, 4, 0) EXCEPT !.badAt = 25]}

(* What the file becomes while it is read: a container, one of exactly the *)
(* largest size, the same with bytes appended, and an empty file.          *)
Largest == Container(Header(1, 1, 0, FALSE), 29, 1, 0)
MCEditVersions ==
  {Base, Largest, [Largest EXCEPT !.size = @ + 2], [Base EXCEPT !.size = 0]}

MCVersions == Good \cup Broken \cup MCEditVersions
=============================================================================
